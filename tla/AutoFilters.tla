----------------------------- MODULE AutoFilters -----------------------------
(***************************************************************************)
(* The auto filter of a sheet and the tables of the document, with the     *)
(* contexts of four formats that read them: a filter is a tree of nodes,   *)
(* each added to the node around it when its element ends.                 *)
(***************************************************************************)
EXTENDS Integers, Sequences, FiniteSets, TLC
LOCAL INSTANCE SequencesExt

CONSTANTS FilterFormats,    \* a subset of {"xlsx", "gnumeric", "xls-xml", "ods"}
          FilterRanges,     \* ranges of cells, as rectangles of <<row, column>>
          FilterTexts,      \* what is compared with
          FilterPatterns,   \* patterns the value parser is checked on, and the
          FilterSamples,    \* texts they are compared with
          Star, Quest, Tilde, Dot, Digit,  \* characters
          TopAttrs,         \* attributes of top10, in their order: [name, val]
          FieldAttrs, XmlColumnAttrs, OdsConditions,  \* of Field, AutoFilterColumn, filter-condition
          TableElements, TableColumns,  \* tables: [name, range, id, totals]; names of columns
          MaxFilterElements \* bound on the elements of a file, for each format

VARIABLES tables,           \* of the document: the sheet's filter, the tables by name
          cxt,              \* members of the contexts
          file              \* elements read so far: [e, a, in]

vars == <<tables, cxt, file>>

None == << >>
NoColumn == -1
-----------------------------------------------------------------------------
(* The document: import_auto_filter, its node objects and import_table.    *)
Node(op, items) == [kind |-> "node", op |-> op, items |-> items]
NoNode == Node("unspecified", << >>)
Rule(field, op, type, val, regex) ==
    [kind |-> "rule", field |-> field, op |-> op, type |-> type, val |-> val, regex |-> regex]
Values(field, vals) == [kind |-> "set", field |-> field, vals |-> vals]

NoFilter == [dest |-> "none", range |-> None, root |-> NoNode, stack |-> << >>]
StartAutoFilter(dest, range) == [NoFilter EXCEPT !.dest = dest, !.range = range]
StartNode(f, op) == [f EXCEPT !.stack = Append(@, Node(op, << >>))]
Depth(f) == Len(f.stack)
AppendItem(f, item) == [f EXCEPT !.stack[Depth(f)].items = Append(@, item)]
Popped(f) == [f EXCEPT !.stack = SubSeq(@, 1, Depth(f) - 1)]
(* The root node replaces the one there is; any other is appended.         *)
CommitNode(f) == IF Depth(f) = 1 THEN [Popped(f) EXCEPT !.root = f.stack[1]]
                 ELSE AppendItem(Popped(f), f.stack[Depth(f)])

NewTable == [id |-> 0, name |-> None, range |-> None, totals |-> 0, columns |-> << >>, filter |-> NoFilter]
Committed(f) == [NoFilter EXCEPT !.range = f.range, !.root = f.root]
NewTables == [filter |-> NoFilter, named |-> << >>, table |-> NewTable]
(* The last filter of a sheet stays, and the last one of a table.          *)
CommitFilter(doc, f) == IF f.dest = "sheet" THEN [doc EXCEPT !.filter = Committed(f)]
                        ELSE [doc EXCEPT !.table.filter = Committed(f)]
(* tables::insert(): the first table with a name stays.                    *)
ReplaceTable(doc) == [doc EXCEPT !.named = (doc.table.name :> doc.table) @@ @, !.table = NewTable]
InsertTable(doc) == [doc EXCEPT !.named = @ @@ (doc.table.name :> doc.table), !.table = NewTable]
-----------------------------------------------------------------------------
(* xls_filter_value_parser: an equality with stars at its ends becomes an  *)
(* operator of its own, and wildcards elsewhere make it a regular          *)
(* expression; a tilde takes the next one as it is.                        *)
EndsWith(s, c) == s # << >> /\ s[Len(s)] = c
IsEscape(s, k) == k < Len(s) /\ s[k] = Tilde /\ s[k+1] \in {Star, Quest}
Escaped(s, k) == k > 1 /\ IsEscape(s, k - 1)
IsWild(s, k) == s[k] \in {Star, Quest} /\ ~Escaped(s, k)
ParseChars(s) ==
    LET f[k \in 0..Len(s)] ==
            IF k = 0 THEN << >>
            ELSE f[k-1] \o (IF IsEscape(s, k) THEN << >>
                            ELSE IF ~IsWild(s, k) THEN <<s[k]>>
                            ELSE IF s[k] = Star THEN <<Dot, Star>> ELSE <<Dot>>)
    IN  f[Len(s)]
OpOf(op, head, tail) ==
    LET base == IF head /\ tail THEN "contain" ELSE IF head THEN "end" ELSE "begin"
    IN  IF ~head /\ ~tail THEN op ELSE IF op = "equal" THEN base ELSE "not " \o base
ParseValue(op, text) ==
    IF op \notin {"equal", "not equal"} \/ text = << >> THEN [op |-> op, val |-> text, regex |-> FALSE]
    ELSE IF text = <<Star>> THEN [op |-> op, val |-> <<Dot, Star>>, regex |-> TRUE]
    ELSE LET head == text[1] = Star
             rest == IF head THEN Tail(text) ELSE text
             tail == EndsWith(rest, Star) /\ ~(Len(rest) >= 2 /\ rest[Len(rest) - 1] = Tilde)
             s == IF tail THEN Front(rest) ELSE rest
         IN  [op |-> OpOf(op, head, tail), val |-> ParseChars(s),
              regex |-> \E k \in DOMAIN s : IsWild(s, k)]

(* A rule with the wildcards of its text, and one with a number.           *)
IsNumber(text) == text # << >> /\ \A k \in DOMAIN text : text[k] = Digit
Orders == {"greater", "less"}
Equalities == {"equal", "not equal"}
NumberRule(field, op, text) == Rule(field, op, "number", text, FALSE)
TextRule(field, op, text) ==
    LET v == ParseValue(op, text) IN Rule(field, v.op, "text", v.val, v.regex)
PutRule(f, r) == AppendItem(f, r)
PutComparison(f, field, op, text) ==
    IF op \in Equalities THEN PutRule(f, TextRule(field, op, text))
    ELSE IF op \in Orders /\ IsNumber(text) THEN PutRule(f, NumberRule(field, op, text)) ELSE f
-----------------------------------------------------------------------------
(* The elements that are open, as their places in the file.                *)
FreshColumn == [index |-> 0, type |-> "All", op |-> "unspecified", val |-> << >>]
NewContext(format) == [format |-> format, phase |-> "file", open |-> << >>, filter |-> NoFilter,
                       column |-> NoColumn, multi |-> NoColumn, vals |-> {}, xls |-> FreshColumn,
                       table |-> FALSE]

Init == /\ \E format \in FilterFormats : cxt = NewContext(format)
        /\ tables = NewTables
        /\ file = << >>

Innermost == IF cxt.open = << >> THEN 0 ELSE cxt.open[Len(cxt.open)]
Open == IF Innermost = 0 THEN "none" ELSE file[Innermost].e
Reading(format) == cxt.phase = "file" /\ cxt.format = format
Reads(format, parents) == Reading(format) /\ Open \in parents /\ Len(file) < MaxFilterElements[format]
Says(e, a) == file' = Append(file, [e |-> e, a |-> a, in |-> Innermost])
Opens(c) == [c EXCEPT !.open = Append(@, Len(file) + 1)]
Closes(c) == [c EXCEPT !.open = Front(@)]
Ends(format, e) == Reading(format) /\ Open = e /\ UNCHANGED file
HasFilter == cxt.filter.dest # "none"
HasNode == cxt.filter.stack # << >>
-----------------------------------------------------------------------------
(* XLSX: xlsx_autofilter_context, for a sheet or a table, and              *)
(* xlsx_table_context.                                                     *)
XlsxStartFilter(ref) ==
    /\ Reads("xlsx", {"none", "table"})
    /\ LET dest == IF Open = "table" THEN "table" ELSE "sheet"
           f == IF ref = None THEN NoFilter ELSE StartNode(StartAutoFilter(dest, ref), "and")
       IN  cxt' = [Opens(cxt) EXCEPT !.filter = f, !.column = NoColumn, !.multi = NoColumn]
    /\ Says("autoFilter", ref)
    /\ UNCHANGED tables
XlsxEndFilter ==
    /\ Ends("xlsx", "autoFilter")
    /\ cxt' = [Closes(cxt) EXCEPT !.filter = NoFilter]
    /\ tables' = IF HasFilter THEN CommitFilter(tables, CommitNode(cxt.filter)) ELSE tables
XlsxStartColumn(id) ==
    /\ Reads("xlsx", {"autoFilter"})
    /\ cxt' = [Opens(cxt) EXCEPT !.column = IF HasFilter /\ id # NoColumn THEN id ELSE @]
    /\ Says("filterColumn", id)
    /\ UNCHANGED tables
XlsxEndColumn ==
    /\ Ends("xlsx", "filterColumn")
    /\ cxt' = [Closes(cxt) EXCEPT !.column = IF HasFilter THEN NoColumn ELSE @]
    /\ UNCHANGED tables
XlsxStartFilters ==
    /\ Reads("xlsx", {"filterColumn"})
    /\ cxt' = IF HasNode THEN [Opens(cxt) EXCEPT !.multi = cxt.column, !.vals = {}] ELSE Opens(cxt)
    /\ Says("filters", None)
    /\ UNCHANGED tables
XlsxFilter(text) ==
    /\ Reads("xlsx", {"filters"})
    /\ cxt' = IF HasFilter THEN [cxt EXCEPT !.vals = @ \cup {text}] ELSE cxt
    /\ Says("filter", text)
    /\ UNCHANGED tables
XlsxEndFilters ==
    /\ Ends("xlsx", "filters")
    /\ cxt' = IF HasFilter THEN [Closes(cxt) EXCEPT !.filter = AppendItem(@, Values(cxt.multi, cxt.vals))]
              ELSE Closes(cxt)
    /\ UNCHANGED tables
XlsxStartCustomFilters(op) ==
    /\ Reads("xlsx", {"filterColumn"})
    /\ cxt' = IF HasFilter THEN [Opens(cxt) EXCEPT !.filter = StartNode(@, op)] ELSE Opens(cxt)
    /\ Says("customFilters", op)
    /\ UNCHANGED tables
XlsxEndCustomFilters ==
    /\ Ends("xlsx", "customFilters")
    /\ cxt' = IF HasFilter THEN [Closes(cxt) EXCEPT !.filter = CommitNode(@)] ELSE Closes(cxt)
    /\ UNCHANGED tables
XlsxCustomFilter(op, text) ==
    /\ Reads("xlsx", {"customFilters"})
    /\ cxt' = IF HasFilter THEN [cxt EXCEPT !.filter = PutComparison(@, cxt.column, op, text)] ELSE cxt
    /\ Says("rule", [op |-> op, text |-> text])
    /\ UNCHANGED tables

(* The case of "top" goes on into that of "val".                           *)
TopValue(attrs) == SelectSeq(attrs, LAMBDA x : x.name \in {"top", "val"})
TopOp(attrs) ==
    LET is(name, b) == \E k \in DOMAIN attrs : attrs[k].name = name /\ (attrs[k].val = << >>) = b
        base == IF is("top", TRUE) THEN "bottom" ELSE "top"
    IN  IF is("percent", FALSE) THEN base \o " percent" ELSE base
XlsxTop10(attrs) ==
    /\ Reads("xlsx", {"filterColumn"})
    /\ LET given == TopValue(attrs)
           val == given[Len(given)].val
       IN  cxt' = IF HasFilter /\ given # << >>
                  THEN [cxt EXCEPT !.filter = PutRule(@, NumberRule(cxt.column, TopOp(attrs), val))] ELSE cxt
    /\ Says("top10", attrs)
    /\ UNCHANGED tables
(* An average becomes a comparison with the number it had.                 *)
XlsxDynamicFilter(type, text) ==
    /\ Reads("xlsx", {"filterColumn"})
    /\ LET op == IF type = "aboveAverage" THEN "greater" ELSE "less"
       IN  cxt' = IF HasFilter /\ type \in {"aboveAverage", "belowAverage"} /\ IsNumber(text)
                  THEN [cxt EXCEPT !.filter = PutRule(@, NumberRule(cxt.column, op, text))] ELSE cxt
    /\ Says("dynamicFilter", [type |-> type, text |-> text])
    /\ UNCHANGED tables

XlsxStartTable(a) ==
    /\ Reads("xlsx", {"none"})
    /\ tables' = [tables EXCEPT !.table = [NewTable EXCEPT !.id = a.id, !.name = a.name, !.range = a.range,
                                                           !.totals = a.totals]]
    /\ cxt' = Opens(cxt)
    /\ Says("table", a)
XlsxTableColumn(name) ==
    /\ Reads("xlsx", {"table"})
    /\ tables' = [tables EXCEPT !.table.columns = Append(@, name)]
    /\ Says("tableColumn", name)
    /\ UNCHANGED cxt
(* A table without a range ends the import.                                *)
XlsxEndTable ==
    /\ Ends("xlsx", "table")
    /\ IF tables.table.range = None THEN cxt' = [cxt EXCEPT !.phase = "failed"] /\ UNCHANGED tables
       ELSE cxt' = Closes(cxt) /\ tables' = InsertTable(tables)
-----------------------------------------------------------------------------
(* Gnumeric: gnumeric_filter_context.                                      *)
GnumericStartFilter(area) ==
    /\ Reads("gnumeric", {"none"})
    /\ cxt' = [Opens(cxt) EXCEPT !.filter =
                  IF area = None THEN NoFilter ELSE StartNode(StartAutoFilter("sheet", area), "and")]
    /\ Says("Filter", area)
    /\ UNCHANGED tables
GnumericEndFilter ==
    /\ Ends("gnumeric", "Filter")
    /\ cxt' = [Closes(cxt) EXCEPT !.filter = NoFilter]
    /\ tables' = IF HasFilter THEN CommitFilter(tables, CommitNode(cxt.filter)) ELSE tables

(* A field with a connector has a node for its two rules, the first of     *)
(* which goes there even when the second is no rule.                       *)
FieldRule(f, field, x) ==
    IF x.type = "string" THEN PutRule(f, TextRule(field, x.op, x.text))
    ELSE IF x.type = "boolean" \/ (x.type = "float" /\ IsNumber(x.text)) THEN PutRule(f, NumberRule(field, x.op, x.text)) ELSE f
Says2(x) == x.op # "unspecified" /\ x.type # "none"
ExpressionField(f, a) ==
    IF ~Says2(a.rules[1]) THEN f
    ELSE IF a.connector = "none" THEN FieldRule(f, a.field, a.rules[1])
    ELSE LET one == FieldRule(StartNode(f, a.connector), a.field, a.rules[1])
             two == IF Len(a.rules) = 2 /\ Says2(a.rules[2]) THEN FieldRule(one, a.field, a.rules[2]) ELSE one
         IN  CommitNode(two)
BucketOp(a) ==
    LET base == IF a.top THEN "top" ELSE "bottom"
    IN  IF a.items THEN base ELSE IF a.range THEN base \o " percent range" ELSE base \o " percent"
GnumericField(a) ==
    /\ Reads("gnumeric", {"Filter"})
    /\ cxt' = IF ~HasNode \/ a.field = NoColumn THEN cxt
              ELSE [cxt EXCEPT !.filter =
                       CASE a.type = "expr" -> ExpressionField(@, a)
                         [] a.type = "blanks" -> PutRule(@, NumberRule(a.field, "empty", << >>))
                         [] a.type = "noblanks" -> PutRule(@, NumberRule(a.field, "not empty", << >>))
                         [] a.type = "bucket" -> IF IsNumber(a.text) THEN PutRule(@, NumberRule(a.field, BucketOp(a), a.text))
                                                 ELSE @]
    /\ Says("Field", a)
    /\ UNCHANGED tables
-----------------------------------------------------------------------------
(* Excel 2003 XML: xls_xml_auto_filter_context.                            *)
XmlStartFilter(range) ==
    /\ Reads("xls-xml", {"none"})
    /\ cxt' = [Opens(cxt) EXCEPT !.filter = IF range = None THEN NoFilter ELSE StartAutoFilter("sheet", range)]
    /\ Says("AutoFilter", range)
    /\ UNCHANGED tables
XmlEndFilter ==
    /\ Ends("xls-xml", "AutoFilter")
    /\ tables' = IF ~HasFilter THEN tables
                 ELSE CommitFilter(tables, IF HasNode THEN CommitNode(cxt.filter) ELSE cxt.filter)
    /\ cxt' = [Closes(cxt) EXCEPT !.filter = NoFilter]
XmlStartColumn(a) ==
    /\ Reads("xls-xml", {"AutoFilter"})
    /\ cxt' = IF ~HasFilter THEN Opens(cxt)
              ELSE [Opens(cxt) EXCEPT !.xls = [FreshColumn EXCEPT
                                        !.index = IF a.index = 0 THEN 0 ELSE a.index - 1,
                                        !.type = a.type, !.val = IF IsNumber(a.text) THEN a.text ELSE << >>],
                                      !.filter = IF HasNode THEN @ ELSE StartNode(@, "and")]
    /\ Says("AutoFilterColumn", a)
    /\ UNCHANGED tables
ColumnOps == "Blanks" :> "empty" @@ "NonBlanks" :> "not empty" @@ "Top" :> "top" @@ "TopPercent" :> "top percent"
             @@ "Bottom" :> "bottom" @@ "BottomPercent" :> "bottom percent"
EndColumn(f) ==
    LET c == cxt.xls
        node == StartNode(f, "and")
    IN  IF c.type \in DOMAIN ColumnOps
        THEN CommitNode(PutRule(node, NumberRule(c.index, ColumnOps[c.type], c.val)))
        ELSE IF c.type = "Custom" /\ Depth(f) = 2 THEN CommitNode(f) ELSE f
XmlEndColumn ==
    /\ Ends("xls-xml", "AutoFilterColumn")
    /\ cxt' = IF HasFilter THEN [Closes(cxt) EXCEPT !.filter = EndColumn(@), !.xls = FreshColumn] ELSE Closes(cxt)
    /\ UNCHANGED tables
(* Without a filter there is no node to start this one in.                 *)
XmlStartNode(op) ==
    /\ Reads("xls-xml", {"AutoFilterColumn"})
    /\ cxt' = IF HasFilter THEN [Opens(cxt) EXCEPT !.xls.op = op, !.filter = StartNode(@, op)]
              ELSE [cxt EXCEPT !.phase = "failed"]
    /\ Says("node", op)
    /\ UNCHANGED tables
XmlEndNode ==
    /\ Ends("xls-xml", "node")
    /\ cxt' = [Closes(cxt) EXCEPT !.filter = CommitNode(@)]
    /\ UNCHANGED tables
(* A condition right in its column starts the node it needs.               *)
XmlCondition(op, text) ==
    /\ Reads("xls-xml", {"AutoFilterColumn", "node"})
    /\ LET bare == cxt.xls.op = "unspecified"
           f == IF bare THEN StartNode(cxt.filter, "and") ELSE cxt.filter
       IN  cxt' = IF ~HasFilter THEN cxt
                  ELSE [cxt EXCEPT !.filter = PutComparison(f, cxt.xls.index, op, text),
                                   !.xls.op = IF bare THEN "and" ELSE @]
    /\ Says("rule", [op |-> op, text |-> text])
    /\ UNCHANGED tables
-----------------------------------------------------------------------------
(* ODS: ods_database_ranges_context; a filter is that of a table.          *)
OdsStartRange(a) ==
    /\ Reads("ods", {"none"})
    /\ LET starts == a.name # None /\ a.range # None
       IN  /\ cxt' = [Opens(cxt) EXCEPT !.table = starts]
           /\ tables' = IF starts THEN [tables EXCEPT !.table = [NewTable EXCEPT !.name = a.name, !.range = a.range]]
                        ELSE tables
    /\ Says("database-range", a)
OdsEndRange ==
    /\ Ends("ods", "database-range")
    /\ cxt' = [Closes(cxt) EXCEPT !.table = FALSE]
    /\ tables' = IF cxt.table THEN InsertTable(tables) ELSE tables
OdsStartFilter ==
    /\ Reads("ods", {"database-range"})
    /\ cxt' = [Opens(cxt) EXCEPT !.filter =
                  IF cxt.table THEN StartAutoFilter("table", tables.table.range) ELSE NoFilter]
    /\ Says("filter", None)
    /\ UNCHANGED tables
OdsEndFilter ==
    /\ Ends("ods", "filter")
    /\ cxt' = [Closes(cxt) EXCEPT !.filter = NoFilter]
    /\ tables' = IF HasFilter THEN CommitFilter(tables, cxt.filter) ELSE tables
OdsStartNode(op) ==
    /\ Reads("ods", {"filter", "node"})
    /\ (Open = "node") => file[Innermost].a # op
    /\ cxt' = IF HasFilter THEN [Opens(cxt) EXCEPT !.filter = StartNode(@, op)] ELSE Opens(cxt)
    /\ Says("node", op)
    /\ UNCHANGED tables
OdsEndNode ==
    /\ Ends("ods", "node")
    /\ cxt' = IF HasNode THEN [Closes(cxt) EXCEPT !.filter = CommitNode(@)] ELSE Closes(cxt)
    /\ UNCHANGED tables
(* Only some operators are read; a number is one when its type says so or  *)
(* nothing.                                                                *)
OdsRule(f, a) ==
    IF a.op \in Orders /\ a.type # "text" /\ IsNumber(a.text) THEN PutRule(f, NumberRule(a.field, a.op, a.text))
    ELSE IF a.op = "contain" /\ a.type # "number" THEN PutRule(f, Rule(a.field, a.op, "text", a.text, FALSE))
    ELSE IF a.op = "empty" THEN PutRule(f, Rule(a.field, a.op, "empty", << >>, FALSE)) ELSE f
OdsCondition(a) ==
    /\ Reads("ods", {"node"})
    /\ cxt' = IF HasNode /\ a.field # NoColumn THEN [cxt EXCEPT !.filter = OdsRule(@, a)] ELSE cxt
    /\ Says("rule", a)
    /\ UNCHANGED tables

Next == \/ \E ref \in FilterRanges \cup {None} :
              XlsxStartFilter(ref) \/ GnumericStartFilter(ref) \/ XmlStartFilter(ref)
        \/ XlsxEndFilter \/ XlsxEndColumn \/ XlsxStartFilters \/ XlsxEndFilters \/ XlsxEndCustomFilters \/ XlsxEndTable
        \/ \E id \in {NoColumn, 0, 1} : XlsxStartColumn(id)
        \/ \E op \in {"and", "or"} : XlsxStartCustomFilters(op) \/ XmlStartNode(op) \/ OdsStartNode(op)
        \/ \E text \in FilterTexts : \/ XlsxFilter(text)
                                    \/ \E op \in {"equal", "greater"} : XlsxCustomFilter(op, text) \/ XmlCondition(op, text)
                                    \/ \E t \in {"aboveAverage", "today"} : XlsxDynamicFilter(t, text)
        \/ \E a \in TopAttrs : XlsxTop10(a)
        \/ \E a \in TableElements : XlsxStartTable(a) \/ OdsStartRange(a)
        \/ \E name \in TableColumns : XlsxTableColumn(name)
        \/ \E a \in FieldAttrs : GnumericField(a)
        \/ \E a \in XmlColumnAttrs : XmlStartColumn(a)
        \/ \E a \in OdsConditions : OdsCondition(a)
        \/ GnumericEndFilter \/ XmlEndFilter \/ XmlEndColumn \/ XmlEndNode
        \/ OdsEndRange \/ OdsStartFilter \/ OdsEndFilter \/ OdsEndNode
-----------------------------------------------------------------------------
(* What a text with wildcards means, and what a rule of the document does. *)
Matches(p, t) ==
    LET m[i \in 1..Len(p) + 1, j \in 1..Len(t) + 1] ==
            IF i > Len(p) THEN j > Len(t)
            ELSE IF IsEscape(p, i) THEN j <= Len(t) /\ t[j] = p[i + 1] /\ m[i + 2, j + 1]
            ELSE IF p[i] = Star THEN \E n \in j..Len(t) + 1 : m[i + 1, n]
            ELSE j <= Len(t) /\ p[i] \in {Quest, t[j]} /\ m[i + 1, j + 1]
    IN  m[1, 1]
MatchesRegex(r, t) ==
    LET m[i \in 1..Len(r) + 1, j \in 1..Len(t) + 1] ==
            IF i > Len(r) THEN j > Len(t)
            ELSE LET one == j <= Len(t) /\ r[i] \in {Dot, t[j]} IN
                 IF i < Len(r) /\ r[i + 1] = Star THEN m[i + 2, j] \/ (one /\ m[i, j + 1])
                 ELSE one /\ m[i + 1, j + 1]
    IN  m[1, 1]
Is(v, t) == IF v.regex THEN MatchesRegex(v.val, t) ELSE v.val = t
Accepts(v, t) ==
    LET some(from, to) == \E m \in from, n \in to : m <= n + 1 /\ Is(v, SubSeq(t, m, n))
        all == 1..Len(t) + 1
        ends == 0..Len(t)
    IN  CASE v.op = "equal" -> Is(v, t)           [] v.op = "not equal" -> ~Is(v, t)
          [] v.op = "begin" -> some({1}, ends)    [] v.op = "not begin" -> ~some({1}, ends)
          [] v.op = "end" -> some(all, {Len(t)})  [] v.op = "not end" -> ~some(all, {Len(t)})
          [] v.op = "contain" -> some(all, ends)  [] v.op = "not contain" -> ~some(all, ends)

(* A text compared with a pattern of the file is accepted by the rule      *)
(* made of it just when the pattern matches: whether its wildcards are at  *)
(* the ends or make a regular expression, and whatever is escaped (unless  *)
(* both are there: an escaped star then is one of the expression).         *)
AtAnEnd(p, k) == p[k] = Star /\ k \in {1, Len(p)}
Mixed(p) == (\E k \in DOMAIN p : IsEscape(p, k)) /\ (\E k \in DOMAIN p : IsWild(p, k) /\ ~AtAnEnd(p, k))
PatternsMeanTheSame ==
    \A p \in FilterPatterns, t \in FilterSamples :
        ~Mixed(p) => /\ Accepts(ParseValue("equal", p), t) = Matches(p, t)
                     /\ Accepts(ParseValue("not equal", p), t) = ~Matches(p, t)

(* The rules of an element of the file, in the nodes they are in there.    *)
Want(field, op, text) == <<[kind |-> "rule", field |-> field, op |-> op, text |-> text]>>
WantNode(op, items) == [kind |-> "node", op |-> op, items |-> items]
Kids(k) == SelectSeq([j \in DOMAIN file |-> j], LAMBDA j : file[j].in = k)
Comparison(field, a) ==
    IF a.op \in Equalities \/ (a.op \in Orders /\ IsNumber(a.text)) THEN Want(field, a.op, a.text) ELSE << >>
WantedOds(a) ==
    IF a.field = NoColumn THEN << >>
    ELSE IF (a.op \in Orders /\ a.type # "text" /\ IsNumber(a.text)) \/ (a.op = "contain" /\ a.type # "number")
            \/ a.op = "empty" THEN Want(a.field, a.op, a.text) ELSE << >>
WantedRule(field, x) ==
    IF x.type = "string" \/ x.type = "boolean" \/ (x.type = "float" /\ IsNumber(x.text))
    THEN Want(field, x.op, x.text) ELSE << >>
WantedField(a) ==
    LET read == SelectSeq(a.rules, LAMBDA x : x.op # "unspecified" /\ x.type # "none")
    IN  CASE a.field = NoColumn -> << >>
          [] a.type = "blanks" -> Want(a.field, "empty", << >>)
          [] a.type = "noblanks" -> Want(a.field, "not empty", << >>)
          [] a.type = "bucket" -> IF IsNumber(a.text) THEN Want(a.field, BucketOp(a), a.text) ELSE << >>
          [] OTHER -> IF read = << >> \/ read[1] # a.rules[1] THEN << >>
                      ELSE IF a.connector = "none" THEN WantedRule(a.field, read[1])
                      ELSE <<WantNode(a.connector, WantedRule(a.field, read[1]) \o
                                 (IF Len(read) = 2 THEN WantedRule(a.field, read[2]) ELSE << >>))>>
Wanted[k \in DOMAIN file, col \in Int] ==
    LET x == file[k]
        inside(c) == FlattenSeq([n \in DOMAIN Kids(k) |-> Wanted[Kids(k)[n], c]])
    IN
    CASE x.e = "filterColumn" -> inside(x.a)
      [] x.e = "filters" -> <<Values(col, {file[j].a : j \in {i \in DOMAIN file : file[i].in = k}})>>
      [] x.e \in {"customFilters", "node"} -> <<WantNode(x.a, inside(col))>>
      [] x.e = "rule" -> IF cxt.format = "ods" THEN WantedOds(x.a) ELSE Comparison(col, x.a)
      [] x.e = "top10" -> LET vals == SelectSeq(x.a, LAMBDA y : y.name = "val") IN
                          IF vals = << >> THEN << >> ELSE Want(col, TopOp(x.a), vals[1].val)
      [] x.e = "dynamicFilter" -> IF x.a.type # "aboveAverage" \/ ~IsNumber(x.a.text) THEN << >>
                                  ELSE Want(col, "greater", x.a.text)
      [] x.e = "Field" -> WantedField(x.a)
      [] x.e = "AutoFilterColumn" ->
            LET index == IF x.a.index = 0 THEN 0 ELSE x.a.index - 1
                rules == inside(index)
                bare == Kids(k) # << >> /\ file[Kids(k)[1]].e = "rule"
            IN  IF x.a.type = "Custom" THEN (IF bare THEN <<WantNode("and", rules)>> ELSE rules)
                ELSE IF x.a.type = "All" THEN << >>
                ELSE <<WantNode("and", Want(index, ColumnOps[x.a.type], x.a.text))>>
Inside(k, col) == FlattenSeq([n \in DOMAIN Kids(k) |-> Wanted[Kids(k)[n], col]])
RootOf(k) ==
    LET kids == Kids(k)
        all == Inside(k, NoColumn)
    IN  IF cxt.format = "ods" THEN (IF kids = << >> THEN NoNode ELSE all[Len(all)])
        ELSE IF cxt.format = "xls-xml" /\ kids = << >> THEN NoNode
        ELSE WantNode("and", all)

(* Two items are the same when they are alike and so are their own items:  *)
(* the pairs of them, level by level, which are no more than the elements. *)
Alike(item, w) ==
    /\ item.kind = w.kind
    /\ CASE item.kind = "node" -> item.op = w.op /\ Len(item.items) = Len(w.items)
         [] item.kind = "set" -> item = w
         [] item.kind = "rule" -> /\ item.field = w.field
                                  /\ IF w.op \in Equalities
                                     THEN \A t \in FilterSamples : Accepts(item, t) = Accepts(TextRule(0, w.op, w.text), t)
                                     ELSE item.op = w.op /\ item.val = w.text
ItemPairs(item, w) ==
    IF Alike(item, w) /\ item.kind = "node"
    THEN {<<item.items[k], w.items[k]>> : k \in DOMAIN item.items} ELSE {}
Same(item, w) ==
    LET level[n \in 0..Len(file) + 2] ==
            IF n = 0 THEN {<<item, w>>} ELSE UNION {ItemPairs(x[1], x[2]) : x \in level[n - 1]}
    IN  \A n \in 0..Len(file) + 2 : \A x \in level[n] : Alike(x[1], x[2])

(* Two kinds of elements are not compared.  In XLSX, a top10 filter with   *)
(* its direction after its number: that case falls through to the one of   *)
(* the number (xlsx_autofilter_context.cpp:446).  In Excel 2003, conditions *)
(* or nodes in a column that is not a custom one: the node the first       *)
(* condition starts is left open, so that what later columns say goes in   *)
(* there, and end_column's assertion that only the root is open fails      *)
(* (xls_xml_auto_filter_context.cpp:308).                                  *)
Under(k, j) ==
    LET under[i \in DOMAIN file] == file[i].in = k \/ (file[i].in # 0 /\ under[file[i].in])
    IN  under[j]
Clear(j) ==
    LET x == file[j]
    IN  /\ (x.e = "top10" /\ x.a # << >>) => x.a[Len(x.a)].name = "val" \/ TopValue(x.a) = << >>
        /\ x.e = "AutoFilterColumn" => x.a.type = "Custom" \/ Kids(j) = << >>
ClearlySaid(k) == \A j \in DOMAIN file : Under(k, j) => Clear(j)

FilterElements == {"autoFilter", "Filter", "AutoFilter", "filter"}
HasEnded(k) == \A i \in DOMAIN cxt.open : cxt.open[i] # k
Ended(parent) == {k \in DOMAIN file : file[k].e \in FilterElements /\ file[k].in = parent /\ HasEnded(k)
                                      /\ (file[k].e = "filter" \/ file[k].a # None)}
LastOf(S) == CHOOSE k \in S : \A j \in S : j <= k
FirstOf(S) == CHOOSE k \in S : \A j \in S : k <= j
IsOfTheFile(f, filters) ==
    IF filters = {} THEN f.root = NoNode /\ f.range = None
    ELSE LET k == LastOf(filters) IN ClearlySaid(k) => Same(f.root, RootOf(k))

(* The filter of the sheet is the last one of the file, with the rules     *)
(* there, for the columns there, in the nodes there; so is that of every   *)
(* table, and a table is the first one with its name.                      *)
FiltersAreOfTheFile ==
    /\ IsOfTheFile(tables.filter, IF cxt.format = "ods" THEN {} ELSE Ended(0))
    /\ LET read == {k \in DOMAIN file : /\ file[k].e \in {"table", "database-range"} /\ HasEnded(k)
                                        /\ file[k].a.range # None
                                        /\ cxt.format = "ods" => file[k].a.name # None}
       IN  /\ DOMAIN tables.named = {file[k].a.name : k \in read}
           /\ \A n \in DOMAIN tables.named :
                 LET k == FirstOf({j \in read : file[j].a.name = n})
                     t == tables.named[n]
                     columns == SelectSeq(Kids(k), LAMBDA j : file[j].e = "tableColumn")
                 IN  /\ t.range = file[k].a.range
                     /\ t.columns = [i \in DOMAIN columns |-> file[columns[i]].a]
                     /\ IsOfTheFile(t.filter, Ended(k))
-----------------------------------------------------------------------------
(* ixion_table_handler: the cells a formula means by columns and areas of  *)
(* a table.                                                                *)
FindColumn(tab, name, offset) ==
    LET found == {k \in DOMAIN tab.columns : k > offset /\ tab.columns[k] = name}
    IN  IF found = {} THEN NoColumn ELSE tab.range.first[2] + FirstOf(found) - 1
AdjustRowRange(range, tab, areas) ==
    LET from(r) == [range EXCEPT !.first[1] = r]
        to(rng, r) == [rng EXCEPT !.last[1] = r]
        top == range.first[1]
        bottom == range.last[1]
    IN  CASE areas = {"headers", "data", "totals"} -> range
          [] areas = {"headers", "data"} -> to(range, bottom - tab.totals)
          [] areas = {"headers"} -> to(range, top)
          [] areas = {"data", "totals"} -> from(top + 1)
          [] areas = {"data"} -> to(from(top + 1), bottom - tab.totals)
          [] areas = {"totals"} /\ tab.totals > 0 -> from(bottom - tab.totals - 1)
          [] OTHER -> None
RangeFromTable(tab, first, last, areas) ==
    LET col1 == FindColumn(tab, first, 0)
        col2 == IF last = None THEN col1 ELSE FindColumn(tab, last, col1)
    IN  IF first = None \/ col1 = NoColumn THEN None
        ELSE AdjustRowRange([tab.range EXCEPT !.first[2] = col1, !.last[2] = col2], tab, areas)

(* A reference to a column of a table is to its header, to the rows under  *)
(* it or to those and the totals, in the column of the sheet where the     *)
(* first column with that name is; one to two columns goes to the first of *)
(* the second name from the first column on.  (A reference to the totals   *)
(* alone has two rows more than there are, and the place of the second     *)
(* column is counted from the sheet's first.)                              *)
RowsOf(tab, area) ==
    LET top == tab.range.first[1]
        bottom == tab.range.last[1]
    IN  CASE area = "headers" -> {top}
          [] area = "data" -> top + 1 .. bottom - tab.totals
          [] area = "totals" -> bottom - tab.totals + 1 .. bottom
CellsOf(range) == IF range = None THEN {} ELSE (range.first[1]..range.last[1]) \X (range.first[2]..range.last[2])
Named(tab, k) == \A j \in 1..k-1 : tab.columns[j] # tab.columns[k]
TableReferencesAreOwn ==
    \A n \in DOMAIN tables.named :
        LET tab == tables.named[n]
            at(k) == tab.range.first[2] + k - 1
        IN  \A areas \in (SUBSET {"headers", "data", "totals"}) \ {{"headers", "totals"}, {"totals"}} :
              LET rows == UNION {RowsOf(tab, area) : area \in areas} IN
              \A i, j \in DOMAIN tab.columns :
                /\ (i = j /\ Named(tab, i)) =>
                      CellsOf(RangeFromTable(tab, tab.columns[i], None, areas)) = rows \X {at(i)}
                /\ (i < j /\ Named(tab, i) /\ Named(tab, j) /\ tab.range.first[2] = 0) =>
                      CellsOf(RangeFromTable(tab, tab.columns[i], tab.columns[j], areas)) = rows \X (at(i)..at(j))
=============================================================================
