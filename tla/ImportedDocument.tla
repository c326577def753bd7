-------------------------- MODULE ImportedDocument --------------------------
(***************************************************************************)
(* A spreadsheet document from the first call of an import to its dumps:   *)
(* document (src/spreadsheet/document.cpp), the factory that a filter is   *)
(* given with its sheets, views, settings and named expressions            *)
(* (factory.cpp, factory_sheet.cpp, view.cpp), and what the dumpers write  *)
(* of it: a text file, lines for comparison, JSON, HTML and the debug      *)
(* state of each sheet.  The sheets are those of ImportSheet.              *)
(*                                                                         *)
(* A sheet's name is a pair of what is before its last dot and what is     *)
(* behind it; the file of a sheet is named by the first.                   *)
(***************************************************************************)
EXTENDS ImportSheet, SequencesExt

CONSTANTS CallSets,      \* the calls that an import may make, in any order, for each purpose
          MaxCalls,      \* and how many of them
          UnsafeNames,   \* names that are empty, dots, or have a separator
          Unwritable,    \* names whose file cannot be created
          BadTexts       \* expressions that cannot be parsed

VARIABLES builder, doc, cxt, file

Bare == INSTANCE ImportSheet WITH FillMissing <- FALSE

Calculated == <<-3>>     \* the result of a calculation
Global == 0              \* the factory; the sheets are 1, 2...
Panes == {"top_left", "top_right", "bottom_left", "bottom_right"}

(* What a grammar makes of the references of each context.                 *)
ResolversOf(grammar) ==
    CASE grammar = "xls_xml" -> [c \in {"global", "base", "range", "table"} |-> "excel_r1c1"]
      [] grammar = "ods" -> [global |-> "odff", base |-> "calc_a1", range |-> "odf_cra", table |-> "odf_cra"]
      [] grammar \in {"xlsx", "gnumeric"} -> [c \in {"global", "base", "range", "table"} |-> "excel_a1"]
      [] OTHER -> << >>

FreshName(sheet) == [name |-> "", base |-> <<sheet, 0, 0>>, tokens |-> NoTokens, by |-> "none"]
FreshView == [active |-> "top_left", selection |-> [p \in Panes |-> NoRectangle], pane |-> << >>]

(* A sheet with what import_sheet keeps for it and its view.               *)
SheetItem(name, index, fill, policy) ==
    NewSheet @@ [name |-> name, fill |-> fill, policy |-> policy, charset |-> "unspecified",
                 names |-> << >>, named |-> FreshName(index), view |-> FreshView]

NewDocument == [sheets |-> << >>, known |-> << >>, strings |-> NewStrings, names |-> << >>,
                grammar |-> "xlsx", resolvers |-> [global |-> "excel_a1"], dirty |-> {}, active |-> 1]

Init == /\ builder = "document"
        /\ doc = NewDocument
        /\ \E calls \in DOMAIN CallSets :
              cxt = [calls |-> calls, named |-> FreshName(1), resolver |-> "none", recalc |-> FALSE,
                     policy |-> "fail", charset |-> "unspecified", done |-> FALSE, error |-> ""]
        /\ file = << >>

Change(d, c) == doc' = d /\ cxt' = c
Fail(what) == UNCHANGED doc /\ cxt' = [cxt EXCEPT !.error = what]
OnSheet(i, sh) == doc' = [doc EXCEPT !.sheets[i] = sh] /\ UNCHANGED cxt
Sheets == DOMAIN doc.sheets
-----------------------------------------------------------------------------
(* The factory                                                             *)
(* The document has the new sheet before the model context has refused a   *)
(* name that it knows.                                                     *)
AppendSheet(c) ==
    LET item == [SheetItem(c.name, Len(doc.sheets) + 1, ~cxt.recalc, cxt.policy)
                    EXCEPT !.charset = cxt.charset]
    IN  IF Contains(doc.known, c.name)
        THEN Change([doc EXCEPT !.sheets = Append(@, item)], [cxt EXCEPT !.error = "sheet name"])
        ELSE Change([doc EXCEPT !.sheets = Append(@, item), !.known = Append(@, c.name)], cxt)

SetSheetName(c) ==
    IF Contains(doc.known, c.name) /\ doc.known[c.sheet] # c.name THEN Fail("sheet name")
    ELSE Change([doc EXCEPT !.known[c.sheet] = c.name, !.sheets[c.sheet].name = c.name], cxt)

GetSheetIndex(name) ==
    LET of == {i \in Sheets : doc.sheets[i].name = name}
    IN  IF of = {} THEN 0 ELSE CHOOSE i \in of : \A j \in of : i <= j

SetCharacterSet(c) ==
    Change([doc EXCEPT !.sheets = [i \in DOMAIN @ |-> [@[i] EXCEPT !.charset = c.charset]]],
           [cxt EXCEPT !.charset = c.charset])
SetRecalc(c) == Change(doc, [cxt EXCEPT !.recalc = c.recalc])
SetErrorPolicy(c) == Change(doc, [cxt EXCEPT !.policy = c.policy])

SetFormulaGrammar(c) ==
    IF doc.grammar = c.grammar THEN UNCHANGED <<doc, cxt>>
    ELSE Change([doc EXCEPT !.grammar = c.grammar, !.resolvers = ResolversOf(c.grammar)], cxt)

(* There is one resolver object: a request changes what all holders have.  *)
GetResolver(context) == IF context \in DOMAIN doc.resolvers THEN doc.resolvers[context] ELSE "none"
GetReferenceResolver(c) == Change(doc, [cxt EXCEPT !.resolver = GetResolver(c.context)])

GetOrCreateSheetView(i) == IF i \in Sheets THEN doc.sheets[i].view ELSE FreshView
SetSelectedRange(c) ==
    IF c.pane \notin Panes THEN Fail("invalid sheet pane")
    ELSE OnSheet(c.sheet, [doc.sheets[c.sheet] EXCEPT
            !.view = [GetOrCreateSheetView(c.sheet) EXCEPT !.selection[c.pane] = c.range]])
SetPane(c) ==
    OnSheet(c.sheet, [doc.sheets[c.sheet] EXCEPT
        !.view = [GetOrCreateSheetView(c.sheet) EXCEPT !.active = c.pane, !.pane = (c.how :> c.split) @@ @]])
SetSheetActive(c) == Change([doc EXCEPT !.active = c.sheet], cxt)

(* finalize(): the cells that were noted are calculated.                   *)
RecalcFormulaCells(d) ==
    [d EXCEPT !.sheets = [i \in DOMAIN @ |-> [@[i] EXCEPT !.cells = [p \in Positions |->
        IF \/ @[p].kind = "formula" /\ <<i, p>> \in d.dirty
           \/ @[p].kind = "grouped" /\ <<i, @[p].tokens.at>> \in d.dirty
        THEN [@[p] EXCEPT !.result = Calculated] ELSE @[p]]]]]
Finalize(c) == Change(IF cxt.recalc THEN RecalcFormulaCells(doc) ELSE doc, [cxt EXCEPT !.done = TRUE])
-----------------------------------------------------------------------------
(* Named expressions, of the factory and of a sheet: the base is kept for  *)
(* the next name until it is committed.                                    *)
NamedOf(i) == IF i = Global THEN cxt.named ELSE doc.sheets[i].named
PutNamed(i, n) == IF i = Global THEN Change(doc, [cxt EXCEPT !.named = n])
                  ELSE OnSheet(i, [doc.sheets[i] EXCEPT !.named = n])

SetBasePosition(c) == PutNamed(c.sheet, [NamedOf(c.sheet) EXCEPT !.base = c.base])
Define(c) ==
    LET by == GetResolver(c.context)
    IN  IF by = "none" THEN Fail("no resolver")           \* an assertion, or a null dereference
        ELSE IF c.text \in BadTexts THEN Fail("formula parse")
        ELSE PutNamed(c.sheet, [NamedOf(c.sheet) EXCEPT !.name = c.name, !.by = by,
                                                        !.tokens = Tokens(c.text, NamedOf(c.sheet).base)])
CommitName(c) ==
    LET n == NamedOf(c.sheet)
        exp == n.name :> [base |-> n.base, tokens |-> n.tokens, by |-> n.by]
    IN  IF n.name = "" THEN Fail("invalid name")
        ELSE IF c.sheet = Global
             THEN Change([doc EXCEPT !.names = exp @@ @], [cxt EXCEPT !.named = FreshName(1)])
             ELSE OnSheet(c.sheet, [doc.sheets[c.sheet] EXCEPT !.names = exp @@ @, !.named = FreshName(1)])
-----------------------------------------------------------------------------
(* Cells.  A formula that cannot be parsed fails, or its cell is an error. *)
OpenFormula(sh) == IF sh.fill THEN GetFormula(sh) ELSE Bare!GetFormula(sh)
ErrorText == <<0>>
TextOf(sh, text) == IF text \in BadTexts THEN ErrorText ELSE text

Refused(sh, text) == text \in BadTexts /\ sh.policy = "fail"
SetFormulaCell(c) ==
    LET sh == doc.sheets[c.sheet]
        placed == FormulaPosition(OpenFormula(sh), c.pos)
        read == IF c.text = NoText THEN placed ELSE FormulaText(placed, TextOf(sh, c.text))
        shared == IF c.index = 0 THEN read ELSE FormulaSharedIndex(read, c.index)
    IN  IF c.text # NoText /\ Refused(sh, c.text) THEN Fail("formula parse")
        ELSE Change([doc EXCEPT !.sheets[c.sheet] =
                                    CommitFormula(IF c.result = NoText THEN shared ELSE FormulaResult(shared, c.result)),
                                !.dirty = @ \cup {<<c.sheet, c.pos>>}], cxt)
SetArrayFormula(c) ==
    LET sh == doc.sheets[c.sheet]
        placed == IF sh.fill THEN ArrayRange(GetArray(sh), c.range) ELSE Bare!ArrayRange(GetArray(sh), c.range)
        read == ArrayText(placed, TextOf(sh, c.text))
    IN  IF Refused(sh, c.text) THEN Fail("formula parse")
        ELSE Change([doc EXCEPT !.sheets[c.sheet] = CommitArray(ArrayResults(read, c.results)),
                                !.dirty = @ \cup {<<c.sheet, c.range.first>>}], cxt)

AddSegment(c) ==
    Change([doc EXCEPT !.strings = AppendSegment(SetSegment(@, c.fmt), c.text)], cxt)
EndString(c) == Change([doc EXCEPT !.strings = CommitSegments(@)], cxt)

SetPlainCell(c) ==
    LET sh == doc.sheets[c.sheet] IN
    CASE c.kind = "value" -> OnSheet(c.sheet, SetValue(sh, c.pos, c.val))
      [] c.kind = "bool" -> OnSheet(c.sheet, SetBool(sh, c.pos, c.val))
      [] c.kind = "string" /\ c.val < Len(doc.strings.table) -> OnSheet(c.sheet, SetString(sh, c.pos, c.val))
      [] OTHER -> UNCHANGED <<doc, cxt>>

SetLook(c) ==
    LET sh == doc.sheets[c.sheet] IN
    OnSheet(c.sheet, CASE c.what = "cells" -> SetFormat(sh, c.range, c.xf)
                       [] c.what = "row" -> SetRowFormat(sh, c.at, c.xf)
                       [] c.what = "columns" -> SetColumnFormat(sh, c.at, c.span, c.xf)
                       [] c.what = "width" -> SetColumnWidth(sh, c.at, c.span, c.size)
                       [] c.what = "height" -> SetRowHeight(sh, c.at, c.size)
                       [] c.what = "merge" -> SetMergeCellRange(sh, c.range))

Do(c) == \/ c.op = "append" /\ AppendSheet(c)
         \/ c.op = "charset" /\ SetCharacterSet(c)
         \/ c.op = "recalc" /\ SetRecalc(c)
         \/ c.op = "policy" /\ SetErrorPolicy(c)
         \/ c.op = "grammar" /\ SetFormulaGrammar(c)
         \/ c.op = "resolver" /\ GetReferenceResolver(c)
         \/ c.op = "finalize" /\ Finalize(c)
         \/ c.op = "segment" /\ AddSegment(c)
         \/ c.op = "end string" /\ EndString(c)
OnOwnSheet(c) == \/ c.op = "rename" /\ SetSheetName(c)
                 \/ c.op = "select" /\ SetSelectedRange(c)
                 \/ c.op = "pane" /\ SetPane(c)
                 \/ c.op = "activate" /\ SetSheetActive(c)
                 \/ c.op = "cell" /\ SetPlainCell(c)
                 \/ c.op = "formula" /\ SetFormulaCell(c)
                 \/ c.op = "array" /\ SetArrayFormula(c)
                 \/ c.op = "look" /\ SetLook(c)
OnNames(c) == \/ c.op = "base" /\ SetBasePosition(c)
              \/ c.op = "define" /\ Define(c)
              \/ c.op = "commit" /\ CommitName(c)

Next == /\ Len(file) < MaxCalls[cxt.calls] /\ cxt.error = "" /\ ~cxt.done
        /\ \E c \in CallSets[cxt.calls] :
              /\ \/ Do(c)
                 \/ c.op \in {"base", "define", "commit"} /\ c.sheet \in Sheets \cup {Global} /\ OnNames(c)
                 \/ "sheet" \in DOMAIN c /\ c.sheet \in Sheets /\ OnOwnSheet(c)
              /\ file' = Append(file, c)
-----------------------------------------------------------------------------
(* The dumps.  A file is named by its sheet's name up to the last dot; the *)
(* first file that cannot be created ends all.                             *)
FileOf(name) == name[1]
DumpedSheets ==
    LET refused == {i \in Sheets : doc.sheets[i].name \notin UnsafeNames /\ doc.sheets[i].name \in Unwritable}
    IN  {i \in Sheets : doc.sheets[i].name \notin UnsafeNames /\ \A j \in refused : i < j}
Dumped == [f \in {FileOf(doc.sheets[i].name) : i \in DumpedSheets} |->
              CHOOSE i \in DumpedSheets :
                  /\ FileOf(doc.sheets[i].name) = f
                  /\ \A j \in DumpedSheets : FileOf(doc.sheets[j].name) = f => j <= i]

Used(sh) == {p \in Positions : sh.cells[p].kind # "empty"}
RowCount(sh) == IF Used(sh) = {} THEN 0 ELSE Max({p[1] : p \in Used(sh)}) + 1
ColCount(sh) == IF Used(sh) = {} THEN 0 ELSE Max({p[2] : p \in Used(sh)}) + 1
Grid(sh) == (0..RowCount(sh)-1) \X (0..ColCount(sh)-1)
StringAt(sh, p) == doc.strings.table[sh.cells[p].val + 1]

(* A formula as it reads at its cell, or at the first cell of its group.   *)
DumpFormulaExpression(c, p) ==
    [text |-> c.tokens.text,
     moved |-> IF c.kind = "grouped" THEN <<0, 0>>
               ELSE <<p[1] - c.tokens.at[1], p[2] - c.tokens.at[2]>>,
     grouped |-> c.kind = "grouped"]
NoFormula == [text |-> NoText, moved |-> <<0, 0>>, grouped |-> FALSE]
ResultOf(c) == IF c.result = NoText THEN "#RES!" ELSE IF c.result = MissingResult THEN "error" ELSE "value"
Shown(as, formula, val) == [as |-> as, formula |-> formula, val |-> val]
Nothing == Shown("nothing", NoFormula, << >>)

IsFormula(c) == c.kind \in {"formula", "grouped"}
ShownFormula(c, p) ==
    IF c.tokens = NoTokens THEN Nothing
    ELSE Shown(ResultOf(c), DumpFormulaExpression(c, p), c.result)

FlatCell(sh, p) ==
    LET c == sh.cells[p] IN
    CASE c.kind = "string" -> IF StringAt(sh, p).text = NoText THEN Nothing ELSE Shown("string", NoFormula, StringAt(sh, p).text)
      [] c.kind \in {"value", "bool"} -> Shown(c.kind, NoFormula, c.val)
      [] IsFormula(c) -> ShownFormula(c, p)
      [] OTHER -> Nothing

CheckCell(sh, p) ==
    LET c == sh.cells[p] IN
    CASE c.kind = "string" -> Shown("string", NoFormula, StringAt(sh, p).text)
      [] c.kind \in {"value", "bool"} -> Shown(c.kind, NoFormula, c.val)
      [] IsFormula(c) -> IF c.tokens = NoTokens THEN Shown("formula", NoFormula, << >>) ELSE ShownFormula(c, p)
      [] OTHER -> Nothing
(* The merged ranges by their first row, then by their first column.       *)
MergedCellInfo(sh) ==
    SetToSortSeq(sh.merged, LAMBDA m, n : \/ m.first[1] < n.first[1]
                                          \/ m.first[1] = n.first[1] /\ m.first[2] < n.first[2])

JsonCell(sh, p) ==
    LET c == sh.cells[p] IN
    CASE c.kind = "string" -> Shown("string", NoFormula, StringAt(sh, p).text)
      [] c.kind \in {"value", "bool"} -> Shown(c.kind, NoFormula, c.val)
      [] IsFormula(c) -> Shown(ResultOf(c), NoFormula, c.result)
      [] OTHER -> Shown("null", NoFormula, << >>)

(* HTML: a text with formats is written piece by piece.                    *)
FormattedPieces(text, runs) ==
    LET Piece(from, n, fmt) == IF n > 0 THEN <<[text |-> SubSeq(text, from + 1, from + n), fmt |-> fmt]>> ELSE << >>
        Run(a, r) == LET from == IF a.pos < r.pos THEN r.pos ELSE a.pos
                     IN  [pos |-> from + r.size,
                          out |-> a.out \o Piece(a.pos, r.pos - a.pos, {}) \o Piece(from, r.size, r.fmt)]
        all == FoldLeft(Run, [pos |-> 0, out |-> << >>], runs)
    IN  all.out \o Piece(all.pos, Len(text) - all.pos, {})

(* The merged range that a cell of a row is in, if any: the rest of them   *)
(* in that row is passed over.                                             *)
Covers(sh, p) == {m \in sh.merged : InRectangle(p, m)}
GetMergeSize(sh, p) == {m \in sh.merged : m.first = p}
GetCellFormat(sh, p) == IF sh.xf[p] # 0 THEN sh.xf[p]
                        ELSE IF sh.rows[p[1]].xf # 0 THEN sh.rows[p[1]].xf ELSE sh.cols[p[2]].xf
HtmlContent(sh, p) ==
    LET c == sh.cells[p] IN
    CASE c.kind = "string" -> Shown("string", NoFormula, FormattedPieces(StringAt(sh, p).text, StringAt(sh, p).runs))
      [] c.kind \in {"value", "bool"} -> Shown(c.kind, NoFormula, c.val)
      [] IsFormula(c) -> ShownFormula(c, p)
      [] OTHER -> Shown("empty", NoFormula, << >>)
SpanOf(m) == <<m.last[1] - m.first[1] + 1, m.last[2] - m.first[2] + 1>>
HtmlCell(sh, p) ==
    LET own == GetMergeSize(sh, p) IN
    [at |-> p, span |-> IF own = {} THEN <<1, 1>> ELSE SpanOf(CHOOSE m \in own : TRUE),
     xf |-> GetCellFormat(sh, p), width |-> IF p[1] = 0 THEN sh.cols[p[2]].size ELSE 0,
     content |-> HtmlContent(sh, p)]
HtmlRow(sh, r) ==
    LET Column(a, c) ==
            LET p == <<r, c>> IN
            IF c < a.next THEN a
            ELSE IF Covers(sh, p) # {} /\ GetMergeSize(sh, p) = {}
                 THEN [a EXCEPT !.next = (CHOOSE m \in Covers(sh, p) : TRUE).last[2] + 1]
                 ELSE [a EXCEPT !.cells = @ \cup {HtmlCell(sh, p)}]
    IN  FoldLeft(Column, [next |-> 0, cells |-> {}], [c \in 1..ColCount(sh) |-> c - 1]).cells
HtmlCells(sh) == UNION {HtmlRow(sh, r) : r \in 0..RowCount(sh)-1}

(* The debug state of a sheet: the widths, the heights and the formats, a  *)
(* line for each run of equal ones, whose last index is in it.             *)
Segments(f) ==
    LET n == Cardinality(DOMAIN f)
        starts == SetToSortSeq({i \in DOMAIN f : IF i = 0 THEN TRUE ELSE f[i] # f[i-1]}, <)
    IN  [k \in DOMAIN starts |->
            [start |-> starts[k], value |-> f[starts[k]],
             last |-> (IF k = Len(starts) THEN n ELSE starts[k+1]) - 1]]
ColumnWidths(sh) == Segments([c \in 0..NumCols-1 |-> sh.cols[c].size])
RowHeights(sh) == Segments([r \in 0..NumRows-1 |-> sh.rows[r].size])
ColumnFormats(sh) == Segments([c \in 0..NumCols-1 |-> sh.cols[c].xf])
RowFormats(sh) == Segments([r \in 0..NumRows-1 |-> sh.rows[r].xf])
(* The formats of the columns that have any, in their order.               *)
CellFormats(sh) ==
    LET used == SetToSortSeq({c \in 0..NumCols-1 : \E r \in 0..NumRows-1 : sh.xf[<<r, c>>] # 0}, <)
    IN  [k \in DOMAIN used |-> [column |-> used[k], rows |-> Segments([r \in 0..NumRows-1 |-> sh.xf[<<r, used[k]>>]])]]
-----------------------------------------------------------------------------
(* Every cell is shown alike in all dumps: the text file and the lines     *)
(* have the formula as it reads there and its result, JSON has the result, *)
(* and HTML has each cell that no other one covers; its cells cover the    *)
(* table, each place once, when no two merged ranges overlap.              *)
TextOfPieces(pieces) == FoldLeft(LAMBDA a, x : a \o x.text, << >>, pieces)
CellIsShownAlike(sh, p, html) ==
    LET check == CheckCell(sh, p)
        flat == FlatCell(sh, p)
        json == JsonCell(sh, p)
    IN  /\ check.as = "nothing" <=> json.as = "null"
        /\ check # flat => flat = Nothing /\ check.val = << >>
        /\ check.as \notin {"nothing", "formula"} => json = [check EXCEPT !.formula = NoFormula]
        /\ \A h \in html : h.at = p =>
              IF h.content.as = "string" THEN TextOfPieces(h.content.val) = check.val
              ELSE h.content.as # "empty" => h.content = flat
MergedApart(sh) == \A m, n \in sh.merged : m # n => \A p \in Positions : ~(InRectangle(p, m) /\ InRectangle(p, n))
CellsAreShownAlike ==
    \A i \in Sheets : LET sh == doc.sheets[i]
                          html == HtmlCells(sh)
                          info == MergedCellInfo(sh) IN
        /\ \A p \in Grid(sh) : CellIsShownAlike(sh, p, html)
        /\ \A k \in DOMAIN info : \A h \in html : h.at = info[k].first => h.span = SpanOf(info[k])
        /\ MergedApart(sh) => \A p \in Grid(sh) :
              Cardinality({h \in html : /\ h.at[1] <= p[1] /\ p[1] < h.at[1] + h.span[1]
                                        /\ h.at[2] <= p[2] /\ p[2] < h.at[2] + h.span[2]}) = 1

(* A sheet that is written by its columns, rows and formats is the same    *)
(* when the lines are read again.                                          *)
ReadAgain(segments, i) ==
    segments[CHOOSE k \in DOMAIN segments : segments[k].start <= i /\ i <= segments[k].last].value
DebugStateIsReadAgain ==
    \A i \in Sheets : LET sh == doc.sheets[i] IN
        /\ \A c \in 0..NumCols-1 : /\ ReadAgain(ColumnWidths(sh), c) = sh.cols[c].size
                                  /\ ReadAgain(ColumnFormats(sh), c) = sh.cols[c].xf
        /\ \A r \in 0..NumRows-1 : /\ ReadAgain(RowHeights(sh), r) = sh.rows[r].size
                                  /\ ReadAgain(RowFormats(sh), r) = sh.rows[r].xf
        /\ \A k \in DOMAIN CellFormats(sh) : \A r \in 0..NumRows-1 :
              ReadAgain(CellFormats(sh)[k].rows, r) = sh.xf[<<r, CellFormats(sh)[k].column>>]

(* A formula reads at its cell what was written for it, or for the first   *)
(* cell that shares it, moved by as much.  After an import it has its own  *)
(* result, one that says it is missing, or a calculated one, unless        *)
(* calculation was asked for only while sheets were added.                 *)
CallsOf(op) == {k \in DOMAIN file : file[k].op = op}
RecalcIsKept == \A k, n \in CallsOf("recalc") : k < n /\ file[k].recalc => file[n].recalc
ReadsAs(c, p, call) ==
    LET shown == DumpFormulaExpression(c, p) IN
    /\ shown.text \in {call.text, ErrorText}
    /\ IF call.op = "array" THEN InRectangle(p, call.range) /\ shown.moved = <<0, 0>>
       ELSE shown.moved = <<p[1] - call.pos[1], p[2] - call.pos[2]>>
FormulasHaveResults ==
    \A i \in Sheets : \A p \in Positions :
        LET c == doc.sheets[i].cells[p] IN
        /\ IsFormula(c) /\ c.tokens # NoTokens =>
               \E k \in CallsOf(IF c.kind = "grouped" THEN "array" ELSE "formula") : ReadsAs(c, p, file[k])
        /\ IsFormula(c) /\ cxt.done /\ RecalcIsKept =>
               c.result # NoText /\ (cxt.recalc => c.result = Calculated)

(* The sheets of the model context are those of the document, each found   *)
(* by its name, also after a name is refused.  The sheet that is appended  *)
(* with such a name stays in the document alone, as its last: one more     *)
(* than the model context has (document.cpp:128), and never found.  Until  *)
(* then each is in a file of its own, unless names differ behind their     *)
(* last dot.                                                               *)
NamesHaveNoDots == \A i \in Sheets : doc.sheets[i].name[2] = ""
AppendRefused == cxt.error = "sheet name" /\ Last(file).op = "append"
SheetsAreOwn ==
    /\ Len(doc.sheets) = Len(doc.known) + (IF AppendRefused THEN 1 ELSE 0)
    /\ \A i \in DOMAIN doc.known : doc.known[i] = doc.sheets[i].name /\ GetSheetIndex(doc.known[i]) = i
    /\ \A i \in Sheets : doc.sheets[i].charset = cxt.charset
    /\ (cxt.error # "sheet name" /\ NamesHaveNoDots) => {Dumped[f] : f \in DOMAIN Dumped} = DumpedSheets
    /\ \A i \in Sheets : \A k \in CallsOf("select") :
           /\ file[k].sheet = i /\ file[k].pane \in Panes
           /\ \A n \in CallsOf("select") : n > k => <<file[n].sheet, file[n].pane>> # <<i, file[k].pane>>
           => doc.sheets[i].view.selection[file[k].pane] = file[k].range

(* A named expression is the text of its definition, read by the grammar   *)
(* of that time and at the base that was set for it.  With no base the     *)
(* first name of a sheet is at the first cell of that sheet, which is what *)
(* the constructor sets (factory_sheet.cpp:24), and all after it are at    *)
(* the first cell of the document, where commit resets the base to.  The   *)
(* interface promises the latter for all names: "the implementor should    *)
(* use the top-left corner cell on the first sheet as its origin"          *)
(* (import_interface.hpp:310).                                             *)
Latest(ks) == IF ks = {} THEN 0 ELSE Max(ks)
OwnCalls(op, i, from, to) == {k \in CallsOf(op) : file[k].sheet = i /\ from < k /\ k < to}
BaseFor(i, from, to) ==
    LET k == Latest(OwnCalls("base", i, from, to)) IN
    IF k > 0 THEN file[k].base ELSE IF from = 0 /\ i # Global THEN <<i, 0, 0>> ELSE <<1, 0, 0>>
GrammarAt(k) == LET n == Latest({g \in CallsOf("grammar") : g < k}) IN IF n = 0 THEN "xlsx" ELSE file[n].grammar
NamesAreOfTheirTexts ==
    \A i \in {Global} \cup Sheets : \A k \in OwnCalls("commit", i, 0, Len(file) + 1) :
        LET previous == Latest(OwnCalls("commit", i, 0, k))
            d == Latest(OwnCalls("define", i, previous, k))
            names == IF i = Global THEN doc.names ELSE doc.sheets[i].names
            replaced == \E n \in OwnCalls("commit", i, k, Len(file) + 1) :
                            LET again == Latest(OwnCalls("define", i, k, n)) IN
                            again > 0 /\ file[again].name = file[d].name
        IN  d > 0 /\ ~replaced =>
                names[file[d].name] = [base |-> BaseFor(i, previous, k),
                                       tokens |-> Tokens(file[d].text, BaseFor(i, previous, d)),
                                       by |-> ResolversOf(GrammarAt(d))[file[d].context]]
=============================================================================
