---------------------------- MODULE XlsXmlSheet ----------------------------
(***************************************************************************)
(* The import of a worksheet of an Excel 2003 XML file: xls_xml_context,   *)
(* its data context for the content of a cell, and the formulas that wait  *)
(* until the workbook ends.  A cell says its column only when it does not  *)
(* follow the one before it, and a row its number.                         *)
(***************************************************************************)
EXTENDS ImportSheet, FiniteSetsExt, SequencesExt

CONSTANTS TableAttrs,    \* attributes of a Table: records [top, left], 0 for none
          ColumnAttrs,   \* ... of a Column: records [index, span, width, hidden, style]
          LineAttrs,     \* ... of a Row: records [index, height, hidden, style, broken]
          XlsCellAttrs,  \* ... of a Cell: records [index, formula, array, across, down, style, foreign]
          StyleIds,      \* the styles of the workbook; others are unknown
          Marks, Fonts,  \* the elements of a formatted text: B, I, ...; Font
          Bold, Italic, NotBold, NotItalic,
          MaxXlsSize     \* bound on the elements and texts of a file

VARIABLES sheet,    \* the import_sheet
          strings,  \* the import_shared_strings
          cxt,      \* members of the two contexts
          file      \* the elements read so far: what the file says

vars == <<sheet, strings, cxt, file>>

NoStyle == 0
NoArray == <<-1, -1>>

Init == /\ sheet = NewSheet /\ strings = NewStrings
        /\ cxt = [phase |-> "sheet", tablecol |-> 0, row |-> 0, col |-> 0, propcol |-> 0,
                  style |-> NoStyle, across |-> 0, down |-> 0, array |-> NoArray,
                  formula |-> NoText, type |-> "unknown", segments |-> << >>, value |-> NoNumber,
                  open |-> << >>, formulas |-> << >>, arrays |-> << >>]
        /\ file = << >>

Here == <<cxt.row, cxt.col>>
Entries(e) == {i \in DOMAIN file : file[i].e = e}
Says(entry) == file' = Append(file, entry)
Now == file[Len(file)]
OfNow(field, v) == file' = [file EXCEPT ![Len(file)][field] = v]

One(b) == IF b THEN 1 ELSE 0
SizeOf(x) == IF x.e # "cell" THEN 1 + One(x.e = "column") ELSE 1 + One(x.type # "none") + Len(x.texts) + x.marks
MoreToCome == MapThenSumSet(LAMBDA i : SizeOf(file[i]), DOMAIN file) < MaxXlsSize
-----------------------------------------------------------------------------
(* start_element_table(): TopCell gives the column, LeftCell the row.      *)
StartTable(a) ==
    /\ cxt.phase = "sheet"
    /\ LET r == IF a.left > 0 THEN a.left - 1 ELSE 0
           c == IF a.top > 0 THEN a.top - 1 ELSE 0
       IN  cxt' = [cxt EXCEPT !.phase = "columns", !.tablecol = c, !.row = r, !.propcol = c]
    /\ Says([e |-> "table", attrs |-> a])
    /\ UNCHANGED <<sheet, strings>>

(* start_element_column(): the properties are for span more columns.       *)
StartColumn(a) ==
    /\ cxt.phase = "columns" /\ MoreToCome
    /\ LET c == IF a.index > 0 THEN cxt.tablecol + a.index - 1 ELSE cxt.propcol
           sized == SetColumnHidden(SetColumnWidth(sheet, c, a.span + 1, a.width), c, a.span + 1, a.hidden)
       IN  /\ sheet' = IF a.style \in StyleIds THEN SetColumnFormat(sized, c, a.span + 1, a.style)
                       ELSE sized
           /\ cxt' = [cxt EXCEPT !.propcol = c + a.span + 1]
    /\ Says([e |-> "column", attrs |-> a])
    /\ UNCHANGED strings

(* start_element_row(): an attribute without a value ends it early.        *)
StartRow(a) ==
    /\ cxt.phase \in {"columns", "table"} /\ MoreToCome
    /\ LET row == IF a.index > 0 /\ ~a.broken THEN a.index - 1 ELSE cxt.row
           styled == IF a.style \in StyleIds THEN SetRowFormat(sheet, row, a.style) ELSE sheet
           sized == IF a.height > 0 THEN SetRowHeight(styled, row, a.height) ELSE styled
       IN  /\ row < NumRows
           /\ cxt' = [cxt EXCEPT !.phase = "row", !.row = row, !.col = cxt.tablecol]
           /\ sheet' = IF a.broken THEN sheet
                       ELSE IF a.hidden THEN SetRowHidden(sized, row, TRUE) ELSE sized
    /\ Says([e |-> "row", attrs |-> a])
    /\ UNCHANGED strings

EndRow == /\ cxt.phase = "row"
          /\ cxt' = [cxt EXCEPT !.phase = "table", !.row = @ + 1]
          /\ UNCHANGED <<sheet, strings, file>>

(* start_element_cell(): an attribute of another namespace ends it before  *)
(* the formula and the index are taken over.                               *)
FormulaPiece == 10 * (Len(file) + 1)
StartCell(a) ==
    /\ cxt.phase = "row" /\ MoreToCome
    /\ LET col == IF a.index > 0 /\ ~a.foreign THEN cxt.tablecol + a.index - 1 ELSE cxt.col IN
       /\ col < NumCols
       /\ cxt' = [cxt EXCEPT !.phase = "cell", !.style = a.style, !.across = a.across,
                             !.down = a.down, !.array = a.array, !.col = col,
                             !.formula = IF a.formula /\ ~a.foreign THEN <<FormulaPiece>> ELSE @]
    /\ Says([e |-> "cell", attrs |-> a, type |-> "none", texts |-> << >>, marks |-> 0])
    /\ UNCHANGED <<sheet, strings>>

(* end_element_cell(): a formula that no Data element took is stored.      *)
EndCell ==
    /\ cxt.phase = "cell"
    /\ LET range == Rectangle(Here, <<cxt.row + cxt.down, cxt.col + cxt.across>>)
           merged == IF cxt.across > 0 \/ cxt.down > 0 THEN SetMergeCellRange(sheet, range) ELSE sheet
           entry == [pos |-> Here, text |-> cxt.formula, result |-> NoText]
       IN  /\ sheet' = IF cxt.style \in StyleIds THEN SetFormat(merged, Rectangle(Here, Here), cxt.style)
                       ELSE merged
           /\ cxt' = [cxt EXCEPT !.phase = "row", !.formula = NoText, !.col = @ + 1 + cxt.across,
                                 !.formulas = IF cxt.formula = NoText THEN @ ELSE Append(@, entry)]
    /\ UNCHANGED <<strings, file>>
-----------------------------------------------------------------------------
(* The data context: reset(), then start_element_data()                    *)
StartData(t) ==
    /\ cxt.phase = "cell" /\ MoreToCome /\ Now.type = "none"
    /\ cxt' = [cxt EXCEPT !.phase = "data", !.type = t, !.segments = << >>, !.value = NoNumber,
                          !.open = << >>]
    /\ OfNow("type", t)
    /\ UNCHANGED <<sheet, strings>>

(* An element of formatted text; between two others there is a Font.       *)
StartMark(f) ==
    /\ cxt.phase = "data" /\ MoreToCome
    /\ cxt.open # << >> => ({f, cxt.open[Len(cxt.open)]} \cap Fonts # {}
                            /\ {f, cxt.open[Len(cxt.open)]} \cap Marks # {})
    /\ cxt' = [cxt EXCEPT !.open = Append(@, f)]
    /\ OfNow("marks", Now.marks + 1)
    /\ UNCHANGED <<sheet, strings>>
EndMark == /\ cxt.phase = "data" /\ cxt.open # << >>
           /\ cxt' = [cxt EXCEPT !.open = Front(@)]
           /\ UNCHANGED <<sheet, strings, file>>

(* characters(): update_current_format() merged what is open.              *)
Characters ==
    /\ cxt.phase = "data" /\ MoreToCome
    /\ LET piece == 10 * Len(file) + 1 + Len(Now.texts)
           segment == [text |-> <<piece>>, fmt |-> Range(cxt.open)]
       IN  /\ cxt' = CASE cxt.type = "string" -> [cxt EXCEPT !.segments = Append(@, segment)]
                       [] cxt.type \in {"number", "datetime"} -> [cxt EXCEPT !.value = <<piece>>]
                       [] OTHER -> cxt
           /\ OfNow("texts", Append(Now.texts, segment))
    /\ UNCHANGED <<sheet, strings>>

(* store_array_formula_parent_cell() and push_formula_cell()               *)
ArrayRef == Rectangle(Here, <<cxt.row + cxt.array[1], cxt.col + cxt.array[2]>>)
IsArrayFormula == cxt.array[1] >= 0 /\ cxt.array[2] >= 0
NumberResult(default) == IF cxt.type = "number" THEN cxt.value ELSE default
StoreFormula(c) ==
    LET ref == ClampRange(ArrayRef)
        array == [ref |-> ref, text |-> c.formula,
                  results |-> [ResultsOf(ref, NoText) EXCEPT ![<<0, 0>>] = NumberResult(NoText)]]
        plain == [pos |-> Here, text |-> c.formula, result |-> NumberResult(NoText)]
    IN  IF IsArrayFormula THEN [c EXCEPT !.arrays = Append(@, array)]
        ELSE [c EXCEPT !.formulas = Append(@, plain)]

(* handle_array_formula_result(): the arrays above the current row that    *)
(* come before the first one the cell is in go to the document.            *)
Covering == {i \in DOMAIN cxt.arrays : InRectangle(Here, cxt.arrays[i].ref)}
LastCovering == CHOOSE i \in Covering : \A j \in Covering : j <= i
FirstCovering == CHOOSE i \in Covering : \A j \in Covering : i <= j
Above(i) == cxt.arrays[i].ref.last[1] < cxt.row /\ (Covering # {} => i < FirstCovering)
PushArrays(sh, arrays) ==
    FoldLeft(LAMBDA s, a : PushArrayFormula(s, a.ref, a.text, a.results), sh, arrays)
ArraysThat(test(_)) ==
    FoldLeft(LAMBDA s, i : IF test(i) THEN Append(s, cxt.arrays[i]) ELSE s, << >>,
             [i \in DOMAIN cxt.arrays |-> i])
AboveHere == ArraysThat(Above)
NotAbove(i) == ~Above(i)
WithResult(arrays) ==
    LET k == FirstCovering - Len(AboveHere) IN
    [arrays EXCEPT ![k].results[Offset(Here, arrays[k].ref)] = NumberResult(@)]

(* The string of a cell: without format it is appended; otherwise each of  *)
(* its segments says whether it is bold and italic.                        *)
Explicit(fmt) == fmt \cup (IF Bold \in fmt THEN {} ELSE {NotBold})
                     \cup (IF Italic \in fmt THEN {} ELSE {NotItalic})
PlainString == Len(cxt.segments) = 1 /\ cxt.segments[1].fmt = {}
StoreString(ss) ==
    IF PlainString THEN AppendString(ss, cxt.segments[1].text)
    ELSE CommitSegments(FoldLeft(LAMBDA s, seg : AppendSegment(SetSegment(s, Explicit(seg.fmt)), seg.text),
                                 ss, cxt.segments))

(* end_element_data()                                                      *)
DataEnds(c) == [c EXCEPT !.phase = "cell", !.type = "unknown"]
EndDataOfFormula ==
    /\ cxt.phase = "data" /\ cxt.open = << >> /\ cxt.formula # NoText
    /\ cxt' = [DataEnds(StoreFormula(cxt)) EXCEPT !.formula = NoText]
    /\ UNCHANGED <<sheet, strings, file>>

EndDataOfArray ==
    /\ cxt.phase = "data" /\ cxt.open = << >> /\ cxt.formula = NoText /\ Covering # {}
    /\ sheet' = IF AboveHere = << >> THEN sheet ELSE PushArrays(GetArray(sheet), AboveHere)
    /\ cxt' = DataEnds([cxt EXCEPT !.arrays = WithResult(ArraysThat(NotAbove))])
    /\ UNCHANGED <<strings, file>>

EndDataOfValue ==
    /\ cxt.phase = "data" /\ cxt.open = << >> /\ cxt.formula = NoText /\ Covering = {}
    /\ LET sh == IF AboveHere = << >> THEN sheet ELSE PushArrays(GetArray(sheet), AboveHere) IN
       \/ /\ cxt.type \in {"number", "datetime"}
          /\ sheet' = SetValue(sh, Here, cxt.value) /\ strings' = strings
       \/ /\ cxt.type = "string" /\ cxt.segments # << >>
          /\ strings' = StoreString(strings)
          /\ sheet' = SetString(sh, Here, <<Len(strings'.table)>>)
       \/ /\ cxt.type = "unknown" \/ (cxt.type = "string" /\ cxt.segments = << >>)
          /\ sheet' = sh /\ strings' = strings
    /\ cxt' = [DataEnds(cxt) EXCEPT !.arrays = ArraysThat(NotAbove), !.segments = << >>]
    /\ UNCHANGED file
-----------------------------------------------------------------------------
(* end_element_table(), and end_element_workbook(): one get_formula() for  *)
(* all formulas of a sheet.                                                *)
EndTable ==
    /\ cxt.phase = "table"
    /\ sheet' = PushArrays(GetArray(sheet), cxt.arrays)
    /\ cxt' = [cxt EXCEPT !.phase = "worksheet", !.arrays = << >>, !.tablecol = 0, !.row = 0,
                          !.propcol = 0]
    /\ UNCHANGED <<strings, file>>

EndWorkbook == /\ cxt.phase = "worksheet"
               /\ sheet' = GetFormula(sheet)
               /\ cxt' = [cxt EXCEPT !.phase = "push"]
               /\ UNCHANGED <<strings, file>>

PushFormula ==
    /\ cxt.phase = "push" /\ cxt.formulas # << >>
    /\ LET f == Head(cxt.formulas)
           given == FormulaText(FormulaPosition(sheet, f.pos), f.text)
       IN  sheet' = CommitFormula(IF f.result = NoText THEN given ELSE FormulaResult(given, f.result))
    /\ cxt' = [cxt EXCEPT !.formulas = Tail(@)]
    /\ UNCHANGED <<strings, file>>

Pushed == /\ cxt.phase = "push" /\ cxt.formulas = << >>
          /\ cxt' = [cxt EXCEPT !.phase = "done"]
          /\ UNCHANGED <<sheet, strings, file>>

Next == \/ \E a \in TableAttrs : StartTable(a)
        \/ \E a \in ColumnAttrs : StartColumn(a)
        \/ \E a \in LineAttrs : StartRow(a)
        \/ \E a \in XlsCellAttrs : StartCell(a)
        \/ \E t \in {"number", "string", "datetime", "unknown"} : StartData(t)
        \/ \E f \in Marks \cup Fonts : StartMark(f)
        \/ EndMark \/ Characters
        \/ EndDataOfFormula \/ EndDataOfArray \/ EndDataOfValue
        \/ EndCell \/ EndRow \/ EndTable \/ EndWorkbook \/ PushFormula \/ Pushed

Ended == cxt.phase = "done"
-----------------------------------------------------------------------------
(* What the file says: where each of its elements is.                      *)
TableOf == file[1].attrs
FirstRow == IF TableOf.left > 0 THEN TableOf.left - 1 ELSE 0
FirstColumn == IF TableOf.top > 0 THEN TableOf.top - 1 ELSE 0
RowNumber[i \in 1..Len(file)] ==
    IF i = 1 THEN FirstRow - 1
    ELSE IF file[i].e # "row" THEN RowNumber[i-1]
    ELSE IF file[i].attrs.index > 0 /\ ~file[i].attrs.broken THEN file[i].attrs.index - 1
    ELSE RowNumber[i-1] + 1
ColumnNumber[i \in 1..Len(file)] ==     \* the last column of the cell and those merged with it
    IF i = 1 \/ file[i].e # "cell" THEN FirstColumn - 1
    ELSE IF file[i].attrs.index > 0 /\ ~file[i].attrs.foreign
    THEN FirstColumn + file[i].attrs.index - 1 + file[i].attrs.across
    ELSE ColumnNumber[i-1] + 1 + file[i].attrs.across
PlaceOf(i) == <<RowNumber[i], ColumnNumber[i] - file[i].attrs.across>>
CellsAt(p) == {i \in Entries("cell") : PlaceOf(i) = p}

LastText(i) == IF file[i].texts = << >> THEN NoNumber ELSE file[i].texts[Len(file[i].texts)].text
WholeText(i) == FlattenSeq([k \in DOMAIN file[i].texts |-> file[i].texts[k].text])

(* At any time a value is the last text of a cell element at its own       *)
(* place, a string has all the text of one there, and a result in the      *)
(* range of an array formula is that of a number there.  (Which of the     *)
(* elements, when it is all done: see below.)                              *)
XlsXmlValuesAreOwn ==
    \A p \in Positions :
        LET c == sheet.cells[p] IN
        /\ c.kind = "value" => \E i \in CellsAt(p) : c.val = LastText(i)
        /\ c.kind = "string" => \E i \in CellsAt(p) : strings.table[c.val[1]].text = WholeText(i)
        /\ c.kind = "grouped" => c.result \in {MissingResult, NoText} \cup {LastText(i) : i \in CellsAt(p)}

(* What the elements at a place are: array formulas have a Data element,   *)
(* and an attribute of another namespace hides a formula.                  *)
Latest(S) == CHOOSE i \in S : \A j \in S : j <= i
HasFormula(i) == file[i].attrs.formula /\ ~file[i].attrs.foreign
IsArray(i) == HasFormula(i) /\ file[i].attrs.array # NoArray /\ file[i].type # "none"
RangeOf(i) == Rectangle(PlaceOf(i), <<PlaceOf(i)[1] + file[i].attrs.array[1],
                                      PlaceOf(i)[2] + file[i].attrs.array[2]>>)
Over(p) == {i \in Entries("cell") : IsArray(i) /\ InRectangle(p, RangeOf(i))}
Formulas == {i \in Entries("cell") : HasFormula(i) /\ ~IsArray(i)}
ExpressionOf(i) == Tokens(<<10 * i>>, PlaceOf(i))

(* The cached result of a formula is its own number.  One that has none    *)
(* keeps that of the last formula before it that had one, anywhere in the  *)
(* sheet: they are all set with one object.                                *)
NoResult == IF FillMissing THEN MissingResult ELSE NoText
ResultOf(i) == LET numbers == {j \in Formulas : j <= i /\ file[j].type = "number"}
               IN  IF numbers = {} THEN NoResult ELSE LastText(Latest(numbers))
GroupedResult(a, p) ==
    LET numbers == {i \in CellsAt(p) : /\ file[i].type = "number"
                                       /\ i = a \/ (i > a /\ ~HasFormula(i))}
    IN  IF numbers = {} THEN NoResult ELSE LastText(Latest(numbers))

(* Rows come in order, and no two array formulas share a place.            *)
InOrder == /\ \A i, j \in Entries("row") : i < j => RowNumber[i] <= RowNumber[j]
           /\ \A p \in Positions : Cardinality(Over(p)) <= 1

(* When the import ends the last formula at a place is there with its own  *)
(* expression, where there is none the array formula around it, and where  *)
(* there is neither the last value.                                        *)
FormulasAt(p) == CellsAt(p) \cap Formulas
XlsXmlFormulasArrive ==
    (cxt.phase = "done" /\ InOrder) => \A p \in Positions :
        LET c == sheet.cells[p] IN
        c.tokens = IF FormulasAt(p) # {} THEN ExpressionOf(Latest(FormulasAt(p)))
                   ELSE IF Over(p) # {} THEN ExpressionOf(Latest(Over(p)))
                   ELSE NoTokens

(* And its cached result, number or text is that of the one element that   *)
(* gives it, however the cells before it were merged, skipped or in the    *)
(* range of another array formula.                                         *)
ValuesAt(p) == {i \in CellsAt(p) : /\ ~HasFormula(i)
                                   /\ \/ file[i].type \in {"number", "datetime"}
                                      \/ file[i].type = "string" /\ file[i].texts # << >>}
XlsXmlResultsArrive ==
    (cxt.phase = "done" /\ InOrder) => \A p \in Positions :
        LET c == sheet.cells[p] IN
        IF FormulasAt(p) # {}
        THEN c.kind = "formula" /\ c.result = ResultOf(Latest(FormulasAt(p)))
        ELSE IF Over(p) # {}
        THEN c.kind = "grouped" /\ c.result = GroupedResult(Latest(Over(p)), p)
        ELSE IF ValuesAt(p) = {} THEN c = EmptyCell
        ELSE LET i == Latest(ValuesAt(p)) IN
             IF file[i].type = "string"
             THEN c.kind = "string" /\ strings.table[c.val[1]].text = WholeText(i)
             ELSE c.kind = "value" /\ c.val = LastText(i)

(* Each stretch of a stored string has the properties of the elements that *)
(* were open around it and no other, and says that it is not bold or not   *)
(* italic when none of them is; nothing waits for the next string.         *)
Formatted(i) == Len(file[i].texts) > 1 \/ \E k \in DOMAIN file[i].texts : file[i].texts[k].fmt # {}
XlsXmlFormatsAreOwn ==
    /\ strings.fmt = {} /\ strings.text = NoText
    /\ \A p \in Positions :
          (sheet.cells[p].kind = "string" /\ Cardinality(CellsAt(p)) = 1) =>
            \A i \in CellsAt(p) :
                LET runs == strings.table[sheet.cells[p].val[1]].runs IN
                runs = IF ~Formatted(i) THEN << >>
                       ELSE [k \in DOMAIN file[i].texts |->
                                [pos |-> k - 1, size |-> 1, fmt |-> Explicit(file[i].texts[k].fmt)]]

(* Each column has the width of the last Column element it is counted in,  *)
(* with the spans and the indices of the elements before it.               *)
FirstOf[i \in 1..Len(file)] ==
    IF file[i].e # "column" THEN FirstColumn
    ELSE IF file[i].attrs.index > 0 THEN FirstColumn + file[i].attrs.index - 1
    ELSE IF file[i-1].e = "column" THEN FirstOf[i-1] + file[i-1].attrs.span + 1 ELSE FirstColumn
XlsXmlColumnsAreCounted ==
    \A c \in 0..NumCols-1 :
        LET over == {i \in Entries("column") : FirstOf[i] <= c /\ c <= FirstOf[i] + file[i].attrs.span}
        IN  sheet.cols[c].size = IF over = {} THEN 0 ELSE file[Latest(over)].attrs.width
=============================================================================
