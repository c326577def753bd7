------------------------------ MODULE OdsSheet ------------------------------
(***************************************************************************)
(* The import of the content of an ODS file: ods_content_xml_context and   *)
(* its paragraph context.  No cell says where it is: positions are counted *)
(* from what came before, repetitions included.  Formulas and names wait   *)
(* in the session until all tables are read.  A table is an import_sheet.  *)
(***************************************************************************)
EXTENDS ImportSheet, FiniteSetsExt, SequencesExt

CONSTANTS OdsColumns,     \* table-column elements: records [repeated, width, style]
          OdsRows,        \* table-row elements: records [repeated, height]
          OdsCells,       \* table-cell elements: records [style, repeated, formula, type]
          AutoStyles,     \* cell styles of content.xml, with a format each
          NamedStyles,    \* cell styles of styles.xml
          SpanFonts,      \* for each style of a span, the properties of its font
          NewLine,        \* the character between two paragraphs
          MaxTables,      \* bound on the tables of a file
          MaxOdsSize      \* bound on the elements and texts of a file

VARIABLES sheet,    \* the import_sheets, by table
          strings,  \* the import_shared_strings
          cxt,      \* members of the contexts and of ods_session_data
          file      \* the elements read so far: what the file says

vars == <<sheet, strings, cxt, file>>

NoOdsStyle == 0
Global == 0

Init == /\ sheet = << >> /\ strings = NewStrings
        /\ cxt = [phase |-> "book", row |-> 0, col |-> 0, cell |-> << >>, rows |-> 1,
                  paras |-> << >>, para |-> << >>, frags |-> << >>, spans |-> << >>,
                  formats |-> [s \in AutoStyles |-> s], xfs |-> Cardinality(AutoStyles),
                  formulas |-> << >>, names |-> << >>, defined |-> << >>]
        /\ file = << >>

Cur == Len(sheet)
Entries(e) == {i \in DOMAIN file : file[i].e = e}
Says(entry) == file' = Append(file, entry)
Now == file[Len(file)]
SizeOf(x) == IF x.e = "cell" THEN 1 + Len(x.texts) + x.spans + x.paras ELSE 1
MoreToCome == MapThenSumSet(LAMBDA i : SizeOf(file[i]), DOMAIN file) < MaxOdsSize
-----------------------------------------------------------------------------
StartTable ==
    /\ cxt.phase = "book" /\ MoreToCome /\ Cur < MaxTables
    /\ sheet' = Append(sheet, NewSheet)
    /\ cxt' = [cxt EXCEPT !.phase = "columns", !.row = 0, !.col = 0]
    /\ Says([e |-> "table"])
    /\ UNCHANGED strings
EndTable == /\ cxt.phase \in {"columns", "table"}
            /\ cxt' = [cxt EXCEPT !.phase = "book"]
            /\ UNCHANGED <<sheet, strings, file>>

(* A name outside of the tables is for all of them.                        *)
NamedExpression ==
    /\ cxt.phase \in {"book", "columns", "table"} /\ MoreToCome
    /\ LET scope == IF cxt.phase = "book" THEN Global ELSE Cur IN
       /\ cxt' = [cxt EXCEPT !.names = Append(@, [id |-> Len(file) + 1, scope |-> scope])]
       /\ Says([e |-> "name", inside |-> cxt.phase # "book"])
    /\ UNCHANGED <<sheet, strings>>

(* push_named_cell_style(): the first use of a named style makes a format. *)
Known(c, s) == IF s \in DOMAIN c.formats \/ s \notin NamedStyles THEN c
               ELSE [c EXCEPT !.xfs = @ + 1, !.formats = (s :> c.xfs + 1) @@ @]

(* start_column() and end_column()                                         *)
Column(a) ==
    /\ cxt.phase = "columns" /\ MoreToCome
    /\ LET c == Known(cxt, a.style)
           sized == IF a.width = 0 THEN sheet[Cur]
                    ELSE SetColumnWidth(sheet[Cur], cxt.col, a.repeated, a.width)
       IN  /\ sheet' = [sheet EXCEPT ![Cur] =
                          IF a.style \in DOMAIN c.formats
                          THEN SetColumnFormat(sized, cxt.col, a.repeated, c.formats[a.style])
                          ELSE sized]
           /\ cxt' = [c EXCEPT !.col = @ + a.repeated]
    /\ Says([e |-> "column", attrs |-> a])
    /\ UNCHANGED strings

(* start_row() and end_row(): a repeated row is counted, not repeated.     *)
StartRow(a) ==
    /\ cxt.phase \in {"columns", "table"} /\ MoreToCome /\ cxt.row < NumRows
    /\ sheet' = IF a.height = 0 THEN sheet
                ELSE [sheet EXCEPT ![Cur] = SetRowHeight(@, cxt.row, a.height)]
    /\ cxt' = [cxt EXCEPT !.phase = "row", !.col = 0, !.rows = a.repeated]
    /\ Says([e |-> "row", attrs |-> a])
    /\ UNCHANGED strings
EndRow == /\ cxt.phase = "row"
          /\ cxt' = [cxt EXCEPT !.phase = "table", !.row = @ + cxt.rows]
          /\ UNCHANGED <<sheet, strings, file>>

(* What the rules of the validator leave out: a covered-table-cell, and    *)
(* rows or columns in a group or a header, with all that is in them.       *)
Ignored ==
    /\ cxt.phase \in {"row", "columns", "table"} /\ MoreToCome
    /\ Says([e |-> IF cxt.phase = "row" THEN "covered" ELSE "group"])
    /\ UNCHANGED <<sheet, strings, cxt>>

StartCell(a) ==
    /\ cxt.phase = "row" /\ MoreToCome /\ cxt.col + a.repeated <= NumCols
    /\ cxt' = [cxt EXCEPT !.phase = "cell", !.cell = a, !.paras = << >>]
    /\ Says([e |-> "cell", attrs |-> a, texts |-> << >>, spans |-> 0, paras |-> 0])
    /\ UNCHANGED <<sheet, strings>>
-----------------------------------------------------------------------------
(* The paragraph context: a segment is the text up to the next start or    *)
(* end of a span, and has the font of the innermost one.                   *)
SpanFont == IF cxt.spans = << >> THEN {} ELSE SpanFonts[cxt.spans[Len(cxt.spans)]]
FlushWithoutFont == IF cxt.frags = << >> THEN cxt.para
                    ELSE Append(cxt.para, [frags |-> cxt.frags, font |-> {}])
FlushSegment == IF cxt.frags = << >> THEN cxt.para
                ELSE Append(cxt.para, [frags |-> cxt.frags, font |-> SpanFont])

StartParagraph ==
    /\ cxt.phase = "cell" /\ MoreToCome
    /\ cxt' = [cxt EXCEPT !.phase = "para", !.para = << >>, !.frags = << >>]
    /\ file' = [file EXCEPT ![Len(file)].paras = @ + 1]
    /\ UNCHANGED <<sheet, strings>>
StartSpan(s) ==
    /\ cxt.phase = "para" /\ MoreToCome
    /\ cxt' = [cxt EXCEPT !.para = FlushSegment, !.frags = << >>, !.spans = Append(@, s)]
    /\ file' = [file EXCEPT ![Len(file)].spans = @ + 1]
    /\ UNCHANGED <<sheet, strings>>
EndSpan ==
    /\ cxt.phase = "para" /\ cxt.spans # << >>
    /\ cxt' = [cxt EXCEPT !.para = FlushSegment, !.frags = << >>, !.spans = Front(@)]
    /\ UNCHANGED <<sheet, strings, file>>
Characters ==
    /\ cxt.phase = "para" /\ MoreToCome
    /\ LET piece == <<10 * Len(file) + Len(Now.texts)>> IN
       /\ cxt' = [cxt EXCEPT !.frags = Append(@, piece)]
       /\ file' = [file EXCEPT ![Len(file)].texts =
                      Append(@, [text |-> piece, font |-> SpanFont, para |-> Now.paras])]
    /\ UNCHANGED <<sheet, strings>>
EndParagraph ==
    /\ cxt.phase = "para" /\ cxt.spans = << >>
    /\ cxt' = [cxt EXCEPT !.phase = "cell", !.frags = << >>, !.paras = Append(@, FlushSegment)]
    /\ UNCHANGED <<sheet, strings, file>>
-----------------------------------------------------------------------------
(* push_cell_value_string(): each fragment sets the font of its segment.   *)
PushParagraph(ss, para) ==
    FoldLeft(LAMBDA s, seg :
                 FoldLeft(LAMBDA q, frag : AppendSegment(SetSegment(q, seg.font), frag), s, seg.frags),
             ss, para)
PushString(ss) ==
    CommitSegments(FoldLeft(LAMBDA s, para : PushParagraph(AppendSegment(s, <<NewLine>>), para),
                            PushParagraph(ss, Head(cxt.paras)), Tail(cxt.paras)))

(* end_cell(): push_cell_format(), then push_cell_value() in each column.  *)
Covers == [k \in 1..cxt.cell.repeated |-> <<cxt.row, cxt.col + k - 1>>]
OwnValue == <<10 * Len(file)>>
Formatted(sh, c) ==
    IF cxt.cell.style \notin DOMAIN c.formats THEN sh
    ELSE FoldLeft(LAMBDA s, p : SetFormat(s, Rectangle(p, p), c.formats[cxt.cell.style]), sh, Covers)
EndsOneColumn(c) == [c EXCEPT !.phase = "row", !.col = @ + 1]
EndsCell(c) == [c EXCEPT !.phase = "row", !.col = @ + cxt.cell.repeated]

EndFormula ==
    /\ cxt.phase = "cell" /\ cxt.cell.formula
    /\ LET c == Known(cxt, cxt.cell.style)
           entry(p) == [table |-> Cur, pos |-> p, text |-> OwnValue,
                        result |-> IF cxt.cell.type = "float" THEN OwnValue ELSE NoText]
       IN  /\ cxt' = EndsCell([c EXCEPT !.formulas = @ \o [k \in DOMAIN Covers |-> entry(Covers[k])]])
           /\ sheet' = [sheet EXCEPT ![Cur] = Formatted(@, c)]
    /\ UNCHANGED <<strings, file>>

EndValue ==
    /\ cxt.phase = "cell" /\ ~cxt.cell.formula
    /\ cxt.cell.type # "string" \/ cxt.paras = << >>
    /\ LET c == Known(cxt, cxt.cell.style)
           valued(sh) == IF cxt.cell.type \notin {"float", "date"} THEN sh
                         ELSE FoldLeft(LAMBDA s, p : SetValue(s, p, OwnValue), sh, Covers)
       IN  /\ cxt' = EndsCell(c)
           /\ sheet' = [sheet EXCEPT ![Cur] = valued(Formatted(@, c))]
    /\ UNCHANGED <<strings, file>>

EndString ==
    /\ cxt.phase = "cell" /\ ~cxt.cell.formula
    /\ cxt.cell.type = "string" /\ cxt.paras # << >>
    /\ LET c == Known(cxt, cxt.cell.style)
           first == Len(strings.table)
       IN  /\ cxt' = EndsCell(c)
           /\ strings' = FoldLeft(LAMBDA ss, p : PushString(ss), strings, Covers)
           /\ sheet' = [sheet EXCEPT ![Cur] =
                          FoldLeft(LAMBDA s, k : SetString(s, Covers[k], <<first + k>>), Formatted(@, c),
                                   [k \in DOMAIN Covers |-> k])]
    /\ UNCHANGED file

(* end_spreadsheet(): first the names, then the formulas                   *)
PushToTheLast(sheets, f) ==
    [sheets EXCEPT ![Len(sheets)] = CommitFormula(FormulaText(FormulaPosition(GetFormula(@), f.pos), f.text))]
PushFormula(sheets, f) ==
    LET given == FormulaText(FormulaPosition(GetFormula(sheets[f.table]), f.pos), f.text)
    IN  [sheets EXCEPT ![f.table] =
            CommitFormula(IF f.result = NoText THEN given ELSE FormulaResult(given, f.result))]
EndSpreadsheet ==
    /\ cxt.phase = "book"
    /\ sheet' = FoldLeft(PushFormula, sheet, cxt.formulas)
    /\ cxt' = [cxt EXCEPT !.phase = "done", !.defined = cxt.names, !.formulas = << >>]
    /\ UNCHANGED <<strings, file>>

Next == \/ StartTable \/ EndTable \/ NamedExpression \/ EndRow \/ Ignored
        \/ \E a \in OdsColumns : Column(a)
        \/ \E a \in OdsRows : StartRow(a)
        \/ \E a \in OdsCells : StartCell(a)
        \/ StartParagraph \/ EndSpan \/ Characters \/ EndParagraph
        \/ \E s \in DOMAIN SpanFonts : StartSpan(s)
        \/ EndFormula \/ EndValue \/ EndString \/ EndSpreadsheet

Ended == cxt.phase = "done"
-----------------------------------------------------------------------------
(* Where an element is: the table, and the repetitions of the rows, cells  *)
(* and columns that come before it.                                        *)
TableOf(i) == Cardinality({j \in Entries("table") : j <= i})
Before(i, e, from) == {j \in Entries(e) : from < j /\ j < i}
Latest(S) == CHOOSE i \in S : \A j \in S : j <= i
Repeats(S) == MapThenSumSet(LAMBDA j : file[j].attrs.repeated, S)
RowStart(i) == Latest({j \in Entries("row") : j < i})
TableStart(i) == Latest({j \in Entries("table") : j < i})
PlaceOf(i) == <<Repeats(Before(RowStart(i), "row", TableStart(i))),
                Repeats(Before(i, "cell", RowStart(i)))>>
EndedCells == {i \in Entries("cell") : i < Len(file) \/ cxt.phase \notin {"cell", "para"}}
PlacesOf(i) == {<<PlaceOf(i)[1], PlaceOf(i)[2] + k>> : k \in 0..file[i].attrs.repeated-1}
PlacedCells == [i \in EndedCells |-> {TableOf(i)} \X PlacesOf(i)]
At(placed, t, p) == {i \in DOMAIN placed : <<t, p>> \in placed[i]}

TextOf(i) == LET newlines(k) == [n \in 1..(file[i].texts[k].para
                                           - IF k = 1 THEN 1 ELSE file[i].texts[k-1].para) |-> NewLine]
                 last == file[i].paras - (IF file[i].texts = << >> THEN 1
                                          ELSE file[i].texts[Len(file[i].texts)].para)
                 joined == [k \in DOMAIN file[i].texts |-> newlines(k) \o file[i].texts[k].text]
             IN  FlattenSeq(joined) \o [n \in 1..last |-> NewLine]

(* A cell of the document is set by just the cell of the file that is      *)
(* counted to its place, in each column that one is repeated for, and has  *)
(* its value or all its paragraphs; rows are not repeated, and cells       *)
(* covered by a merged one are not counted.                                *)
OdsCellsAreCounted ==
    LET placed == PlacedCells IN
    \A t \in DOMAIN sheet : \A p \in Positions :
        LET c == sheet[t].cells[p]
            own == At(placed, t, p)
        IN  /\ c # EmptyCell => own # {}
            /\ \A i \in own :
                 LET a == file[i].attrs IN
                 ~a.formula =>
                    /\ a.type \in {"float", "date"} => (c.kind = "value" /\ c.val = <<10 * i>>)
                    /\ (a.type = "string" /\ file[i].paras > 0) =>
                          (c.kind = "string" /\ strings.table[c.val[1]].text = TextOf(i))
                    /\ (a.type = "unknown" \/ (a.type = "string" /\ file[i].paras = 0)) => c = EmptyCell

(* Each piece of a string has the font of the innermost span around it,    *)
(* and text out of all spans has none, the line breaks included.           *)
OdsFontsAreOfTheirSpans ==
    LET placed == PlacedCells IN
    \A t \in DOMAIN sheet : \A p \in Positions :
        sheet[t].cells[p].kind = "string" =>
            \A i \in At(placed, t, p) :
                LET s == strings.table[sheet[t].cells[p].val[1]]
                    fontAt(k) == UNION {r.fmt : r \in {q \in Range(s.runs) : q.pos < k /\ k <= q.pos + q.size}}
                IN  \A k \in DOMAIN s.text :
                        fontAt(k) = UNION {x.font : x \in {y \in Range(file[i].texts) : y.text = <<s.text[k]>>}}

(* A cell and a column have the one format of their style, in all the      *)
(* columns they are repeated for; a named style gets one format only.      *)
OdsFormatsAreOfTheirStyles ==
    LET format(s) == IF s \in DOMAIN cxt.formats THEN cxt.formats[s] ELSE 0
        placed == PlacedCells
        spans == [i \in Entries("column") |->
                    {TableOf(i)} \X Span(Repeats(Before(i, "column", TableStart(i))), file[i].attrs.repeated)]
        over(t, c) == {i \in DOMAIN spans : <<t, c>> \in spans[i]}
    IN
    /\ \A s, r \in DOMAIN cxt.formats : cxt.formats[s] = cxt.formats[r] => s = r
    /\ \A t \in DOMAIN sheet : \A p \in Positions :
          IF At(placed, t, p) = {} THEN sheet[t].xf[p] = 0
          ELSE \A i \in At(placed, t, p) : sheet[t].xf[p] = format(file[i].attrs.style)
    /\ \A t \in DOMAIN sheet : \A c \in 0..NumCols-1 :
          IF over(t, c) = {} THEN sheet[t].cols[c] = PlainLine
          ELSE \A i \in over(t, c) :
                 /\ sheet[t].cols[c].xf = format(file[i].attrs.style)
                 /\ sheet[t].cols[c].size = file[i].attrs.width

(* At the end each formula is in its own table and cell with its own       *)
(* number and no one else's, and before it none is; a name belongs to the  *)
(* table it is in.                                                         *)
OdsFormulasComeLast ==
    LET missing == IF FillMissing THEN MissingResult ELSE NoText
        placed == PlacedCells IN
    /\ \A t \in DOMAIN sheet : \A p \in Positions :
          LET c == sheet[t].cells[p]
              own == {i \in At(placed, t, p) : file[i].attrs.formula}
          IN  IF cxt.phase # "done" \/ own = {} THEN c.kind # "formula"
              ELSE \A i \in own :
                     c = Cell("formula", NoText, Tokens(<<10 * i>>, p),
                              IF file[i].attrs.type = "float" THEN <<10 * i>> ELSE missing)
    /\ cxt.phase = "done" =>
          \A k \in DOMAIN cxt.defined :
              LET i == cxt.defined[k].id IN
              cxt.defined[k].scope = IF file[i].inside THEN TableOf(i) ELSE Global
=============================================================================
