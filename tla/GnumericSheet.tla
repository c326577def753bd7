--------------------------- MODULE GnumericSheet ---------------------------
(***************************************************************************)
(* The import of a sheet of a Gnumeric file: gnumeric_sheet_context with   *)
(* its cell and style contexts.  Cells say where they are and go to the    *)
(* document when they end; the styles of all sheets wait until the last    *)
(* sheet has ended.                                                        *)
(***************************************************************************)
EXTENDS ImportSheet, FiniteSetsExt, SequencesExt

CONSTANTS GnmCellAttrs,   \* attributes of a Cell: records [at, kind, id, rows, cols, segments]
          GnmTexts,       \* texts of a Cell: Equals first in a formula
          GnmLines,       \* ColInfo and RowInfo elements: records [e, no, count, size, hidden]
          GnmRegions,     \* the rectangles of StyleRegion elements
          GnmStyles,      \* attributes of Style and Font: functions to their values
          GnmBorders,     \* elements of a StyleBorder: pairs of a side and what is set, if any
          GnmMerges,      \* the ranges of Merge elements
          Equals,         \* the character '='
          Space,          \* the text between two elements
          MaxGnmSize      \* bound on the elements and texts of a file

VARIABLES sheet,    \* the import_sheet
          strings,  \* the import_shared_strings
          styles,   \* the import_styles
          cxt,      \* members of the contexts
          file      \* the elements read so far: what the file says

vars == <<sheet, strings, styles, cxt, file>>

NoCell == [at |-> Nowhere, kind |-> "none", id |-> 0, rows |-> 0, cols |-> 0, segments |-> {}]

NoRegion == [ref |-> NoRectangle, set |-> Plain]
Init == /\ sheet = NewSheet /\ strings = NewStrings /\ styles = NewStyles
        /\ cxt = [phase |-> "sheet", chars |-> NoText, cell |-> NoCell, region |-> NoRegion,
                  regions |-> << >>, gap |-> NoText]
        /\ file = << >>

Entries(e) == {i \in DOMAIN file : file[i].e = e}
Says(entry) == file' = Append(file, entry)
Now == file[Len(file)]
SizeOf(x) == 1 + x.pieces + IF x.e = "cell" THEN Cardinality(x.attrs.segments) ELSE 0
MoreToCome == MapThenSumSet(LAMBDA i : SizeOf(file[i]), DOMAIN file) < MaxGnmSize
-----------------------------------------------------------------------------
(* start_col() and start_row(): for a number of lines from one on.         *)
SetRows(sh, first, n, size, hidden) ==
    [sh EXCEPT !.rows = [r \in DOMAIN @ |-> IF first <= r /\ r < first + n
                                            THEN [@[r] EXCEPT !.size = size, !.hidden = hidden]
                                            ELSE @[r]]]
StartLine(a) ==
    /\ cxt.phase = "sheet" /\ MoreToCome
    /\ sheet' = IF a.e = "col"
                THEN SetColumnHidden(SetColumnWidth(sheet, a.no, a.count, a.size), a.no, a.count, a.hidden)
                ELSE SetRows(sheet, a.no, a.count, a.size, a.hidden)
    /\ Says([e |-> a.e, attrs |-> a, pieces |-> 0])
    /\ UNCHANGED <<strings, styles, cxt>>

(* end_merge()                                                             *)
Merge(ref) ==
    /\ cxt.phase = "sheet" /\ MoreToCome
    /\ sheet' = SetMergeCellRange(sheet, ref)
    /\ Says([e |-> "merge", ref |-> ref, pieces |-> 0])
    /\ UNCHANGED <<strings, styles, cxt>>

(* The styles context: the elements of a StyleRegion set m_current_style,  *)
(* a side of the border as a whole.                                        *)
StyleRegion(ref) ==
    /\ cxt.phase = "sheet" /\ MoreToCome
    /\ cxt' = [cxt EXCEPT !.phase = "region", !.region = [NoRegion EXCEPT !.ref = ref]]
    /\ Says([e |-> "style", ref |-> ref, set |-> Plain, pieces |-> 0])
    /\ UNCHANGED <<sheet, strings, styles>>

SetInRegion(set) ==
    /\ cxt.phase = "region" /\ MoreToCome
    /\ cxt' = [cxt EXCEPT !.region.set = set]
    /\ file' = [file EXCEPT ![Len(file)].set = set, ![Len(file)].pieces = @ + 1]
    /\ UNCHANGED <<sheet, strings, styles>>
StyleAttributes(attrs) == SetInRegion(attrs @@ cxt.region.set)
BorderElement(side, b) == SetInRegion(b @@ Restrict(cxt.region.set, DOMAIN cxt.region.set \ {side}))

EndStyleRegion == /\ cxt.phase = "region"
                  /\ cxt' = [cxt EXCEPT !.phase = "sheet", !.regions = Append(@, cxt.region)]
                  /\ UNCHANGED <<sheet, strings, styles, file>>

(* The file may have indentation: a text between any two of its elements.  *)
StartCells(gap) ==
    /\ cxt.phase = "sheet"
    /\ cxt' = [cxt EXCEPT !.phase = "cells", !.cell = NoCell, !.chars = gap, !.gap = gap]
    /\ UNCHANGED <<sheet, strings, styles, file>>

(* start_cell(): what the cell before left in m_chars stays.               *)
StartCell(a) ==
    /\ cxt.phase = "cells" /\ MoreToCome
    /\ cxt' = [cxt EXCEPT !.phase = "cell", !.cell = a]
    /\ Says([e |-> "cell", attrs |-> a, text |-> NoText, pieces |-> 0])
    /\ UNCHANGED <<sheet, strings, styles>>

(* characters() in a cell: each piece replaces the one before it.          *)
Numbered(t) == [k \in DOMAIN t |-> IF t[k] = Equals THEN Equals ELSE 10 * Len(file) + k + 3 * Now.pieces]
Characters(t) ==
    /\ cxt.phase = "cell" /\ MoreToCome
    /\ cxt' = [cxt EXCEPT !.chars = Numbered(t)]
    /\ file' = [file EXCEPT ![Len(file)].text = Numbered(t), ![Len(file)].pieces = @ + 1]
    /\ UNCHANGED <<sheet, strings, styles>>
-----------------------------------------------------------------------------
(* build_format_segment_ranges(): a segment of the text from each boundary *)
(* to the next, with all the formats given for its characters.             *)
Boundaries == {0, Len(cxt.chars)} \cup UNION {{s.start, s.end} : s \in cxt.cell.segments}
NextBoundary(k) == CHOOSE m \in Boundaries : k < m /\ \A n \in Boundaries : k < n => m <= n
FormatsAt(start) == {s.fmt : s \in {t \in cxt.cell.segments : t.start <= start /\ start < t.end}}

(* push_string()                                                           *)
Character == [k \in DOMAIN cxt.chars |-> k - 1]
AppendAt(ss, k) ==
    IF k \notin Boundaries THEN ss
    ELSE AppendSegment(SetSegment(ss, FormatsAt(k)), SubSeq(cxt.chars, k + 1, NextBoundary(k)))
PushString ==
    IF cxt.cell.segments = {}
    THEN /\ strings' = AddString(strings, cxt.chars)
         /\ sheet' = SetString(sheet, cxt.cell.at, <<StringId(strings', cxt.chars)>>)
    ELSE /\ strings' = CommitSegments(FoldLeft(AppendAt, strings, Character))
         /\ sheet' = SetString(sheet, cxt.cell.at, <<Len(strings'.table)>>)

(* end_cell(): by the type of the cell                                     *)
IsFormulaText == cxt.chars # NoText /\ cxt.chars[1] = Equals
Number == IF cxt.chars \in {NoText, <<Space>>} THEN NoNumber ELSE cxt.chars
Ends == cxt' = [cxt EXCEPT !.phase = "cells", !.cell = NoCell,
                           !.chars = IF cxt.gap = NoText THEN @ ELSE cxt.gap]

EndValue ==
    /\ cxt.phase = "cell" /\ cxt.cell.kind \in {"bool", "float"}
    /\ sheet' = IF cxt.cell.kind = "bool" THEN SetBool(sheet, cxt.cell.at, Number)
                ELSE SetValue(sheet, cxt.cell.at, Number)
    /\ Ends /\ UNCHANGED <<strings, styles, file>>

EndString ==
    /\ cxt.phase = "cell" /\ cxt.cell.kind = "string"
    /\ \A s \in cxt.cell.segments : s.end <= Len(cxt.chars)
    /\ PushString
    /\ Ends /\ UNCHANGED <<styles, file>>

EndArray ==
    /\ cxt.phase = "cell" /\ cxt.cell.kind = "array"
    /\ LET at == cxt.cell.at
           ref == Rectangle(at, <<at[1] + cxt.cell.rows - 1, at[2] + cxt.cell.cols - 1>>)
       IN  sheet' = IF IsFormulaText
                    THEN CommitArray(ArrayText(ArrayRange(GetArray(sheet), ref), Tail(cxt.chars)))
                    ELSE GetArray(sheet)
    /\ Ends /\ UNCHANGED <<strings, styles, file>>

EndFormula ==
    /\ cxt.phase = "cell" /\ cxt.cell.kind = "formula"
    /\ LET at == FormulaPosition(GetFormula(sheet), cxt.cell.at)
       IN  sheet' = IF IsFormulaText THEN CommitFormula(FormulaText(at, Tail(cxt.chars)))
                    ELSE GetFormula(sheet)
    /\ Ends /\ UNCHANGED <<strings, styles, file>>

EndShared ==
    /\ cxt.phase = "cell" /\ cxt.cell.kind = "shared"
    /\ LET at == FormulaPosition(GetFormula(sheet), cxt.cell.at)
           given == IF IsFormulaText THEN FormulaText(at, Tail(cxt.chars)) ELSE at
       IN  sheet' = CommitFormula(FormulaSharedIndex(given, cxt.cell.id))
    /\ Ends /\ UNCHANGED <<strings, styles, file>>

EndUnknown == /\ cxt.phase = "cell" /\ cxt.cell.kind = "none"
              /\ Ends /\ UNCHANGED <<sheet, strings, styles, file>>

(* import_default_styles(): the records with identifier 0                  *)
DefaultsOf(order) ==
    LET parts == FoldLeft(LAMBDA st, p : AddPart(st, p, Plain), NewStyles, order)
    IN  CommitStyle(StartStyleOf(CommitFormat(StartFormat(parts, "cell"))))
DefaultsButNumbers == DefaultsOf(<<"font", "fill", "border", "protection">>)
DefaultStyles == DefaultsOf(<<"font", "fill", "border", "protection", "numfmt">>)

(* import_cell_styles(): a font for each region, the other parts only      *)
(* where the region says something of them; a fill needs a pattern.        *)
FontAttrs == {"name", "size", "bold", "fore"}
FillAttrs == {"pattern", "back"}
AlignAttrs == {"halign", "wrap"}
Sides == {"top", "diagonal_bl_tr"}
Of(set, attrs) == Restrict(set, DOMAIN set \cap attrs)
FillOf(set) == IF "pattern" \in DOMAIN set THEN Of(set, FillAttrs) ELSE Plain
Optional(st, part, rec) == IF rec = Plain THEN st ELSE PutPart(st, part, rec)
FormatOf(st, set) ==
    LET font == PutPart(StartFormat(st, "cell"), "font", Of(set, FontAttrs))
        fill == Optional(font, "fill", FillOf(set))
        border == Optional(fill, "border", Of(set, Sides))
        numfmt == Optional(border, "numfmt", Of(set, {"format"}))
    IN  [numfmt EXCEPT !.xf.align = Of(set, AlignAttrs),
                       !.xf.apply_alignment = Of(set, AlignAttrs) # Plain]
ImportRegion(doc, region) ==
    LET st == FormatOf(doc.styles, region.set)
    IN  [styles |-> CommitFormat(st), sheet |-> SetFormat(doc.sheet, region.ref, IdOfFormat(st))]

(* end_sheet() and end_sheets(): the regions in the order of the file      *)
EndSheets ==
    /\ cxt.phase = "cells"
    /\ LET doc == FoldLeft(ImportRegion, [styles |-> DefaultStyles, sheet |-> sheet], cxt.regions)
       IN  styles' = doc.styles /\ sheet' = doc.sheet
    /\ cxt' = [cxt EXCEPT !.phase = "done"]
    /\ UNCHANGED <<strings, file>>

Next == \/ \E a \in GnmLines : StartLine(a)
        \/ \E ref \in GnmRegions : StyleRegion(ref)
        \/ \E ref \in GnmMerges : Merge(ref)
        \/ \E attrs \in GnmStyles : StyleAttributes(attrs)
        \/ \E b \in GnmBorders : BorderElement(b[1], b[2])
        \/ EndStyleRegion
        \/ \E gap \in {NoText, <<Space>>} : StartCells(gap)
        \/ \E a \in GnmCellAttrs : StartCell(a)
        \/ \E t \in GnmTexts : Characters(t)
        \/ EndValue \/ EndString \/ EndArray \/ EndFormula \/ EndShared \/ EndUnknown
        \/ EndSheets

Ended == cxt.phase = "done"
-----------------------------------------------------------------------------
CellsAt(p) == {i \in Entries("cell") : file[i].attrs.at = p}
Latest(S) == CHOOSE i \in S : \A j \in S : j <= i
Earliest(S) == CHOOSE i \in S : \A j \in S : i <= j
(* The text a cell ends with is its own last piece.  One that has none     *)
(* keeps what was read last: the indentation before it or, in a file       *)
(* without indentation, the text of the last cell before it that had one.  *)
TextOf(i) ==
    LET own == {j \in Entries("cell") : j <= i /\ file[j].text # NoText} IN
    IF file[i].text # NoText \/ (cxt.gap = NoText /\ own # {}) THEN file[Latest(own)].text
    ELSE cxt.gap
NumberOf(text) == IF text \in {NoText, <<Space>>} THEN NoNumber ELSE text
FormulaOf(i) == TextOf(i) # NoText /\ TextOf(i)[1] = Equals
Ended_(i) == i < Len(file) \/ cxt.phase # "cell"

(* A value is that of the last cell at its place that has one, the string  *)
(* also when equal ones share an entry of the table.                       *)
GnumericTextsAreOwn ==
    \A p \in Positions :
        LET c == sheet.cells[p]
            ended == {i \in CellsAt(p) : Ended_(i)}
            last == Latest({i \in ended : file[i].attrs.kind \in {"bool", "float", "string"}})
        IN  /\ c.kind = "value" => file[last].attrs.kind = "float" /\ c.val = NumberOf(TextOf(last))
            /\ c.kind = "bool" => file[last].attrs.kind = "bool" /\ c.val = NumberOf(TextOf(last))
            /\ c.kind = "string" => /\ file[last].attrs.kind = "string"
                                    /\ strings.table[c.val[1]].text = TextOf(last)

(* A formula is that of the last cell at its place that has one, with its  *)
(* own expression.  A cell that only refers to a shared formula has that   *)
(* of the first cell of the sheet with the same ExprID and a formula, and  *)
(* is no formula when there is none before it.                             *)
Sharing(i) == {j \in Entries("cell") : /\ file[j].attrs.kind = "shared" /\ FormulaOf(j)
                                       /\ file[j].attrs.id = file[i].attrs.id /\ j < i}
GnumericFormulasAreOwn ==
    \A p \in Positions :
        LET formulas == {i \in CellsAt(p) : /\ Ended_(i) /\ file[i].attrs.kind \in {"formula", "shared"}
                                            /\ \/ FormulaOf(i)
                                               \/ file[i].attrs.kind = "shared" /\ Sharing(i) # {}}
            last == Latest(formulas)
            source == IF FormulaOf(last) THEN last ELSE Earliest(Sharing(last))
        IN  sheet.cells[p].kind = "formula" =>
              /\ formulas # {}
              /\ sheet.cells[p].tokens = Tokens(Tail(TextOf(source)), file[source].attrs.at)

(* Each character of a stored string has just the formats of the segments  *)
(* it is in, however they overlap, and none is left for the next string.   *)
GnumericFormatsAreOwn ==
    /\ strings.fmt = {}
    /\ \A p \in Positions :
        (sheet.cells[p].kind = "string" /\ Cardinality(CellsAt(p)) = 1) =>
          \A i \in CellsAt(p) : file[i].attrs.segments # {} =>
            LET s == strings.table[sheet.cells[p].val[1]] IN
            \A k \in 0..Len(s.text)-1 :
                UNION {r.fmt : r \in {q \in Range(s.runs) : q.pos <= k /\ k < q.pos + q.size}}
                = {g.fmt : g \in {h \in file[i].attrs.segments : h.start <= k /\ k < h.end}}

(* At the end a cell has the format of the last region it is in, and that  *)
(* has just the font, the fill, the border, the number format and the      *)
(* alignment of its own region; a cell in none has the default format.     *)
GnumericStylesAreTheLast ==
    cxt.phase = "done" =>
        \A p \in Positions :
            LET over == {i \in Entries("style") : InRectangle(p, file[i].ref)}
                set == IF over = {} THEN Plain ELSE file[Latest(over)].set
                f == styles.xfs["cell"][sheet.xf[p] + 1]
            IN  /\ RecordOf(styles, "font", f.font) = Of(set, FontAttrs)
                /\ RecordOf(styles, "fill", f.fill) = FillOf(set)
                /\ RecordOf(styles, "border", f.border) = Of(set, Sides)
                /\ RecordOf(styles, "numfmt", f.numfmt) = Of(set, {"format"})
                /\ f.align = Of(set, AlignAttrs)
                /\ (sheet.xf[p] = 0) = (over = {})

(* Of the merged ranges that start at one position the first one stays.    *)
GnumericMergesAreTheFirst ==
    sheet.merged = {file[i].ref : i \in {k \in Entries("merge") :
                        \A j \in Entries("merge") : j < k => file[j].ref.first # file[k].ref.first}}
=============================================================================
