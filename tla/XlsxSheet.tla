----------------------------- MODULE XlsxSheet -----------------------------
(***************************************************************************)
(* The import of a worksheet part of an XLSX package: the handlers of      *)
(* xlsx_sheet_context, which set values and formats as they are read and   *)
(* put formulas aside in the session, and set_formulas_to_doc() of         *)
(* orcus_xlsx, which sets those once all parts are read.  The handlers of  *)
(* an element without children (f, v, t) follow one another and are one    *)
(* action.                                                                 *)
(***************************************************************************)
EXTENDS ImportSheet, FiniteSetsExt

CONSTANTS RowAttrs,      \* attributes of row elements: records [r, style, custom, height, hidden]
          ColAttrs,      \* ... of col elements: records [min, max, style, width, hidden]
          CellAttrs,     \* ... of c elements: records [addr, type, style]
          FormulaAttrs,  \* ... and texts of f elements: records [type, ext, id, text]
          MaxSize        \* bound on the elements and texts of a file

VARIABLES sheet,    \* the import_sheet of the part
          cxt,      \* members of the context and of the session
          file      \* the elements read so far: what the file says

vars == <<sheet, cxt, file>>

Absent == -1
Blank == 0        \* the text between two elements of a file with indentation

Here == <<cxt.row, cxt.col>>

NoFormula == [type |-> "normal", ref |-> NoRectangle, id |-> Absent, text |-> NoText]

Init == /\ sheet = NewSheet
        /\ cxt = [phase |-> "cols", row |-> -1, col |-> -1, type |-> "n", xf |-> 0,
                  str |-> NoText, value |-> NoText, formula |-> NoFormula,
                  live |-> << >>, shared |-> << >>, formulas |-> << >>, arrays |-> << >>]
        /\ file = << >>

Entries(e) == {i \in DOMAIN file : file[i].e = e}
Says(entry) == file' = Append(file, entry)
Now == file[Len(file)]     \* the element that is open
SaysOfNow(field, v) == file' = [file EXCEPT ![Len(file)][field] = v]

(* The elements so far, and the indentation in them.                       *)
One(b) == IF b THEN 1 ELSE 0
SizeOf(x) == IF x.e # "c" THEN 1 + 2 * One(x.e = "col")
             ELSE 1 + One(x.hasv) + One(x.fgap) + One(x.vgap) + One(x.hasf)
MoreToCome == MapThenSumSet(LAMBDA i : SizeOf(file[i]), DOMAIN file) < MaxSize

(* The pieces of text of the n-th cell's formula and value.                *)
FormulaPiece(n) == 10 * n
ValuePieces(n, k) == [j \in 1..k |-> 10 * n + j]
-----------------------------------------------------------------------------
(* start_element_col(): an entry with a bad span is skipped.               *)
StartCol(a) ==
    /\ cxt.phase = "cols" /\ MoreToCome
    /\ LET n == a.max - a.min + 1
           styled == IF a.style = Absent THEN sheet
                     ELSE SetColumnFormat(sheet, a.min - 1, n, a.style)
           sized == IF a.width = Absent THEN styled
                    ELSE SetColumnWidth(styled, a.min - 1, n, a.width)
       IN  sheet' = IF a.min = 0 \/ a.max = 0 \/ a.min > a.max THEN sheet
                    ELSE SetColumnHidden(sized, a.min - 1, n, a.hidden)
    /\ Says([e |-> "col", attrs |-> a])
    /\ UNCHANGED cxt

(* start_element_row(): a row that does not say its number follows the     *)
(* previous one; a style counts only with customFormat.                    *)
StartRow(a) ==
    /\ cxt.phase \in {"cols", "sheetData"} /\ MoreToCome
    /\ LET row == IF a.r = Absent THEN cxt.row + 1 ELSE a.r - 1
           styled == IF a.custom /\ a.style # Absent THEN SetRowFormat(sheet, row, a.style)
                     ELSE sheet
           sized == IF a.height # Absent THEN SetRowHeight(styled, row, a.height) ELSE styled
       IN  /\ row < NumRows
           /\ IF a.r = 0 THEN sheet' = sheet /\ cxt' = [cxt EXCEPT !.phase = "failed"]
              ELSE /\ sheet' = SetRowHidden(sized, row, a.hidden)
                   /\ cxt' = [cxt EXCEPT !.phase = "row", !.row = row, !.col = -1]
    /\ Says([e |-> "row", attrs |-> a])

EndRow == /\ cxt.phase = "row"
          /\ cxt' = [cxt EXCEPT !.phase = "sheetData", !.str = NoText]
          /\ UNCHANGED <<sheet, file>>

(* start_element_cell(): an address must be of the current row.            *)
StartCell(a) ==
    /\ cxt.phase = "row" /\ MoreToCome
    /\ a.addr = Nowhere => cxt.col + 1 < NumCols
    /\ IF a.addr # Nowhere /\ a.addr[1] # cxt.row
       THEN cxt' = [cxt EXCEPT !.phase = "failed"]
       ELSE cxt' = [cxt EXCEPT !.phase = "c", !.type = a.type, !.xf = a.style,
                               !.col = IF a.addr # Nowhere THEN a.addr[2] ELSE @ + 1]
    /\ Says([e |-> "c", attrs |-> a, f |-> NoFormula, hasf |-> FALSE, hasv |-> FALSE,
             v |-> NoText, fgap |-> FALSE, vgap |-> FALSE])
    /\ UNCHANGED sheet

(* characters() between the elements of a cell                             *)
Indentation ==
    /\ cxt.phase = "c" /\ MoreToCome /\ cxt.str = NoText /\ ~Now.hasv
    /\ cxt' = [cxt EXCEPT !.str = <<Blank>>]
    /\ file' = IF Now.hasf THEN [file EXCEPT ![Len(file)].vgap = TRUE]
               ELSE [file EXCEPT ![Len(file)].fgap = TRUE]
    /\ UNCHANGED sheet

(* Each piece of text replaces the one before; an element without text     *)
(* keeps what was read before it.                                          *)
TextAfter(str, pieces) == IF pieces = NoText THEN str ELSE <<pieces[Len(pieces)]>>

(* start_element_formula(), characters() and the end of an f element       *)
Formula(a) ==
    /\ cxt.phase = "c" /\ ~Now.hasf /\ ~Now.hasv
    /\ LET text == IF a.text THEN <<FormulaPiece(Len(file))>> ELSE NoText
           last == <<Here[1] + a.ext[1], Here[2] + a.ext[2]>>
           f == [type |-> a.type, ref |-> Rectangle(Here, last), id |-> a.id, text |-> text]
       IN  /\ cxt' = [cxt EXCEPT !.formula = [f EXCEPT !.text = TextAfter(cxt.str, text)],
                                 !.str = NoText]
           /\ file' = [file EXCEPT ![Len(file)].f = f, ![Len(file)].hasf = TRUE]
    /\ UNCHANGED sheet

(* characters() and the end of a v element, or of the t of an inline string *)
Value(k) ==
    /\ cxt.phase = "c" /\ MoreToCome /\ ~Now.hasv
    /\ LET pieces == ValuePieces(Len(file), k) IN
       /\ cxt' = [cxt EXCEPT !.value = TextAfter(cxt.str, pieces), !.str = NoText]
       /\ file' = [file EXCEPT ![Len(file)].v = pieces, ![Len(file)].hasv = TRUE]
    /\ UNCHANGED sheet
-----------------------------------------------------------------------------
(* to_double() of a text                                                   *)
Number(text) == IF text \in {NoText, <<Blank>>} THEN NoNumber ELSE text

(* push_raw_cell_value()                                                   *)
PushRawCellValue(sh, p) ==
    CASE cxt.value = NoText -> sh
      [] cxt.value # NoText /\ cxt.type = "n" -> SetValue(sh, p, Number(cxt.value))
      [] cxt.value # NoText /\ cxt.type \in {"s", "inlineStr"} -> SetString(sh, p, cxt.value)
      [] cxt.value # NoText /\ cxt.type = "b" -> SetBool(sh, p, Number(cxt.value))
      [] OTHER -> sh

(* push_raw_cell_result(): of one formula, and of a matrix of results      *)
RawCellResult == CASE cxt.type = "n" -> Number(cxt.value)
                   [] cxt.type = "str" -> cxt.value
                   [] OTHER -> NoText
SetRawCellResult(results, o) ==
    IF cxt.value = NoText \/ cxt.type \notin {"n", "b"} THEN results
    ELSE [results EXCEPT ![o] = Number(cxt.value)]

(* handle_array_formula_result(): the array formulas above the current row *)
(* are dropped on the way to the first one the cell is in.                 *)
Covering == {i \in DOMAIN cxt.live : InRectangle(Here, cxt.arrays[cxt.live[i]].ref)}
FirstCovering == CHOOSE i \in Covering : \A j \in Covering : i <= j
StillLive == SelectSeq([i \in DOMAIN cxt.live |->
                          IF (Covering # {} => i < FirstCovering)
                             /\ cxt.arrays[cxt.live[i]].ref.last[1] < cxt.row
                          THEN 0 ELSE cxt.live[i]],
                       LAMBDA k : k # 0)

CellIsArrayResult == Covering # {}
CellHasFormula == cxt.formula.text # NoText
                  \/ (cxt.formula.type = "shared" /\ cxt.formula.id # Absent)

(* What end_element_cell() adds to the session: to the results of an array *)
(* formula, or a formula of its own.                                       *)
WithArrayResult(c) ==
    LET k == c.live[FirstCovering] IN
    [c EXCEPT !.arrays[k].results = SetRawCellResult(@, Offset(Here, c.arrays[k].ref))]

WithFormula(c) ==
    LET f == c.formula
        entry == [pos |-> Here, text |-> f.text, id |-> f.id, result |-> RawCellResult]
        ref == ClampRange(f.ref)
        array == [ref |-> ref, text |-> f.text,
                  results |-> SetRawCellResult(ResultsOf(ref, NoText), <<0, 0>>)]
    IN  CASE f.type = "shared" /\ f.id # Absent -> [c EXCEPT !.shared = Append(@, entry)]
          [] f.type = "array" /\ ValidRange(f.ref) ->
                [c EXCEPT !.arrays = Append(@, array), !.live = Append(@, Len(c.arrays) + 1)]
          [] f.type = "array" /\ ~ValidRange(f.ref) -> c
          [] OTHER -> [c EXCEPT !.formulas = Append(@, entry)]

ResetButValue(c) == [c EXCEPT !.phase = "row", !.formula = NoFormula, !.xf = 0, !.type = "n", !.str = NoText]
ResetCell(c) == [c EXCEPT !.phase = "row", !.value = NoText, !.formula = NoFormula, !.xf = 0,
                          !.type = "n", !.str = NoText]

(* end_element_cell()                                                      *)
EndCell ==
    /\ cxt.phase = "c"
    /\ LET kept == [cxt EXCEPT !.live = StillLive]
           pushed == IF CellIsArrayResult \/ CellHasFormula THEN sheet
                     ELSE PushRawCellValue(sheet, Here)
       IN  /\ cxt' = ResetCell(CASE CellIsArrayResult -> [WithArrayResult(cxt) EXCEPT !.live = StillLive]
                                 [] ~CellIsArrayResult /\ CellHasFormula -> WithFormula(kept)
                                 [] OTHER -> kept)
           /\ sheet' = IF cxt.xf = 0 THEN pushed
                       ELSE SetFormat(pushed, Rectangle(Here, Here), cxt.xf)
    /\ UNCHANGED file
-----------------------------------------------------------------------------
(* set_formulas_to_doc(), one formula at a time: shared formulas, regular  *)
(* ones, then array formulas.  Only the cells with a text of their own     *)
(* give it to the document.                                                *)
EndSheet == /\ cxt.phase \in {"cols", "sheetData"} /\ file # << >>
            /\ cxt' = [cxt EXCEPT !.phase = "push"]
            /\ UNCHANGED <<sheet, file>>

WithResult(sh, v) == IF v = NoText THEN sh ELSE FormulaResult(sh, v)

PushShared ==
    /\ cxt.phase = "push" /\ cxt.shared # << >>
    /\ LET f == Head(cxt.shared)
           at == FormulaPosition(GetFormula(sheet), f.pos)
           given == IF f.text # NoText THEN FormulaText(at, f.text) ELSE at
       IN  sheet' = CommitFormula(WithResult(FormulaSharedIndex(given, f.id), f.result))
    /\ cxt' = [cxt EXCEPT !.shared = Tail(@)]
    /\ UNCHANGED file

PushRegular ==
    /\ cxt.phase = "push" /\ cxt.shared = << >> /\ cxt.formulas # << >>
    /\ LET f == Head(cxt.formulas)
           given == FormulaText(FormulaPosition(GetFormula(sheet), f.pos), f.text)
       IN  sheet' = CommitFormula(WithResult(given, f.result))
    /\ cxt' = [cxt EXCEPT !.formulas = Tail(@)]
    /\ UNCHANGED file

PushArray ==
    /\ cxt.phase = "push" /\ cxt.shared = << >> /\ cxt.formulas = << >> /\ cxt.arrays # << >>
    /\ LET a == Head(cxt.arrays) IN sheet' = PushArrayFormula(GetArray(sheet), a.ref, a.text, a.results)
    /\ cxt' = [cxt EXCEPT !.arrays = Tail(@)]
    /\ UNCHANGED file

Pushed == /\ cxt.phase = "push" /\ cxt.shared = << >> /\ cxt.formulas = << >> /\ cxt.arrays = << >>
          /\ cxt' = [cxt EXCEPT !.phase = "done"]
          /\ UNCHANGED <<sheet, file>>

Next == \/ \E a \in ColAttrs : StartCol(a)
        \/ \E a \in RowAttrs : StartRow(a)
        \/ EndRow
        \/ \E a \in CellAttrs : StartCell(a)
        \/ Indentation
        \/ \E a \in FormulaAttrs : Formula(a)
        \/ \E k \in {0, 2} : Value(k)
        \/ EndCell \/ EndSheet
        \/ PushShared \/ PushRegular \/ PushArray \/ Pushed

Ended == cxt.phase \in {"done", "failed"}
-----------------------------------------------------------------------------
(* What the file says: where each of its elements is.                      *)
RowNumber[i \in 0..Len(file)] ==
    IF i = 0 THEN -1
    ELSE IF file[i].e # "row" THEN RowNumber[i-1]
    ELSE IF file[i].attrs.r = Absent THEN RowNumber[i-1] + 1 ELSE file[i].attrs.r - 1
ColumnNumber[i \in 0..Len(file)] ==
    IF i = 0 \/ file[i].e # "c" THEN -1
    ELSE IF file[i].attrs.addr = Nowhere THEN ColumnNumber[i-1] + 1
    ELSE file[i].attrs.addr[2]
PlaceOf(i) == <<RowNumber[i], ColumnNumber[i]>>

CellsAt(p) == {i \in Entries("c") : PlaceOf(i) = p}
Last(S) == CHOOSE i \in S : \A j \in S : j <= i
First(S) == CHOOSE i \in S : \A j \in S : i <= j

(* What a c element may give as its value: its last piece of text, or the  *)
(* indentation before a v without text.                                    *)
ValueOf(i) == TextAfter(IF file[i].vgap \/ (file[i].fgap /\ ~file[i].hasf) THEN <<Blank>> ELSE NoText,
                        file[i].v)

Filled == {MissingResult, NoText, NoNumber}

(* At any time a value or a cached result is the text of a c element at    *)
(* its own place, or stands for no text at all: nothing is left over from  *)
(* another cell.  (Which of the texts, when it is all done: see below.)    *)
XlsxValuesAreOwn ==
    cxt.phase # "c" => \A p \in Positions :
        LET c == sheet.cells[p] IN
        /\ c.kind \in {"value", "string", "bool"} =>
              \E i \in CellsAt(p) : c.val \in {ValueOf(i), Number(ValueOf(i))}
        /\ c.kind \in {"formula", "grouped"} =>
              c.result \in Filled \cup {ValueOf(i) : i \in CellsAt(p)}

(* A format is that of the last c element with a style at its place, and   *)
(* none is left to a cell that has none.                                   *)
XlsxFormatsAreOwn ==
    cxt.phase \notin {"c", "failed"} => \A p \in Positions :
        LET styled == {i \in CellsAt(p) : file[i].attrs.style # 0} IN
        sheet.xf[p] = IF styled = {} THEN 0 ELSE file[Last(styled)].attrs.style

(* The text an f element gives, and what a v gives; nothing when it is not *)
(* there.                                                                  *)
FormulaOf(i) == IF file[i].hasf THEN TextAfter(IF file[i].fgap THEN <<Blank>> ELSE NoText, file[i].f.text)
                ELSE NoText
Given(i) == IF file[i].hasv THEN ValueOf(i) ELSE NoText

(* What each c element is: one in the range of an array formula before it  *)
(* gives a result only; of the others some have a formula.                 *)
Over(p, arrays) == {j \in arrays : InRectangle(p, file[j].f.ref)}
Arrays[i \in 0..Len(file)] ==     \* the array formulas up to there
    IF i = 0 THEN {}
    ELSE IF /\ file[i].e = "c" /\ Over(PlaceOf(i), Arrays[i-1]) = {}
            /\ file[i].f.type = "array" /\ FormulaOf(i) # NoText /\ ValidRange(file[i].f.ref)
    THEN Arrays[i-1] \cup {i} ELSE Arrays[i-1]
Independent(p) == {i \in CellsAt(p) : Over(p, Arrays[i-1]) = {}}
RefersToShared(i) == file[i].f.type = "shared" /\ file[i].f.id # Absent
Regular(p) == {i \in Independent(p) : /\ FormulaOf(i) # NoText /\ file[i].f.type # "array"
                                      /\ ~RefersToShared(i)}
(* A cell that only refers to a shared formula gets that of the first cell *)
(* of the sheet that gave the index a text, if there is one before it.     *)
Sharing(i) == {j \in Entries("c") : /\ RefersToShared(j) /\ file[j].f.id = file[i].f.id
                                    /\ FormulaOf(j) # NoText /\ Over(PlaceOf(j), Arrays[j-1]) = {}
                                    /\ j <= i}
SourceOf(i) == IF FormulaOf(i) # NoText THEN i ELSE First(Sharing(i))
Shared(p) == {i \in Independent(p) : RefersToShared(i) /\ Sharing(i) # {}}
Plain_(p) == {i \in Independent(p) : /\ FormulaOf(i) = NoText /\ ~RefersToShared(i) /\ Given(i) # NoText
                                     /\ file[i].attrs.type # "str"}

(* The cached result of a formula, that of one cell of an array formula,   *)
(* and the value of a cell without formula.                                *)
NoResult == IF FillMissing THEN MissingResult ELSE NoText
ResultOf(i) == CASE file[i].attrs.type = "n" -> Number(Given(i))
                 [] file[i].attrs.type = "str" /\ Given(i) # NoText -> Given(i)
                 [] OTHER -> NoResult
GroupedResult(a, p) ==
    LET numbers == {i \in CellsAt(p) : /\ Given(i) # NoText /\ file[i].attrs.type \in {"n", "b"}
                                       /\ i = a \/ (i > a /\ First(Over(p, Arrays[i-1])) = a)}
    IN  IF numbers = {} THEN NoResult ELSE Number(Given(Last(numbers)))
ValueCell(i) ==
    CASE file[i].attrs.type = "n" -> Cell("value", Number(Given(i)), NoTokens, NoText)
      [] file[i].attrs.type = "b" -> Cell("bool", Number(Given(i)), NoTokens, NoText)
      [] OTHER -> Cell("string", Given(i), NoTokens, NoText)
ExpressionOf(i) == Tokens(FormulaOf(i), PlaceOf(i))

(* The cell at a place: an array formula comes before any other, a formula *)
(* before any value, a regular formula before a shared one, and of several *)
(* the last one in the file counts.                                        *)
CellOf(p) ==
    LET over == Over(p, Arrays[Len(file)]) IN
    IF over # {}
    THEN Cell("grouped", NoText, ExpressionOf(Last(over)), GroupedResult(Last(over), p))
    ELSE IF Regular(p) # {}
    THEN Cell("formula", NoText, ExpressionOf(Last(Regular(p))), ResultOf(Last(Regular(p))))
    ELSE IF Shared(p) # {}
    THEN Cell("formula", NoText, ExpressionOf(SourceOf(Last(Shared(p)))), ResultOf(Last(Shared(p))))
    ELSE IF Plain_(p) # {} THEN ValueCell(Last(Plain_(p)))
    ELSE EmptyCell

(* The rows of a file come in order.  (An array formula is forgotten below *)
(* its range, so a row above it that comes later is not in it any more.)   *)
InOrder == \A i, j \in Entries("c") : i < j => RowNumber[i] <= RowNumber[j]

(* When the import ends each cell has the value, or the cached result, of  *)
(* the one c element that gives it: no result is lost or left over from    *)
(* another formula, and a value never takes the place of a formula.        *)
XlsxResultsArrive ==
    (cxt.phase = "done" /\ InOrder) =>
        \A p \in Positions :
            LET c == sheet.cells[p]
                given == CellOf(p)
            IN  c.kind = given.kind /\ c.val = given.val /\ c.result = given.result

(* And each formula has its own expression: that of its own f, of the      *)
(* shared formula it refers to or of the array formula it is in.           *)
XlsxFormulasArrive ==
    (cxt.phase = "done" /\ InOrder) =>
        \A p \in Positions : sheet.cells[p].tokens = CellOf(p).tokens
=============================================================================
