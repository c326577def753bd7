---------------------------- MODULE ImportSheet ----------------------------
(***************************************************************************)
(* What the spreadsheet document does with the calls of an import filter:  *)
(* import_sheet with its one import_formula, one import_array_formula and  *)
(* its pool of shared formulas (src/spreadsheet/factory_sheet.cpp), and    *)
(* import_shared_strings (factory_shared_strings.cpp).  The module has no  *)
(* variables: a sheet and the shared strings are records, and an operator  *)
(* is one call.  Texts are sequences of numbers, one per piece of text of  *)
(* the file; an empty sequence is the empty text.                          *)
(***************************************************************************)
EXTENDS Integers, Sequences, FiniteSets, TLC

CONSTANTS NumRows, NumCols,    \* the size of a sheet
          SharedIds,           \* identifiers of shared formulas
          FillMissing          \* m_fill_missing_formula_results

ASSUME SheetAssumption == NumRows \in Nat \ {0} /\ NumCols \in Nat \ {0}
                          /\ FillMissing \in BOOLEAN

Positions == (0..NumRows-1) \X (0..NumCols-1)
Nowhere == <<-1, -1>>

NoText == << >>
NoNumber == <<-1>>             \* NaN: what to_double gives for no number
MissingResult == <<-2>>        \* formula_error_t::no_result_error

Tokens(text, pos) == [text |-> text, at |-> pos]
NoTokens == Tokens(NoText, Nowhere)

Cell(kind, val, tokens, result) ==
    [kind |-> kind, val |-> val, tokens |-> tokens, result |-> result]
EmptyCell == Cell("empty", NoText, NoTokens, NoText)

Rectangle(first, last) == [first |-> first, last |-> last]
InRectangle(p, ref) == /\ ref.first[1] <= p[1] /\ p[1] <= ref.last[1]
                       /\ ref.first[2] <= p[2] /\ p[2] <= ref.last[2]
Offset(p, ref) == <<p[1] - ref.first[1], p[2] - ref.first[2]>>
NoRectangle == Rectangle(Nowhere, Nowhere)

ValidRange(ref) == /\ ref.first \in Positions
                   /\ ref.first[1] <= ref.last[1] /\ ref.first[2] <= ref.last[2]
Least(m, n) == IF m < n THEN m ELSE n
ClampRange(ref) ==
    Rectangle(ref.first, <<Least(ref.last[1], NumRows-1), Least(ref.last[2], NumCols-1)>>)

(* A matrix of cached results, of the size of its range.                   *)
Offsets(ref) == (0..ref.last[1]-ref.first[1]) \X (0..ref.last[2]-ref.first[2])
ResultsOf(ref, v) == [o \in Offsets(ref) |-> v]

FreshFormula == [pos |-> Nowhere, tokens |-> NoTokens, result |-> NoText,
                 shared |-> FALSE, index |-> 0]
FreshArray == [range |-> NoRectangle, tokens |-> NoTokens, results |-> << >>]

(* The format, height or width, and visibility of a row or a column.       *)
PlainLine == [xf |-> 0, size |-> 0, hidden |-> FALSE]

NewSheet == [cells   |-> [p \in Positions |-> EmptyCell],
             xf      |-> [p \in Positions |-> 0],
             rows    |-> [r \in 0..NumRows-1 |-> PlainLine],
             cols    |-> [c \in 0..NumCols-1 |-> PlainLine],
             merged  |-> {},
             pool    |-> [i \in SharedIds |-> NoTokens],
             formula |-> FreshFormula,
             array   |-> FreshArray]
-----------------------------------------------------------------------------
(* Values, formats, and the properties of rows and columns                 *)
SetCell(sh, p, c) == [sh EXCEPT !.cells[p] = c]
SetValue(sh, p, v) == SetCell(sh, p, Cell("value", v, NoTokens, NoText))
SetString(sh, p, sid) == SetCell(sh, p, Cell("string", sid, NoTokens, NoText))
SetBool(sh, p, v) == SetCell(sh, p, Cell("bool", v, NoTokens, NoText))

SetFormat(sh, ref, id) ==
    [sh EXCEPT !.xf = [p \in Positions |-> IF InRectangle(p, ref) THEN id ELSE sh.xf[p]]]
SetRowFormat(sh, r, id) == [sh EXCEPT !.rows[r].xf = id]
SetRowHeight(sh, r, h) == [sh EXCEPT !.rows[r].size = h]
SetRowHidden(sh, r, b) == [sh EXCEPT !.rows[r].hidden = b]
Span(first, n) == {c \in 0..NumCols-1 : first <= c /\ c < first + n}
SetColumnFormat(sh, first, n, id) ==
    [sh EXCEPT !.cols = [c \in DOMAIN @ |-> IF c \in Span(first, n) THEN [@[c] EXCEPT !.xf = id] ELSE @[c]]]
SetColumnWidth(sh, first, n, w) ==
    [sh EXCEPT !.cols = [c \in DOMAIN @ |-> IF c \in Span(first, n) THEN [@[c] EXCEPT !.size = w] ELSE @[c]]]
SetColumnHidden(sh, first, n, b) ==
    [sh EXCEPT !.cols = [c \in DOMAIN @ |-> IF c \in Span(first, n) THEN [@[c] EXCEPT !.hidden = b] ELSE @[c]]]
(* A range is rejected when it is malformed; the first one at a position stays.  *)
SetMergeCellRange(sh, ref) ==
    IF ~ValidRange(ref) \/ \E m \in sh.merged : m.first = ref.first THEN sh
    ELSE [sh EXCEPT !.merged = @ \cup {ref}]
-----------------------------------------------------------------------------
(* import_formula: every get_formula() resets the object; commit() does not. *)
GetFormula(sh) ==
    [sh EXCEPT !.formula =
        IF FillMissing THEN [FreshFormula EXCEPT !.result = MissingResult] ELSE FreshFormula]

FormulaPosition(sh, p) == [sh EXCEPT !.formula.pos = p]
FormulaText(sh, text) ==
    IF sh.formula.pos = Nowhere THEN sh
    ELSE [sh EXCEPT !.formula.tokens = Tokens(text, sh.formula.pos)]
FormulaSharedIndex(sh, i) == [sh EXCEPT !.formula.shared = TRUE, !.formula.index = i]
FormulaResult(sh, v) == [sh EXCEPT !.formula.result = v]

AddLastShared(pool, i, tokens) == [pool EXCEPT ![i] = tokens]
(* The first formula with an index keeps it: shared_formula_pool::add().   *)
AddShared(pool, i, tokens) ==
    IF pool[i] = NoTokens THEN [pool EXCEPT ![i] = tokens] ELSE pool

CommitFormula(sh) ==
    LET f == sh.formula
        tokens == IF f.shared /\ f.tokens = NoTokens THEN sh.pool[f.index] ELSE f.tokens
    IN  IF f.pos = Nowhere \/ (f.shared /\ tokens = NoTokens) THEN sh
        ELSE [sh EXCEPT !.cells[f.pos] = Cell("formula", NoText, tokens, f.result),
                        !.pool = IF f.shared /\ f.tokens # NoTokens
                                 THEN AddShared(@, f.index, f.tokens) ELSE @]
-----------------------------------------------------------------------------
(* import_array_formula, and push_array_formula of spreadsheet_iface_util.cpp,  *)
(* which makes all its calls for one array formula.                        *)
GetArray(sh) == [sh EXCEPT !.array = FreshArray]
ArrayRange(sh, ref) ==
    IF ~ValidRange(ref) THEN [sh EXCEPT !.array.range = NoRectangle, !.array.results = << >>]
    ELSE LET r == ClampRange(ref) IN
         [sh EXCEPT !.array.range = r,
                    !.array.results = ResultsOf(r, IF FillMissing THEN MissingResult ELSE NoText)]
ArrayText(sh, text) == [sh EXCEPT !.array.tokens = Tokens(text, sh.array.range.first)]
ArrayResults(sh, results) ==
    IF sh.array.range = NoRectangle THEN sh
    ELSE [sh EXCEPT !.array.results =
            [o \in DOMAIN sh.array.results |->
                IF o \in DOMAIN results /\ results[o] # NoText THEN results[o]
                ELSE sh.array.results[o]]]
CommitArray(sh) ==
    LET a == sh.array
        grouped(p) == Cell("grouped", NoText, a.tokens, a.results[Offset(p, a.range)])
    IN  IF a.range = NoRectangle THEN sh
        ELSE [sh EXCEPT !.cells = [p \in Positions |->
                IF InRectangle(p, a.range) THEN grouped(p) ELSE sh.cells[p]]]

PushArrayFormula(sh, ref, text, results) ==
    CommitArray(ArrayResults(ArrayText(ArrayRange(sh, ref), text), results))
-----------------------------------------------------------------------------
(* import_shared_strings: the format set for a segment waits until the     *)
(* segment is appended; the segments of a string wait until it is          *)
(* committed.  A format is the set of its properties.                      *)
NewStrings == [fmt |-> {}, text |-> NoText, runs |-> << >>, table |-> << >>]

SetSegment(ss, props) == [ss EXCEPT !.fmt = @ \cup props]
AppendKeepingFormat(ss, text) ==
    [ss EXCEPT !.text = @ \o text,
               !.runs = Append(@, [pos |-> Len(ss.text), size |-> Len(text), fmt |-> ss.fmt])]
AppendSegment(ss, text) ==
    IF text = NoText THEN ss
    ELSE [ss EXCEPT !.text = @ \o text,
                    !.runs = IF ss.fmt = {} THEN @
                             ELSE Append(@, [pos |-> Len(ss.text), size |-> Len(text),
                                             fmt |-> ss.fmt]),
                    !.fmt = {}]
CommitKeepingRuns(ss) ==
    [ss EXCEPT !.table = Append(@, [text |-> ss.text, runs |-> ss.runs]), !.text = NoText]
CommitSegments(ss) ==
    [ss EXCEPT !.table = Append(@, [text |-> ss.text, runs |-> ss.runs]),
               !.text = NoText, !.runs = << >>]
(* append() makes a new string; add() gives the one there is.              *)
AppendString(ss, text) == [ss EXCEPT !.table = Append(@, [text |-> text, runs |-> << >>])]
HasString(ss, text) == \E i \in DOMAIN ss.table : ss.table[i].text = text
AddString(ss, text) == IF HasString(ss, text) THEN ss ELSE AppendString(ss, text)
StringId(ss, text) ==
    CHOOSE i \in DOMAIN ss.table :
        ss.table[i].text = text /\ \A j \in 1..i-1 : ss.table[j].text # text
-----------------------------------------------------------------------------
(* import_styles: one object for each kind of record, which start_*()      *)
(* resets and commit() appends to the store; its identifier is its index   *)
(* there.  A record is a function from the attributes that were set.       *)
Parts == {"font", "fill", "border", "protection", "numfmt"}
Categories == {"cell", "cell_style", "differential"}
Plain == << >>
PlainFormat == [font |-> 0, fill |-> 0, border |-> 0, protection |-> 0, numfmt |-> 0, style |-> 0,
                align |-> Plain, apply_border |-> FALSE, apply_alignment |-> FALSE]
PlainStyle == [name |-> NoText, xf |-> 0, parent |-> NoText]
NewStyles == [store |-> [p \in Parts |-> << >>], cur |-> [p \in Parts |-> Plain],
              xfs |-> [c \in Categories |-> << >>], xf |-> PlainFormat, category |-> "unknown",
              named |-> << >>, style |-> PlainStyle]

StartKeepingPart(st, part) == st
StartPart(st, part) == [st EXCEPT !.cur[part] = Plain]
SetPart(st, part, attr, v) == [st EXCEPT !.cur[part] = (attr :> v) @@ @]

(* A font that was committed before keeps its identifier, and the object   *)
(* what was set.                                                           *)
IsCached(st) == \E i \in DOMAIN st.store["font"] : st.store["font"][i] = st.cur["font"]
CachedFont(st) == (CHOOSE i \in DOMAIN st.store["font"] : st.store["font"][i] = st.cur["font"]) - 1
AppendPart(st, part) == [st EXCEPT !.store[part] = Append(@, st.cur[part]), !.cur[part] = Plain]
CommitPart(st, part) == IF part = "font" /\ IsCached(st) THEN st ELSE AppendPart(st, part)
IdOfCommit(st, part) == IF part = "font" /\ IsCached(st) THEN CachedFont(st) ELSE Len(st.store[part])
RecordOf(st, part, id) == IF id < Len(st.store[part]) THEN st.store[part][id + 1] ELSE Plain

(* import_xf: one object for all categories; commit() keeps the category.  *)
StartFormat(st, cat) == [st EXCEPT !.xf = PlainFormat, !.category = cat]
SetFormatPart(st, part, id) ==
    [st EXCEPT !.xf[part] = id, !.xf.apply_border = IF part = "border" THEN id > 0 ELSE @]
CommitFormat(st) == [st EXCEPT !.xfs[st.category] = Append(@, st.xf), !.xf = PlainFormat]
IdOfFormat(st) == Len(st.xfs[st.category])

(* What a filter does for a record it has in full: start, set, commit, and *)
(* set it in the format.                                                   *)
WithPart(st, part, rec) == [StartPart(st, part) EXCEPT !.cur[part] = rec]
AddPart(st, part, rec) == CommitPart(WithPart(st, part, rec), part)
PutPart(st, part, rec) ==
    SetFormatPart(AddPart(st, part, rec), part, IdOfCommit(WithPart(st, part, rec), part))

StartStyleOf(st) == [st EXCEPT !.style = PlainStyle]
CommitStyle(st) == [st EXCEPT !.named = Append(@, st.style), !.style = PlainStyle]

(* finalize_import(): the style of a format is the last one that has it.   *)
StylesOf(st, id) == {i \in DOMAIN st.named : st.named[i].xf = id}
StyleByFormat(st, id) == CHOOSE i \in StylesOf(st, id) : \A j \in StylesOf(st, id) : j <= i
=============================================================================
