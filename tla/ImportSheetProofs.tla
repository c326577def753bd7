------------------------- MODULE ImportSheetProofs -------------------------
(***************************************************************************)
(* Proofs about the calls of ImportSheet, and about the steps of the       *)
(* filters of CellImport that make them: a call of the document keeps a    *)
(* sheet whose cells refer to known strings and whose formulas have        *)
(* expressions (SheetOK), and strings whose runs are in their texts and in *)
(* order (StringsOK), and so does every step of a filter.  The filters'    *)
(* own instances of the calls are those of the document (the lemmas called *)
(* ...Calls); what a step does by a loop is an instance of Folding.        *)
(***************************************************************************)
EXTENDS CellImport, SequenceTheorems, NaturalsInduction, WellFoundedInduction, TLAPS

----------------------------------------------------------------------------
(* The calls on the document.                                              *)

\* A sheet is a record of its parts, and so is a formula.
IsSheet(sh) ==
    /\ sh = [cells |-> sh.cells, xf |-> sh.xf, rows |-> sh.rows, cols |-> sh.cols, merged |-> sh.merged,
             pool |-> sh.pool, formula |-> sh.formula, array |-> sh.array]
    /\ sh.cells = [p \in Positions |-> sh.cells[p]]
    /\ sh.xf = [p \in Positions |-> sh.xf[p]]
    /\ sh.formula = [pos |-> sh.formula.pos, tokens |-> sh.formula.tokens, result |-> sh.formula.result,
                     shared |-> sh.formula.shared, index |-> sh.formula.index]
    /\ sh.array = [range |-> sh.array.range, tokens |-> sh.array.tokens, results |-> sh.array.results]

\* What a call leaves as it is.
SameCells(sh, t) == t.cells = sh.cells /\ t.merged = sh.merged /\ t.pool = sh.pool
SameObjects(sh, t) == t.formula = sh.formula /\ t.array = sh.array
LinesOnly(sh, t) == IsSheet(t) /\ SameCells(sh, t) /\ SameObjects(sh, t) /\ t.xf = sh.xf

LEMMA NewSheetIsSheet ==
    /\ IsSheet(NewSheet) /\ NewSheet.merged = {}
    /\ \A p \in Positions : NewSheet.cells[p] = EmptyCell /\ NewSheet.xf[p] = 0
BY DEF NewSheet, IsSheet, FreshFormula, FreshArray

LEMMA LineCalls ==
    ASSUME NEW sh, IsSheet(sh)
    PROVE  /\ \A r, v : /\ LinesOnly(sh, SetRowFormat(sh, r, v))
                        /\ LinesOnly(sh, SetRowHeight(sh, r, v))
                        /\ LinesOnly(sh, SetRowHidden(sh, r, v))
           /\ \A c, n, v : /\ LinesOnly(sh, SetColumnFormat(sh, c, n, v))
                           /\ LinesOnly(sh, SetColumnWidth(sh, c, n, v))
                           /\ LinesOnly(sh, SetColumnHidden(sh, c, n, v))
<1> USE DEF LinesOnly, SameCells, SameObjects, IsSheet
<1>1. ASSUME NEW r, NEW v PROVE LinesOnly(sh, SetRowFormat(sh, r, v))
  BY DEF SetRowFormat
<1>2. ASSUME NEW r, NEW v PROVE LinesOnly(sh, SetRowHeight(sh, r, v))
  BY DEF SetRowHeight
<1>3. ASSUME NEW r, NEW v PROVE LinesOnly(sh, SetRowHidden(sh, r, v))
  BY DEF SetRowHidden
<1>4. ASSUME NEW c, NEW n, NEW v PROVE LinesOnly(sh, SetColumnFormat(sh, c, n, v))
  BY DEF SetColumnFormat
<1>5. ASSUME NEW c, NEW n, NEW v PROVE LinesOnly(sh, SetColumnWidth(sh, c, n, v))
  BY DEF SetColumnWidth
<1>6. ASSUME NEW c, NEW n, NEW v PROVE LinesOnly(sh, SetColumnHidden(sh, c, n, v))
  BY DEF SetColumnHidden
<1> HIDE DEF LinesOnly
<1> QED BY <1>1, <1>2, <1>3, <1>4, <1>5, <1>6

LEMMA CellCalls ==
    ASSUME NEW sh, IsSheet(sh), NEW p, NEW c
    PROVE  LET t == SetCell(sh, p, c) IN
           /\ IsSheet(t) /\ SameObjects(sh, t) /\ t.xf = sh.xf /\ t.merged = sh.merged /\ t.pool = sh.pool
           /\ t.cells = [sh.cells EXCEPT ![p] = c]
BY DEF SetCell, IsSheet, SameObjects

LEMMA FormatCalls ==
    ASSUME NEW sh, IsSheet(sh), NEW ref, NEW id
    PROVE  LET t == SetFormat(sh, ref, id) IN
           /\ IsSheet(t) /\ SameObjects(sh, t) /\ SameCells(sh, t)
           /\ \A p \in Positions : t.xf[p] = IF InRectangle(p, ref) THEN id ELSE sh.xf[p]
BY DEF SetFormat, IsSheet, SameObjects, SameCells

LEMMA MergeCalls ==
    ASSUME NEW sh, IsSheet(sh), NEW ref
    PROVE  LET t == SetMergeCellRange(sh, ref) IN
           /\ IsSheet(t) /\ SameObjects(sh, t) /\ t.xf = sh.xf /\ t.cells = sh.cells /\ t.pool = sh.pool
           /\ (~ValidRange(ref) \/ \E m \in sh.merged : m.first = ref.first) => t.merged = sh.merged
           /\ (ValidRange(ref) /\ \A m \in sh.merged : m.first # ref.first) => t.merged = sh.merged \cup {ref}
BY DEF SetMergeCellRange, IsSheet, SameObjects

FormulaOnly(sh, t) == IsSheet(t) /\ SameCells(sh, t) /\ t.xf = sh.xf /\ t.array = sh.array
LEMMA WithFormula ==
    ASSUME NEW sh, IsSheet(sh), NEW pos, NEW tokens, NEW result, NEW shared, NEW index
    PROVE  LET f == [pos |-> pos, tokens |-> tokens, result |-> result, shared |-> shared, index |-> index]
               t == [sh EXCEPT !.formula = f]
           IN  FormulaOnly(sh, t) /\ t.formula = f
<1> DEFINE f == [pos |-> pos, tokens |-> tokens, result |-> result, shared |-> shared, index |-> index]
           t == [sh EXCEPT !.formula = f]
<1>1. f = [pos |-> f.pos, tokens |-> f.tokens, result |-> f.result, shared |-> f.shared, index |-> f.index]
  OBVIOUS
<1> HIDE DEF f
<1> QED BY <1>1 DEF FormulaOnly, SameCells, IsSheet

LEMMA GetFormulaCall ==
    ASSUME NEW sh, IsSheet(sh)
    PROVE  LET t == GetFormula(sh) IN
           /\ FormulaOnly(sh, t) /\ t.formula.pos = Nowhere /\ t.formula.tokens = NoTokens
           /\ t.formula.shared = FALSE
           /\ t.formula.result = IF FillMissing THEN MissingResult ELSE NoText
<1> DEFINE missing == IF FillMissing THEN MissingResult ELSE NoText
           no == FALSE
           fresh == [pos |-> Nowhere, tokens |-> NoTokens, result |-> NoText, shared |-> no, index |-> 0]
           f == [pos |-> Nowhere, tokens |-> NoTokens, result |-> missing, shared |-> no, index |-> 0]
           g == IF FillMissing THEN [FreshFormula EXCEPT !.result = MissingResult] ELSE FreshFormula
<1>1. FreshFormula = fresh
  BY DEF FreshFormula
<1> HIDE DEF no
<1>2. GetFormula(sh) = [sh EXCEPT !.formula = g]
  BY DEF GetFormula
<1>3. g = f
  <2>1. CASE FillMissing
    <3>1. g = [fresh EXCEPT !.result = MissingResult] /\ missing = MissingResult
      BY <1>1, <2>1
    <3> HIDE DEF g, missing
    <3> QED BY <3>1
  <2>2. CASE ~FillMissing
    <3>1. g = fresh /\ missing = NoText
      BY <1>1, <2>2
    <3> HIDE DEF g, missing
    <3> QED BY <3>1
  <2> QED BY <2>1, <2>2
<1> HIDE DEF missing, g
<1>4. FormulaOnly(sh, GetFormula(sh)) /\ GetFormula(sh).formula = f
  BY <1>2, <1>3, WithFormula
<1>5. /\ f.pos = Nowhere /\ f.tokens = NoTokens /\ f.shared = no /\ f.result = missing
  OBVIOUS
<1> HIDE DEF f
<1> QED BY <1>4, <1>5 DEF no, missing

LEMMA PositionCall ==
    ASSUME NEW sh, IsSheet(sh), NEW p
    PROVE  LET t == FormulaPosition(sh, p) IN
           /\ FormulaOnly(sh, t) /\ t.formula.pos = p /\ t.formula.tokens = sh.formula.tokens
           /\ t.formula.shared = sh.formula.shared /\ t.formula.result = sh.formula.result
BY DEF FormulaPosition, FormulaOnly, SameCells, IsSheet

LEMMA TextCall ==
    ASSUME NEW sh, IsSheet(sh), NEW x
    PROVE  LET t == FormulaText(sh, x) IN
           /\ FormulaOnly(sh, t) /\ t.formula.pos = sh.formula.pos
           /\ t.formula.tokens = IF sh.formula.pos = Nowhere THEN sh.formula.tokens
                                 ELSE Tokens(x, sh.formula.pos)
           /\ t.formula.shared = sh.formula.shared /\ t.formula.result = sh.formula.result
BY DEF FormulaText, FormulaOnly, SameCells, IsSheet

LEMMA IndexCall ==
    ASSUME NEW sh, IsSheet(sh), NEW i
    PROVE  LET t == FormulaSharedIndex(sh, i) IN
           /\ FormulaOnly(sh, t) /\ t.formula.pos = sh.formula.pos
           /\ t.formula.tokens = sh.formula.tokens /\ t.formula.shared = TRUE
           /\ t.formula.index = i /\ t.formula.result = sh.formula.result
<1> DEFINE yes == TRUE
           f == [pos |-> sh.formula.pos, tokens |-> sh.formula.tokens, result |-> sh.formula.result,
                 shared |-> yes, index |-> i]
           g == [sh.formula EXCEPT !.shared = yes]
           u == [sh EXCEPT !.formula.shared = yes]
<1>1. FormulaSharedIndex(sh, i) = [u EXCEPT !.formula.index = i]
  BY DEF FormulaSharedIndex
<1> HIDE DEF yes
<1>2. u = [sh EXCEPT !.formula = g] /\ u.formula = g
  BY DEF IsSheet
<1>3. f = [g EXCEPT !.index = i]
  <2> DEFINE old == sh.formula
  <2>1. old = [pos |-> old.pos, tokens |-> old.tokens, result |-> old.result, shared |-> old.shared,
               index |-> old.index]
    BY DEF IsSheet
  <2>2. f = [pos |-> old.pos, tokens |-> old.tokens, result |-> old.result, shared |-> yes, index |-> i]
        /\ g = [old EXCEPT !.shared = yes]
    OBVIOUS
  <2> HIDE DEF old, f, g
  <2>3. g = [pos |-> old.pos, tokens |-> old.tokens, result |-> old.result, shared |-> yes, index |-> old.index]
    BY <2>1, <2>2
  <2>4. ASSUME NEW a, NEW b, NEW c, NEW d, NEW e
        PROVE  [[pos |-> a, tokens |-> b, result |-> c, shared |-> d, index |-> e] EXCEPT !.index = i]
               = [pos |-> a, tokens |-> b, result |-> c, shared |-> d, index |-> i]
    OBVIOUS
  <2>5. f = [pos |-> old.pos, tokens |-> old.tokens, result |-> old.result, shared |-> yes, index |-> i]
    BY <2>2
  <2> QED BY ONLY <2>3, <2>4, <2>5
<1> HIDE DEF g, u, f
<1>4. [u EXCEPT !.formula.index = i] = [u EXCEPT !.formula = f]
  BY <1>2, <1>3
<1>5. [u EXCEPT !.formula = f] = [sh EXCEPT !.formula = f]
  BY <1>2 DEF IsSheet
<1>6. FormulaSharedIndex(sh, i) = [sh EXCEPT !.formula = f]
  BY <1>1, <1>4, <1>5
<1>7. FormulaOnly(sh, FormulaSharedIndex(sh, i)) /\ FormulaSharedIndex(sh, i).formula = f
  BY <1>6, WithFormula DEF f
<1>8. /\ f.pos = sh.formula.pos /\ f.tokens = sh.formula.tokens /\ f.shared = yes
      /\ f.index = i /\ f.result = sh.formula.result
  BY DEF f
<1> QED BY <1>7, <1>8 DEF yes

LEMMA ResultCall ==
    ASSUME NEW sh, IsSheet(sh), NEW v
    PROVE  LET t == FormulaResult(sh, v) IN
           /\ FormulaOnly(sh, t) /\ t.formula.pos = sh.formula.pos
           /\ t.formula.tokens = sh.formula.tokens /\ t.formula.shared = sh.formula.shared
           /\ t.formula.index = sh.formula.index /\ t.formula.result = v
BY DEF FormulaResult, FormulaOnly, SameCells, IsSheet

\* A commit without an expression, or without a place, does nothing.
LEMMA CommitCall ==
    ASSUME NEW sh, IsSheet(sh), sh.formula.shared \in BOOLEAN
    PROVE  LET f == sh.formula
               t == CommitFormula(sh)
               tokens == IF f.shared /\ f.tokens = NoTokens THEN sh.pool[f.index] ELSE f.tokens
           IN
           /\ IsSheet(t) /\ SameObjects(sh, t) /\ t.xf = sh.xf /\ t.merged = sh.merged
           /\ IF f.pos = Nowhere \/ (f.shared /\ tokens = NoTokens)
              THEN t.cells = sh.cells /\ t.pool = sh.pool
              ELSE /\ t.cells = [sh.cells EXCEPT ![f.pos] = Cell("formula", NoText, tokens, f.result)]
                   /\ t.pool = IF f.shared /\ f.tokens # NoTokens
                               THEN AddShared(sh.pool, f.index, f.tokens) ELSE sh.pool
<1> DEFINE f == sh.formula
           t == CommitFormula(sh)
           tokens == IF f.shared /\ f.tokens = NoTokens THEN sh.pool[f.index] ELSE f.tokens
           none == f.pos = Nowhere \/ (f.shared /\ tokens = NoTokens)
           cell == Cell("formula", NoText, tokens, f.result)
           pool == IF f.shared /\ f.tokens # NoTokens THEN AddShared(sh.pool, f.index, f.tokens) ELSE sh.pool
<1>1. t = IF none THEN sh ELSE [sh EXCEPT !.cells[f.pos] = cell, !.pool = pool]
  BY DEF CommitFormula
<1> HIDE DEF none, cell, pool, t
<1>2. CASE none
  <2>1. t = sh
    BY <1>1, <1>2
  <2>2. IsSheet(t) /\ SameObjects(sh, t) /\ t.xf = sh.xf /\ t.merged = sh.merged
        /\ t.cells = sh.cells /\ t.pool = sh.pool
    BY <2>1 DEF SameObjects
  <2> QED BY <1>2, <2>2 DEF none, t
<1>3. CASE ~none
  <2> DEFINE filled == [sh.cells EXCEPT ![f.pos] = cell]
             u == [sh EXCEPT !.cells = filled, !.pool = pool]
  <2>1. t = u
    BY <1>1, <1>3 DEF IsSheet
  <2>4. filled = [p \in Positions |-> filled[p]]
    BY DEF IsSheet
  <2>5. filled = [sh.cells EXCEPT ![f.pos] = cell]
    OBVIOUS
  <2> HIDE DEF filled
  <2>2. u.cells = [sh.cells EXCEPT ![f.pos] = cell] /\ u.pool = pool
    BY <2>5 DEF IsSheet
  <2>6. SameObjects(sh, u) /\ u.xf = sh.xf /\ u.merged = sh.merged /\ u.rows = sh.rows /\ u.cols = sh.cols
    BY DEF IsSheet, SameObjects
  <2>7. u = [cells |-> u.cells, xf |-> u.xf, rows |-> u.rows, cols |-> u.cols, merged |-> u.merged,
             pool |-> u.pool, formula |-> u.formula, array |-> u.array]
    <3> DEFINE v == [sh EXCEPT !.cells = filled]
    <3>1. v = [cells |-> filled, xf |-> sh.xf, rows |-> sh.rows, cols |-> sh.cols, merged |-> sh.merged,
               pool |-> sh.pool, formula |-> sh.formula, array |-> sh.array]
      BY DEF IsSheet
    <3>2. u = [v EXCEPT !.pool = pool]
      OBVIOUS
    <3> HIDE DEF u, v
    <3> QED BY <3>1, <3>2
  <2>9. u.cells = filled
    BY DEF IsSheet
  <2> HIDE DEF u
  <2>8. u.cells = [p \in Positions |-> u.cells[p]]
    BY <2>4, <2>9
  <2>3. IsSheet(u) /\ SameObjects(sh, u) /\ u.xf = sh.xf /\ u.merged = sh.merged
    BY <2>6, <2>7, <2>8 DEF IsSheet, SameObjects
  <2> HIDE DEF u
  <2> QED BY <1>3, <2>1, <2>2, <2>3 DEF none, t, cell, pool
<1> QED BY <1>2, <1>3

ArrayOnly(sh, t) == IsSheet(t) /\ SameCells(sh, t) /\ t.xf = sh.xf /\ t.formula = sh.formula
LEMMA GetArrayCall ==
    ASSUME NEW sh, IsSheet(sh)
    PROVE  ArrayOnly(sh, GetArray(sh)) /\ GetArray(sh).array = FreshArray
BY DEF GetArray, FreshArray, ArrayOnly, SameCells, IsSheet

LEMMA ClampKeepsFirst ==
    \A ref : ClampRange(ref).first = ref.first
BY DEF ClampRange, Rectangle

\* The formula of a range goes to the cells of the range as far as the
\* sheet has them, each with its own result; one with a bad range to none.
LEMMA ArrayCalls ==
    ASSUME NEW sh, IsSheet(sh), NEW ref, NEW text, NEW results
    PROVE  LET r == ClampRange(ref)
               missing == IF FillMissing THEN MissingResult ELSE NoText
               t == PushArrayFormula(sh, ref, text, results)
           IN
           /\ IsSheet(t) /\ t.xf = sh.xf /\ t.merged = sh.merged /\ t.pool = sh.pool /\ t.formula = sh.formula
           /\ ~ValidRange(ref) => t.cells = sh.cells
           /\ ValidRange(ref) => \A p \in Positions :
                 IF ~InRectangle(p, r) THEN t.cells[p] = sh.cells[p]
                 ELSE /\ t.cells[p].kind = "grouped" /\ t.cells[p].tokens = Tokens(text, ref.first)
                      /\ Offset(p, r) \in Offsets(r) =>
                            t.cells[p].result = IF Offset(p, r) \in DOMAIN results /\ results[Offset(p, r)] # NoText
                                                THEN results[Offset(p, r)] ELSE missing
<1> DEFINE r == ClampRange(ref)
           missing == IF FillMissing THEN MissingResult ELSE NoText
           a == ArrayRange(sh, ref)
           b == ArrayText(a, text)
           c == ArrayResults(b, results)
           t == CommitArray(c)
<1>1. PushArrayFormula(sh, ref, text, results) = t
  BY DEF PushArrayFormula
<1>2. CASE ~ValidRange(ref)
  <2>1. ArrayOnly(sh, a) /\ a.array.range = NoRectangle
    BY Zenon, <1>2 DEF ArrayRange, ArrayOnly, SameCells, IsSheet
  <2> HIDE DEF a
  <2>2. ArrayOnly(sh, b) /\ b.array.range = NoRectangle
    BY <2>1 DEF ArrayText, ArrayOnly, SameCells, IsSheet
  <2> HIDE DEF b
  <2>3. c = b
    BY <2>2 DEF ArrayResults
  <2> HIDE DEF c
  <2>4. t = b
    BY <2>2, <2>3 DEF CommitArray
  <2>5. IsSheet(t) /\ t.cells = sh.cells /\ t.xf = sh.xf /\ t.merged = sh.merged /\ t.pool = sh.pool
        /\ t.formula = sh.formula
    BY <2>2, <2>4 DEF ArrayOnly, SameCells
  <2> HIDE DEF t
  <2> QED BY <1>1, <1>2, <2>5
<1>3. CASE ValidRange(ref)
  <2>1. r.first = ref.first /\ r.first \in Positions /\ r.first # Nowhere /\ r # NoRectangle
    BY <1>3, ClampKeepsFirst, SheetAssumption DEF ValidRange, Positions, Nowhere, NoRectangle, Rectangle
  <2> HIDE DEF r
  <2>2. ArrayOnly(sh, a) /\ a.array.range = r /\ a.array.results = ResultsOf(r, missing)
    BY <1>3 DEF ArrayRange, ArrayOnly, SameCells, IsSheet, r
  <2> HIDE DEF a
  <2>3. ArrayOnly(sh, b) /\ b.array.range = r /\ b.array.results = ResultsOf(r, missing)
        /\ b.array.tokens = Tokens(text, ref.first)
    BY <2>1, <2>2 DEF ArrayText, ArrayOnly, SameCells, IsSheet
  <2> HIDE DEF b
  <2> DEFINE merged == [o \in Offsets(r) |-> IF o \in DOMAIN results /\ results[o] # NoText
                                             THEN results[o] ELSE missing]
  <2>4. ArrayOnly(sh, c) /\ c.array.range = r /\ c.array.results = merged
        /\ c.array.tokens = Tokens(text, ref.first)
    <3>1. DOMAIN b.array.results = Offsets(r) /\ \A o \in Offsets(r) : b.array.results[o] = missing
      BY <2>3 DEF ResultsOf
    <3> DEFINE given == [o \in DOMAIN b.array.results |->
                            IF o \in DOMAIN results /\ results[o] # NoText THEN results[o]
                            ELSE b.array.results[o]]
    <3>2. given = merged
      BY <3>1
    <3>3. c = [b EXCEPT !.array.results = given]
      BY <2>1, <2>3 DEF ArrayResults
    <3> HIDE DEF given, merged, c
    <3> QED BY <2>3, <3>2, <3>3 DEF ArrayOnly, SameCells, IsSheet
  <2> HIDE DEF c
  <2> DEFINE grouped(p) == Cell("grouped", NoText, c.array.tokens, c.array.results[Offset(p, c.array.range)])
             filled == [p \in Positions |-> IF InRectangle(p, c.array.range) THEN grouped(p) ELSE c.cells[p]]
  <2>5. t = [c EXCEPT !.cells = filled]
    BY <2>1, <2>4 DEF CommitArray
  <2>6. filled = [p \in Positions |-> filled[p]]
    OBVIOUS
  <2>7. \A p \in Positions : filled[p] = IF InRectangle(p, r) THEN grouped(p) ELSE c.cells[p]
    BY <2>4
  <2> HIDE DEF filled
  <2>8. IsSheet(t) /\ t.xf = sh.xf /\ t.merged = sh.merged /\ t.pool = sh.pool /\ t.formula = sh.formula
        /\ t.cells = filled
    BY <2>4, <2>5, <2>6 DEF ArrayOnly, SameCells, IsSheet
  <2>9. ASSUME NEW p \in Positions
        PROVE  IF ~InRectangle(p, r) THEN t.cells[p] = sh.cells[p]
               ELSE /\ t.cells[p].kind = "grouped" /\ t.cells[p].tokens = Tokens(text, ref.first)
                    /\ Offset(p, r) \in Offsets(r) =>
                          t.cells[p].result = IF Offset(p, r) \in DOMAIN results /\ results[Offset(p, r)] # NoText
                                              THEN results[Offset(p, r)] ELSE missing
    <3>1. CASE ~InRectangle(p, r)
      BY <2>4, <2>7, <2>8, <3>1 DEF ArrayOnly, SameCells
    <3>2. CASE InRectangle(p, r)
      <4>1. t.cells[p] = Cell("grouped", NoText, Tokens(text, ref.first), c.array.results[Offset(p, r)])
        BY <2>4, <2>7, <2>8, <3>2
      <4>2. Offset(p, r) \in Offsets(r) => c.array.results[Offset(p, r)] =
               IF Offset(p, r) \in DOMAIN results /\ results[Offset(p, r)] # NoText
               THEN results[Offset(p, r)] ELSE missing
        BY <2>4
      <4> HIDE DEF t
      <4> QED BY <3>2, <4>1, <4>2 DEF Cell
    <3> QED BY <3>1, <3>2
  <2> HIDE DEF t
  <2> QED BY <1>1, <1>3, <2>8, <2>9 DEF r
<1> QED BY <1>2, <1>3
----------------------------------------------------------------------------
(* The shared strings.                                                     *)

\* A sequence, of whatever elements.
IsSeq(s) == \E S : s \in Seq(S)

LEMMA SeqBasics ==
    ASSUME NEW s, IsSeq(s)
    PROVE  Len(s) \in Nat /\ DOMAIN s = 1 .. Len(s)
BY DEF IsSeq

LEMMA SeqAppend ==
    ASSUME NEW s, IsSeq(s), NEW x
    PROVE  /\ IsSeq(Append(s, x)) /\ Len(Append(s, x)) = Len(s) + 1
           /\ DOMAIN Append(s, x) = 1 .. Len(s) + 1
           /\ \A k \in 1 .. Len(s) : Append(s, x)[k] = s[k]
           /\ Append(s, x)[Len(s) + 1] = x
<1>1. PICK S : s \in Seq(S)
  BY DEF IsSeq
<1>2. s \in Seq(S \cup {x}) /\ x \in S \cup {x}
  BY <1>1
<1>3. Append(s, x) \in Seq(S \cup {x})
  BY <1>2
<1> QED BY <1>2, <1>3, AppendProperties DEF IsSeq

LEMMA SeqConcat ==
    ASSUME NEW s, NEW t, IsSeq(s), IsSeq(t)
    PROVE  IsSeq(s \o t) /\ Len(s \o t) = Len(s) + Len(t)
<1>1. PICK S : s \in Seq(S)
  BY DEF IsSeq
<1>2. PICK T : t \in Seq(T)
  BY DEF IsSeq
<1>3. s \in Seq(S \cup T) /\ t \in Seq(S \cup T)
  BY <1>1, <1>2
<1>4. s \o t \in Seq(S \cup T) /\ Len(s \o t) = Len(s) + Len(t)
  BY <1>3, ConcatProperties
<1> QED BY <1>4 DEF IsSeq

LEMMA SeqEmpty ==
    IsSeq(<< >>) /\ Len(<< >>) = 0 /\ DOMAIN << >> = {}
<1>1. << >> \in Seq({})
  OBVIOUS
<1> QED BY <1>1 DEF IsSeq

\* The runs of a text are in it, one after the other.
RunsOK(runs, text) ==
    /\ IsSeq(runs)
    /\ \A k \in DOMAIN runs :
          /\ runs[k].pos \in Nat /\ runs[k].size \in Nat
          /\ runs[k].pos + runs[k].size <= Len(text)
          /\ k > 1 => runs[k - 1].pos + runs[k - 1].size <= runs[k].pos

StringsOK(ss) ==
    /\ ss = [fmt |-> ss.fmt, text |-> ss.text, runs |-> ss.runs, table |-> ss.table]
    /\ IsSeq(ss.text) /\ RunsOK(ss.runs, ss.text) /\ IsSeq(ss.table)
    /\ \A i \in DOMAIN ss.table : IsSeq(ss.table[i].text) /\ RunsOK(ss.table[i].runs, ss.table[i].text)

\* A string that is in the table stays there.
Grew(ss, tt) ==
    /\ Len(ss.table) <= Len(tt.table)
    /\ \A i \in DOMAIN ss.table : i \in DOMAIN tt.table /\ tt.table[i] = ss.table[i]

LEMMA NewStringsAreOK ==
    StringsOK(NewStrings)
BY SeqEmpty DEF NewStrings, StringsOK, RunsOK, NoText

LEMMA RunsAppend ==
    ASSUME NEW runs, NEW text, NEW more, NEW fmt, IsSeq(text), IsSeq(more), RunsOK(runs, text)
    PROVE  /\ RunsOK(runs, text \o more)
           /\ RunsOK(Append(runs, [pos |-> Len(text), size |-> Len(more), fmt |-> fmt]), text \o more)
<1> DEFINE run == [pos |-> Len(text), size |-> Len(more), fmt |-> fmt]
           all == Append(runs, run)
<1>1. Len(text) \in Nat /\ Len(more) \in Nat /\ Len(text \o more) = Len(text) + Len(more) /\ IsSeq(text \o more)
  BY SeqBasics, SeqConcat
<1>2. RunsOK(runs, text \o more)
  BY <1>1 DEF RunsOK
<1>3. /\ IsSeq(runs) /\ Len(runs) \in Nat /\ DOMAIN runs = 1 .. Len(runs)
      /\ IsSeq(all) /\ DOMAIN all = 1 .. Len(runs) + 1
      /\ \A k \in 1 .. Len(runs) : all[k] = runs[k]
      /\ all[Len(runs) + 1] = run
  BY SeqBasics, SeqAppend DEF RunsOK
<1>4. run.pos = Len(text) /\ run.size = Len(more)
  OBVIOUS
<1> HIDE DEF run, all
<1>5. PICK n \in Nat : n = Len(runs)
  BY Zenon, <1>3
<1>6. PICK m \in Nat, l \in Nat, w \in Nat : m = Len(text) /\ l = Len(more) /\ w = Len(text \o more) /\ w = m + l
  BY <1>1
<1>7. ASSUME NEW k \in DOMAIN all
      PROVE  /\ all[k].pos \in Nat /\ all[k].size \in Nat
             /\ all[k].pos + all[k].size <= Len(text \o more)
             /\ k > 1 => all[k - 1].pos + all[k - 1].size <= all[k].pos
  <2>1. CASE k \in 1 .. n
    <3>1. all[k] = runs[k] /\ (k > 1 => k - 1 \in 1 .. n /\ all[k - 1] = runs[k - 1])
      BY <1>3, <1>5, <2>1
    <3>2. /\ runs[k].pos \in Nat /\ runs[k].size \in Nat /\ runs[k].pos + runs[k].size <= Len(text \o more)
          /\ k > 1 => runs[k - 1].pos + runs[k - 1].size <= runs[k].pos
      BY <1>2, <1>3, <1>5, <2>1 DEF RunsOK
    <3> QED BY <3>1, <3>2
  <2>2. CASE k = n + 1
    <3>1. all[k] = run
      BY <1>3, <1>5, <2>2
    <3>2. all[k].pos = m /\ all[k].size = l
      BY <1>4, <1>6, <3>1
    <3>3. k > 1 => k - 1 \in 1 .. n /\ k - 1 \in DOMAIN runs
      BY <1>3, <1>5, <2>2
    <3>4. k > 1 => all[k - 1] = runs[k - 1]
      BY <1>3, <1>5, <3>3
    <3>5. k > 1 => runs[k - 1].pos + runs[k - 1].size <= m
      BY <1>6, <3>3 DEF RunsOK
    <3>6. m + l <= w
      BY <1>6
    <3> QED BY <1>6, <3>2, <3>4, <3>5, <3>6
  <2> QED BY <1>3, <1>5, <2>1, <2>2
<1>8. RunsOK(all, text \o more)
  BY <1>3, <1>7 DEF RunsOK
<1> QED BY <1>2, <1>8 DEF all, run

LEMMA SetSegmentCall ==
    ASSUME NEW ss, StringsOK(ss), NEW props
    PROVE  LET tt == SetSegment(ss, props) IN
           /\ StringsOK(tt) /\ tt.table = ss.table /\ tt.text = ss.text /\ tt.runs = ss.runs
           /\ tt.fmt = ss.fmt \cup props
<1> DEFINE tt == SetSegment(ss, props)
           fmt == ss.fmt \cup props
<1>1. ss = [fmt |-> ss.fmt, text |-> ss.text, runs |-> ss.runs, table |-> ss.table]
  BY DEF StringsOK
<1>2. tt = [ss EXCEPT !.fmt = fmt]
  BY DEF SetSegment
<1> HIDE DEF tt, fmt
<1>3. tt = [fmt |-> fmt, text |-> ss.text, runs |-> ss.runs, table |-> ss.table]
  BY <1>1, <1>2
<1>4. StringsOK(tt)
  BY <1>3 DEF StringsOK
<1> QED BY <1>3, <1>4 DEF tt, fmt

LEMMA AppendSegmentCall ==
    ASSUME NEW ss, StringsOK(ss), NEW text, IsSeq(text)
    PROVE  LET tt == AppendSegment(ss, text) IN
           StringsOK(tt) /\ tt.table = ss.table
<1> DEFINE tt == AppendSegment(ss, text)
           run == [pos |-> Len(ss.text), size |-> Len(text), fmt |-> ss.fmt]
           runs == IF ss.fmt = {} THEN ss.runs ELSE Append(ss.runs, run)
           joined == ss.text \o text
<1>1. CASE text = NoText
  BY <1>1 DEF AppendSegment
<1>2. CASE text # NoText
  <2>1. tt = [ss EXCEPT !.text = joined, !.runs = runs, !.fmt = {}]
    BY <1>2 DEF AppendSegment
  <2>2. RunsOK(runs, joined)
    <3>1. RunsOK(ss.runs, joined) /\ RunsOK(Append(ss.runs, run), joined)
      BY RunsAppend DEF StringsOK
    <3> HIDE DEF run, joined
    <3> QED BY <3>1
  <2>3. IsSeq(joined)
    BY SeqConcat DEF StringsOK
  <2> HIDE DEF runs, joined, tt
  <2>4. tt = [fmt |-> {}, text |-> joined, runs |-> runs, table |-> ss.table]
    BY <2>1 DEF StringsOK
  <2> QED BY <2>2, <2>3, <2>4 DEF StringsOK, tt
<1> QED BY <1>1, <1>2

\* What comes to the end of the table.
LEMMA TableAppend ==
    ASSUME NEW ss, StringsOK(ss), NEW tt, NEW text, NEW runs, IsSeq(text), RunsOK(runs, text),
           tt = [fmt |-> tt.fmt, text |-> tt.text, runs |-> tt.runs, table |-> tt.table],
           tt.table = Append(ss.table, [text |-> text, runs |-> runs]),
           IsSeq(tt.text), RunsOK(tt.runs, tt.text)
    PROVE  /\ StringsOK(tt) /\ Grew(ss, tt) /\ Len(tt.table) = Len(ss.table) + 1
           /\ Len(tt.table) \in DOMAIN tt.table
           /\ tt.table[Len(tt.table)] = [text |-> text, runs |-> runs]
<1> DEFINE x == [text |-> text, runs |-> runs]
<1>1. x.text = text /\ x.runs = runs
  OBVIOUS
<1> HIDE DEF x
<1>2. /\ IsSeq(ss.table) /\ Len(ss.table) \in Nat /\ DOMAIN ss.table = 1 .. Len(ss.table)
      /\ IsSeq(tt.table) /\ Len(tt.table) = Len(ss.table) + 1 /\ DOMAIN tt.table = 1 .. Len(ss.table) + 1
      /\ \A k \in 1 .. Len(ss.table) : tt.table[k] = ss.table[k]
      /\ tt.table[Len(ss.table) + 1] = x
  BY SeqAppend, SeqBasics DEF StringsOK, x
<1>3. PICK n \in Nat : n = Len(ss.table)
  BY <1>2
<1>4. Grew(ss, tt)
  BY <1>2, <1>3 DEF Grew
<1>5. ASSUME NEW i \in DOMAIN tt.table
      PROVE  IsSeq(tt.table[i].text) /\ RunsOK(tt.table[i].runs, tt.table[i].text)
  <2>1. CASE i \in 1 .. n
    <3>1. i \in DOMAIN ss.table /\ tt.table[i] = ss.table[i]
      BY <1>2, <1>3, <2>1
    <3> QED BY <3>1 DEF StringsOK
  <2>2. CASE i = n + 1
    BY <1>1, <1>2, <1>3, <2>2
  <2> QED BY <1>2, <1>3, <2>1, <2>2
<1>6. StringsOK(tt)
  BY <1>2, <1>5 DEF StringsOK
<1>7. Len(tt.table) \in DOMAIN tt.table
  BY <1>2, <1>3
<1> QED BY <1>2, <1>4, <1>6, <1>7 DEF x

LEMMA CommitSegmentsCall ==
    ASSUME NEW ss, StringsOK(ss)
    PROVE  LET tt == CommitSegments(ss) IN
           /\ StringsOK(tt) /\ Grew(ss, tt) /\ Len(tt.table) = Len(ss.table) + 1
           /\ Len(tt.table) \in DOMAIN tt.table
           /\ tt.table[Len(tt.table)] = [text |-> ss.text, runs |-> ss.runs]
           /\ tt.text = NoText /\ tt.runs = << >> /\ tt.fmt = ss.fmt
<1> DEFINE tt == CommitSegments(ss)
           table == Append(ss.table, [text |-> ss.text, runs |-> ss.runs])
<1>1. tt = [fmt |-> ss.fmt, text |-> NoText, runs |-> << >>, table |-> table]
  <2>1. ss = [fmt |-> ss.fmt, text |-> ss.text, runs |-> ss.runs, table |-> ss.table]
    BY DEF StringsOK
  <2>2. tt = [ss EXCEPT !.table = table, !.text = NoText, !.runs = << >>]
    BY DEF CommitSegments
  <2> HIDE DEF table, tt
  <2> QED BY <2>1, <2>2
<1> HIDE DEF table, tt
<1>2. tt.text = NoText /\ tt.runs = << >> /\ tt.fmt = ss.fmt /\ tt.table = table
      /\ tt = [fmt |-> tt.fmt, text |-> tt.text, runs |-> tt.runs, table |-> tt.table]
  BY <1>1
<1>3. IsSeq(tt.text) /\ RunsOK(tt.runs, tt.text)
  BY <1>2, SeqEmpty DEF NoText, RunsOK
<1>4. IsSeq(ss.text) /\ RunsOK(ss.runs, ss.text)
  BY DEF StringsOK
<1>5. /\ StringsOK(tt) /\ Grew(ss, tt) /\ Len(tt.table) = Len(ss.table) + 1
      /\ Len(tt.table) \in DOMAIN tt.table
      /\ tt.table[Len(tt.table)] = [text |-> ss.text, runs |-> ss.runs]
  BY <1>2, <1>3, <1>4, TableAppend DEF table
<1> QED BY <1>2, <1>5 DEF tt

LEMMA AppendStringCall ==
    ASSUME NEW ss, StringsOK(ss), NEW text, IsSeq(text)
    PROVE  LET tt == AppendString(ss, text) IN
           /\ StringsOK(tt) /\ Grew(ss, tt) /\ Len(tt.table) = Len(ss.table) + 1
           /\ Len(tt.table) \in DOMAIN tt.table
           /\ tt.table[Len(tt.table)] = [text |-> text, runs |-> << >>]
           /\ tt.text = ss.text /\ tt.runs = ss.runs /\ tt.fmt = ss.fmt
<1> DEFINE tt == AppendString(ss, text)
           table == Append(ss.table, [text |-> text, runs |-> << >>])
<1>1. tt = [fmt |-> ss.fmt, text |-> ss.text, runs |-> ss.runs, table |-> table]
  <2>1. ss = [fmt |-> ss.fmt, text |-> ss.text, runs |-> ss.runs, table |-> ss.table]
    BY DEF StringsOK
  <2>2. tt = [ss EXCEPT !.table = table]
    BY DEF AppendString
  <2> HIDE DEF table, tt
  <2> QED BY <2>1, <2>2
<1> HIDE DEF table, tt
<1>2. tt.text = ss.text /\ tt.runs = ss.runs /\ tt.fmt = ss.fmt /\ tt.table = table
      /\ tt = [fmt |-> tt.fmt, text |-> tt.text, runs |-> tt.runs, table |-> tt.table]
  BY <1>1
<1>3. IsSeq(tt.text) /\ RunsOK(tt.runs, tt.text) /\ RunsOK(<< >>, text)
  BY <1>2, SeqEmpty DEF StringsOK, RunsOK
<1>5. /\ StringsOK(tt) /\ Grew(ss, tt) /\ Len(tt.table) = Len(ss.table) + 1
      /\ Len(tt.table) \in DOMAIN tt.table
      /\ tt.table[Len(tt.table)] = [text |-> text, runs |-> << >>]
  BY <1>2, <1>3, TableAppend DEF table
<1> QED BY <1>2, <1>5 DEF tt
----------------------------------------------------------------------------
(* A sheet of the document, where any says that the strings are those of   *)
(* another part and ids are the numbers of the strings there are.          *)

CellOK(c, any, ids) ==
    /\ c.kind \in {"empty", "value", "string", "bool", "formula", "grouped"}
    /\ (c.kind = "string" /\ ~any) => c.val[1] \in ids
    /\ c.kind \in {"formula", "grouped"} => c.tokens # NoTokens

SheetOK(sh, any, ids) ==
    /\ IsSheet(sh) /\ sh.formula.shared \in BOOLEAN
    /\ \A p \in Positions : CellOK(sh.cells[p], any, ids)
    /\ \A m \in sh.merged : m.first \in Positions

LEMMA TokensOfAPlace ==
    \A x, pos : pos # Nowhere => Tokens(x, pos) # NoTokens
<1>1. ASSUME NEW x, NEW pos, Tokens(x, pos) = NoTokens
      PROVE  pos = Nowhere
  <2>1. Tokens(x, pos).at = pos /\ NoTokens.at = Nowhere
    BY DEF Tokens, NoTokens
  <2> QED BY <1>1, <2>1
<1> QED BY <1>1

LEMMA NewSheetOK ==
    ASSUME NEW any, NEW ids PROVE SheetOK(NewSheet, any, ids)
<1>1. CellOK(EmptyCell, any, ids)
  BY DEF CellOK, EmptyCell, Cell
<1>2. NewSheet.formula.shared \in BOOLEAN
  BY DEF NewSheet, FreshFormula
<1> QED BY <1>1, <1>2, NewSheetIsSheet DEF SheetOK

LEMMA MoreStrings ==
    ASSUME NEW sh, NEW any, NEW ids, NEW more, SheetOK(sh, any, ids), ids \subseteq more
    PROVE  SheetOK(sh, any, more)
BY DEF SheetOK, CellOK

LEMMA SameCellsOK ==
    ASSUME NEW sh, NEW any, NEW ids, SheetOK(sh, any, ids), NEW t, IsSheet(t), SameCells(sh, t),
           t.formula.shared \in BOOLEAN
    PROVE  SheetOK(t, any, ids)
BY DEF SheetOK, SameCells

LEMMA LinesOK ==
    ASSUME NEW sh, NEW any, NEW ids, SheetOK(sh, any, ids), NEW t, LinesOnly(sh, t)
    PROVE  SheetOK(t, any, ids)
BY SameCellsOK DEF SheetOK, LinesOnly, SameObjects

LEMMA CellOKs ==
    ASSUME NEW sh, NEW any, NEW ids, SheetOK(sh, any, ids), NEW p, NEW c, CellOK(c, any, ids)
    PROVE  SheetOK(SetCell(sh, p, c), any, ids)
<1> DEFINE t == SetCell(sh, p, c)
<1>1. /\ IsSheet(t) /\ SameObjects(sh, t) /\ t.merged = sh.merged
      /\ t.cells = [sh.cells EXCEPT ![p] = c]
  <2>1. IsSheet(sh)
    BY DEF SheetOK
  <2> HIDE DEF SheetOK
  <2> QED BY <2>1, CellCalls
<1> HIDE DEF t
<1>2. \A q \in Positions : t.cells[q] = IF q = p THEN c ELSE sh.cells[q]
  BY <1>1 DEF SheetOK, IsSheet
<1>3. SheetOK(t, any, ids)
  BY <1>1, <1>2 DEF SheetOK, SameObjects
<1> QED BY <1>3 DEF t

LEMMA ValuesOK ==
    ASSUME NEW sh, NEW any, NEW ids, SheetOK(sh, any, ids), NEW p, NEW v
    PROVE  /\ SheetOK(SetValue(sh, p, v), any, ids)
           /\ SheetOK(SetBool(sh, p, v), any, ids)
           /\ (any \/ v[1] \in ids) => SheetOK(SetString(sh, p, v), any, ids)
<1>1. /\ CellOK(Cell("value", v, NoTokens, NoText), any, ids)
      /\ CellOK(Cell("bool", v, NoTokens, NoText), any, ids)
      /\ (any \/ v[1] \in ids) => CellOK(Cell("string", v, NoTokens, NoText), any, ids)
  BY DEF CellOK, Cell
<1> QED BY <1>1, CellOKs DEF SetValue, SetBool, SetString

LEMMA FormatOK ==
    ASSUME NEW sh, NEW any, NEW ids, SheetOK(sh, any, ids), NEW ref, NEW id
    PROVE  SheetOK(SetFormat(sh, ref, id), any, ids)
<1> DEFINE t == SetFormat(sh, ref, id)
<1>1. IsSheet(t) /\ SameObjects(sh, t) /\ SameCells(sh, t)
  BY FormatCalls DEF SheetOK
<1> HIDE DEF t
<1>2. SheetOK(t, any, ids)
  BY <1>1, SameCellsOK DEF SheetOK, SameObjects
<1> QED BY <1>2 DEF t

LEMMA MergeOK ==
    ASSUME NEW sh, NEW any, NEW ids, SheetOK(sh, any, ids), NEW ref
    PROVE  SheetOK(SetMergeCellRange(sh, ref), any, ids)
<1> DEFINE t == SetMergeCellRange(sh, ref)
<1>1. /\ IsSheet(t) /\ SameObjects(sh, t) /\ t.cells = sh.cells
      /\ t.merged = sh.merged \/ (ValidRange(ref) /\ t.merged = sh.merged \cup {ref})
  <2>1. IsSheet(sh)
    BY DEF SheetOK
  <2> HIDE DEF SheetOK
  <2> QED BY <2>1, MergeCalls
<1> HIDE DEF t
<1>2. \A m \in t.merged : m.first \in Positions
  BY <1>1 DEF SheetOK, ValidRange
<1>3. SheetOK(t, any, ids)
  BY <1>1, <1>2 DEF SheetOK, SameObjects
<1> QED BY <1>3 DEF t

\* A formula object that has an expression, or shares one, may be committed.
LEMMA CommitOK ==
    ASSUME NEW sh, NEW any, NEW ids, SheetOK(sh, any, ids),
           sh.formula.shared \/ sh.formula.tokens # NoTokens \/ sh.formula.pos = Nowhere
    PROVE  SheetOK(CommitFormula(sh), any, ids)
<1> DEFINE f == sh.formula
           t == CommitFormula(sh)
           tokens == IF f.shared /\ f.tokens = NoTokens THEN sh.pool[f.index] ELSE f.tokens
           cell == Cell("formula", NoText, tokens, f.result)
           none == f.pos = Nowhere \/ (f.shared /\ tokens = NoTokens)
<1>1. /\ IsSheet(t) /\ SameObjects(sh, t) /\ t.merged = sh.merged
      /\ t.cells = IF none THEN sh.cells ELSE [sh.cells EXCEPT ![f.pos] = cell]
  <2>1. IsSheet(sh) /\ sh.formula.shared \in BOOLEAN
    BY DEF SheetOK
  <2> QED BY <2>1, CommitCall
<1>2. ~none => tokens # NoTokens
  BY DEF SheetOK
<1>3. cell.kind = "formula" /\ cell.tokens = tokens
  BY DEF Cell
<1> HIDE DEF t, tokens, cell, none
<1>4. ~none => CellOK(cell, any, ids)
  BY <1>2, <1>3 DEF CellOK
<1>5. \A q \in Positions : t.cells[q] = IF q = f.pos /\ ~none THEN cell ELSE sh.cells[q]
  BY <1>1 DEF SheetOK, IsSheet
<1>6. SheetOK(t, any, ids)
  BY <1>1, <1>4, <1>5 DEF SheetOK, SameObjects
<1> QED BY <1>6 DEF t

LEMMA FormulaOnlyOK ==
    ASSUME NEW sh, NEW any, NEW ids, SheetOK(sh, any, ids), NEW t, FormulaOnly(sh, t),
           t.formula.shared \in BOOLEAN
    PROVE  SheetOK(t, any, ids)
BY SameCellsOK DEF FormulaOnly

LEMMA GetArrayOK ==
    ASSUME NEW sh, NEW any, NEW ids, SheetOK(sh, any, ids)
    PROVE  SheetOK(GetArray(sh), any, ids)
<1>1. ArrayOnly(sh, GetArray(sh))
  BY GetArrayCall DEF SheetOK
<1> QED BY Zenon, <1>1, SameCellsOK DEF SheetOK, ArrayOnly

LEMMA ArrayOK ==
    ASSUME NEW sh, NEW any, NEW ids, SheetOK(sh, any, ids), NEW ref, NEW text, NEW results
    PROVE  SheetOK(PushArrayFormula(sh, ref, text, results), any, ids)
<1> DEFINE t == PushArrayFormula(sh, ref, text, results)
<1>1. /\ IsSheet(t) /\ t.merged = sh.merged /\ t.formula = sh.formula
      /\ ~ValidRange(ref) => t.cells = sh.cells
      /\ ValidRange(ref) => \A p \in Positions :
            \/ t.cells[p] = sh.cells[p]
            \/ t.cells[p].kind = "grouped" /\ t.cells[p].tokens = Tokens(text, ref.first)
  BY ArrayCalls DEF SheetOK
<1> HIDE DEF t
<1>2. ValidRange(ref) => Tokens(text, ref.first) # NoTokens
  <2>1. ValidRange(ref) => ref.first # Nowhere
    BY SheetAssumption DEF ValidRange, Positions, Nowhere
  <2> QED BY <2>1, TokensOfAPlace
<1>3. \A p \in Positions : CellOK(t.cells[p], any, ids)
  BY <1>1, <1>2 DEF SheetOK, CellOK
<1>4. SheetOK(t, any, ids)
  BY <1>1, <1>3 DEF SheetOK
<1> QED BY <1>4 DEF t

LEMMA GetFormulaOK ==
    ASSUME NEW sh, NEW any, NEW ids, SheetOK(sh, any, ids)
    PROVE  SheetOK(GetFormula(sh), any, ids)
BY GetFormulaCall, FormulaOnlyOK DEF SheetOK

\* What the filters do for a formula of its own, and for a shared one.
LEMMA RegularOK ==
    ASSUME NEW sh, NEW any, NEW ids, SheetOK(sh, any, ids), NEW pos, NEW text, NEW result
    PROVE  LET given == FormulaText(FormulaPosition(sh, pos), text) IN
           SheetOK(CommitFormula(IF result = NoText THEN given ELSE FormulaResult(given, result)), any, ids)
<1> DEFINE at == FormulaPosition(sh, pos)
           given == FormulaText(at, text)
           valued == IF result = NoText THEN given ELSE FormulaResult(given, result)
<1>1. FormulaOnly(sh, at) /\ at.formula.pos = pos /\ at.formula.shared = sh.formula.shared
  <2>1. IsSheet(sh)
    BY DEF SheetOK
  <2> QED BY <2>1, PositionCall
<1>2. SheetOK(at, any, ids)
  BY <1>1, FormulaOnlyOK DEF SheetOK
<1> HIDE DEF at
<1>3. /\ FormulaOnly(at, given) /\ given.formula.pos = pos /\ given.formula.shared = at.formula.shared
      /\ pos # Nowhere => given.formula.tokens = Tokens(text, pos)
  <2>1. IsSheet(at)
    BY <1>2 DEF SheetOK
  <2> QED BY <1>1, <2>1, TextCall
<1>4. SheetOK(given, any, ids)
  BY <1>2, <1>3, FormulaOnlyOK DEF SheetOK
<1> HIDE DEF given
<1>5. valued = given \/ /\ FormulaOnly(given, valued) /\ valued.formula.pos = given.formula.pos
                        /\ valued.formula.tokens = given.formula.tokens
                        /\ valued.formula.shared = given.formula.shared
  <2>1. IsSheet(given)
    BY <1>4 DEF SheetOK
  <2> QED BY <2>1, ResultCall
<1> HIDE DEF valued
<1>6. SheetOK(valued, any, ids)
  BY <1>4, <1>5, FormulaOnlyOK DEF SheetOK
<1>7. valued.formula.pos = Nowhere \/ valued.formula.tokens # NoTokens
  BY <1>3, <1>5, TokensOfAPlace
<1>8. SheetOK(CommitFormula(valued), any, ids)
  BY <1>6, <1>7, CommitOK
<1> QED BY <1>8 DEF valued, given, at

LEMMA SharedOK ==
    ASSUME NEW sh, NEW any, NEW ids, SheetOK(sh, any, ids), NEW pos, NEW has, NEW text, NEW id, NEW result
    PROVE  LET at == FormulaPosition(sh, pos)
               given == IF has THEN FormulaText(at, text) ELSE at
               shared == FormulaSharedIndex(given, id)
           IN  SheetOK(CommitFormula(IF result = NoText THEN shared ELSE FormulaResult(shared, result)), any, ids)
<1> DEFINE at == FormulaPosition(sh, pos)
           given == IF has THEN FormulaText(at, text) ELSE at
           shared == FormulaSharedIndex(given, id)
           valued == IF result = NoText THEN shared ELSE FormulaResult(shared, result)
<1>1. SheetOK(at, any, ids)
  BY PositionCall, FormulaOnlyOK DEF SheetOK
<1> HIDE DEF at
<1>2. SheetOK(given, any, ids)
  BY <1>1, TextCall, FormulaOnlyOK DEF SheetOK
<1> HIDE DEF given
<1>3. SheetOK(shared, any, ids) /\ shared.formula.shared = TRUE
  BY <1>2, IndexCall, FormulaOnlyOK DEF SheetOK
<1> HIDE DEF shared
<1>4. SheetOK(valued, any, ids) /\ valued.formula.shared = TRUE
  BY <1>3, ResultCall, FormulaOnlyOK DEF SheetOK
<1> HIDE DEF valued
<1>5. SheetOK(CommitFormula(valued), any, ids)
  BY <1>4, CommitOK
<1> QED BY <1>5 DEF valued, shared, given, at

\* The formula of a range, whether or not it comes with results.
LEMMA CommitArrayOK ==
    ASSUME NEW sh, NEW any, NEW ids, SheetOK(sh, any, ids),
           sh.array.range = NoRectangle \/ sh.array.tokens # NoTokens
    PROVE  SheetOK(CommitArray(sh), any, ids)
<1> DEFINE a == sh.array
           grouped(p) == Cell("grouped", NoText, a.tokens, a.results[Offset(p, a.range)])
           filled == [p \in Positions |-> IF InRectangle(p, a.range) THEN grouped(p) ELSE sh.cells[p]]
           t == CommitArray(sh)
<1>1. CASE a.range = NoRectangle
  BY <1>1 DEF CommitArray
<1>2. CASE a.range # NoRectangle
  <2>1. t = [sh EXCEPT !.cells = filled]
    BY <1>2 DEF CommitArray
  <2>2. \A p \in Positions : CellOK(filled[p], any, ids)
    BY <1>2 DEF SheetOK, CellOK, Cell
  <2>3. filled = [p \in Positions |-> filled[p]]
    OBVIOUS
  <2> HIDE DEF filled, t
  <2>4. IsSheet(t) /\ t.cells = filled /\ t.merged = sh.merged /\ t.formula = sh.formula
    BY <2>1, <2>3 DEF SheetOK, IsSheet
  <2>5. SheetOK(t, any, ids)
    BY <2>2, <2>4 DEF SheetOK
  <2> QED BY <2>5 DEF t
<1> QED BY <1>1, <1>2

LEMMA ArrayFormulaOK ==
    ASSUME NEW sh, NEW any, NEW ids, SheetOK(sh, any, ids), NEW ref, NEW text
    PROVE  SheetOK(CommitArray(ArrayText(ArrayRange(sh, ref), text)), any, ids)
<1> DEFINE a == ArrayRange(sh, ref)
           b == ArrayText(a, text)
<1>0. IsSheet(sh)
  BY DEF SheetOK
<1>1. ArrayOnly(sh, a) /\ a.array.range = IF ValidRange(ref) THEN ClampRange(ref) ELSE NoRectangle
  <2>1. CASE ValidRange(ref)
    BY <1>0, <2>1 DEF ArrayRange, ArrayOnly, SameCells, IsSheet
  <2>2. CASE ~ValidRange(ref)
    BY <1>0, <2>2 DEF ArrayRange, ArrayOnly, SameCells, IsSheet
  <2> QED BY <2>1, <2>2
<1> HIDE DEF a
<1>2. ArrayOnly(a, b) /\ b.array.range = a.array.range /\ b.array.tokens = Tokens(text, a.array.range.first)
  BY <1>1 DEF ArrayText, ArrayOnly, SameCells, IsSheet
<1> HIDE DEF b
<1>3. SheetOK(b, any, ids)
  BY <1>1, <1>2, SameCellsOK DEF SheetOK, ArrayOnly, SameCells
<1>4. ValidRange(ref) => ClampRange(ref).first # Nowhere
  BY ClampKeepsFirst, SheetAssumption DEF ValidRange, Positions, Nowhere
<1>5. b.array.range = NoRectangle \/ b.array.tokens # NoTokens
  BY <1>1, <1>2, <1>4, TokensOfAPlace
<1>6. SheetOK(CommitArray(b), any, ids)
  BY <1>3, <1>5, CommitArrayOK
<1> QED BY <1>6 DEF b, a

----------------------------------------------------------------------------
(* More of sequences.                                                      *)

LEMMA SeqOfNumbers ==
    ASSUME NEW n \in Nat, NEW f, DOMAIN f = 1 .. n, f = [k \in DOMAIN f |-> f[k]]
    PROVE  IsSeq(f) /\ Len(f) = n
<1> DEFINE S == {f[k] : k \in 1 .. n}
<1>1. f \in [1 .. n -> S]
  OBVIOUS
<1> HIDE DEF S
<1>2. f \in Seq(S) /\ Len(f) = n
  BY <1>1
<1> QED BY <1>2 DEF IsSeq

LEMMA SeqTail ==
    ASSUME NEW s, IsSeq(s), s # << >>
    PROVE  /\ IsSeq(Tail(s)) /\ Len(Tail(s)) = Len(s) - 1 /\ Len(s) \in Nat \ {0}
           /\ \A k \in 1 .. Len(s) - 1 : Tail(s)[k] = s[k + 1]
<1>1. PICK S : s \in Seq(S)
  BY DEF IsSeq
<1>2. Tail(s) \in Seq(S) /\ Len(Tail(s)) = Len(s) - 1 /\ \A k \in 1 .. Len(Tail(s)) : Tail(s)[k] = s[k + 1]
  BY <1>1, HeadTailProperties
<1>3. Len(s) \in Nat \ {0}
  BY <1>1, EmptySeq
<1> QED BY <1>2, <1>3 DEF IsSeq

LEMMA SeqSub ==
    ASSUME NEW s, IsSeq(s), NEW m \in Nat, NEW n \in Nat, 1 <= m, m <= n, n <= Len(s)
    PROVE  IsSeq(SubSeq(s, m, n))
<1>1. PICK S : s \in Seq(S)
  BY DEF IsSeq
<1>2. SubSeq(s, m, n) \in Seq(S)
  BY <1>1, SubSeqProperties
<1> QED BY <1>2 DEF IsSeq

\* A set of numbers has a least one.
LEMMA LeastNumber ==
    ASSUME NEW T, T \subseteq Nat, T # {}
    PROVE  \E m \in T : \A n \in T : m <= n
<1> DEFINE R == {ss \in Nat \X Nat : ss[1] < ss[2]}
<1>1. IsWellFoundedOn(R, Nat)
  BY NatLessThanWellFounded DEF OpToRel
<1> HIDE DEF R
<1>2. PICK m \in T : \A n \in T : ~(<<n, m>> \in R)
  BY <1>1, WFMin
<1>3. \A n \in T : ~(n < m)
  BY Zenon, <1>2 DEF R
<1> QED BY <1>3

----------------------------------------------------------------------------
(* The worksheets of XLSX.                                                 *)

\* The calls of the filter are those of the document.
LEMMA XlsxCalls ==
    /\ Xlsx!NewSheet = NewSheet
    /\ \A sh, c, n, v : /\ Xlsx!SetColumnFormat(sh, c, n, v) = SetColumnFormat(sh, c, n, v)
                        /\ Xlsx!SetColumnWidth(sh, c, n, v) = SetColumnWidth(sh, c, n, v)
                        /\ Xlsx!SetColumnHidden(sh, c, n, v) = SetColumnHidden(sh, c, n, v)
    /\ \A sh, r, v : /\ Xlsx!SetRowFormat(sh, r, v) = SetRowFormat(sh, r, v)
                     /\ Xlsx!SetRowHeight(sh, r, v) = SetRowHeight(sh, r, v)
                     /\ Xlsx!SetRowHidden(sh, r, v) = SetRowHidden(sh, r, v)
                     /\ Xlsx!SetValue(sh, r, v) = SetValue(sh, r, v)
                     /\ Xlsx!SetString(sh, r, v) = SetString(sh, r, v)
                     /\ Xlsx!SetBool(sh, r, v) = SetBool(sh, r, v)
                     /\ Xlsx!SetFormat(sh, r, v) = SetFormat(sh, r, v)
    /\ \A sh : /\ Xlsx!GetFormula(sh) = GetFormula(sh)
               /\ Xlsx!CommitFormula(sh) = CommitFormula(sh)
               /\ Xlsx!GetArray(sh) = GetArray(sh)
    /\ \A sh, x : /\ Xlsx!FormulaPosition(sh, x) = FormulaPosition(sh, x)
                  /\ Xlsx!FormulaText(sh, x) = FormulaText(sh, x)
                  /\ Xlsx!FormulaSharedIndex(sh, x) = FormulaSharedIndex(sh, x)
                  /\ Xlsx!FormulaResult(sh, x) = FormulaResult(sh, x)
    /\ \A sh, r, x, v : Xlsx!PushArrayFormula(sh, r, x, v) = PushArrayFormula(sh, r, x, v)
<1> USE DEF Xlsx!NoText, NoText, Xlsx!Nowhere, Nowhere, Xlsx!NoTokens, NoTokens, Xlsx!Tokens, Tokens,
            Xlsx!Cell, Cell, Xlsx!Positions, Positions, Xlsx!InRectangle, InRectangle, Xlsx!Rectangle, Rectangle,
            Xlsx!NoRectangle, NoRectangle, Xlsx!MissingResult, MissingResult
<1>1. Xlsx!NewSheet = NewSheet
  BY DEF Xlsx!NewSheet, NewSheet, Xlsx!EmptyCell, EmptyCell, Xlsx!PlainLine, PlainLine, Xlsx!FreshFormula,
         FreshFormula, Xlsx!FreshArray, FreshArray
<1>2. ASSUME NEW sh, NEW c, NEW n, NEW v
      PROVE  /\ Xlsx!SetColumnFormat(sh, c, n, v) = SetColumnFormat(sh, c, n, v)
             /\ Xlsx!SetColumnWidth(sh, c, n, v) = SetColumnWidth(sh, c, n, v)
             /\ Xlsx!SetColumnHidden(sh, c, n, v) = SetColumnHidden(sh, c, n, v)
  BY DEF Xlsx!SetColumnFormat, SetColumnFormat, Xlsx!SetColumnWidth, SetColumnWidth, Xlsx!SetColumnHidden,
         SetColumnHidden, Xlsx!Span, Span
<1>3. ASSUME NEW sh, NEW r, NEW v
      PROVE  /\ Xlsx!SetRowFormat(sh, r, v) = SetRowFormat(sh, r, v)
             /\ Xlsx!SetRowHeight(sh, r, v) = SetRowHeight(sh, r, v)
             /\ Xlsx!SetRowHidden(sh, r, v) = SetRowHidden(sh, r, v)
             /\ Xlsx!SetValue(sh, r, v) = SetValue(sh, r, v)
             /\ Xlsx!SetString(sh, r, v) = SetString(sh, r, v)
             /\ Xlsx!SetBool(sh, r, v) = SetBool(sh, r, v)
             /\ Xlsx!SetFormat(sh, r, v) = SetFormat(sh, r, v)
  BY DEF Xlsx!SetRowFormat, SetRowFormat, Xlsx!SetRowHeight, SetRowHeight, Xlsx!SetRowHidden, SetRowHidden,
         Xlsx!SetValue, SetValue, Xlsx!SetString, SetString, Xlsx!SetBool, SetBool, Xlsx!SetCell, SetCell,
         Xlsx!SetFormat, SetFormat
<1>4. ASSUME NEW sh
      PROVE  /\ Xlsx!GetFormula(sh) = GetFormula(sh)
             /\ Xlsx!CommitFormula(sh) = CommitFormula(sh)
             /\ Xlsx!GetArray(sh) = GetArray(sh)
  BY DEF Xlsx!GetFormula, GetFormula, Xlsx!CommitFormula, CommitFormula, Xlsx!GetArray, GetArray,
         Xlsx!FreshFormula, FreshFormula, Xlsx!FreshArray, FreshArray, Xlsx!AddShared, AddShared
<1>5. ASSUME NEW sh, NEW x
      PROVE  /\ Xlsx!FormulaPosition(sh, x) = FormulaPosition(sh, x)
             /\ Xlsx!FormulaText(sh, x) = FormulaText(sh, x)
             /\ Xlsx!FormulaSharedIndex(sh, x) = FormulaSharedIndex(sh, x)
             /\ Xlsx!FormulaResult(sh, x) = FormulaResult(sh, x)
  BY DEF Xlsx!FormulaPosition, FormulaPosition, Xlsx!FormulaText, FormulaText, Xlsx!FormulaSharedIndex,
         FormulaSharedIndex, Xlsx!FormulaResult, FormulaResult
<1>6. ASSUME NEW sh, NEW r, NEW x, NEW v
      PROVE  Xlsx!PushArrayFormula(sh, r, x, v) = PushArrayFormula(sh, r, x, v)
  <2>1. \A s, y : Xlsx!ArrayRange(s, y) = ArrayRange(s, y)
    BY DEF Xlsx!ArrayRange, ArrayRange, Xlsx!ValidRange, ValidRange, Xlsx!ClampRange, ClampRange, Xlsx!Least, Least,
           Xlsx!ResultsOf, ResultsOf, Xlsx!Offsets, Offsets
  <2>2. \A s, y : Xlsx!ArrayText(s, y) = ArrayText(s, y)
    BY DEF Xlsx!ArrayText, ArrayText
  <2>3. \A s, y : Xlsx!ArrayResults(s, y) = ArrayResults(s, y)
    BY DEF Xlsx!ArrayResults, ArrayResults
  <2>4. \A s : Xlsx!CommitArray(s) = CommitArray(s)
    BY DEF Xlsx!CommitArray, CommitArray, Xlsx!Offset, Offset
  <2> QED BY <2>1, <2>2, <2>3, <2>4 DEF Xlsx!PushArrayFormula, PushArrayFormula
<1> QED BY <1>1, <1>2, <1>3, <1>4, <1>5, <1>6
LEMMA XlsxSheetStep ==
    ASSUME NEW any, NEW ids, any = TRUE, SheetOK(sheet, any, ids), Xlsx!Next
    PROVE  SheetOK(sheet', any, ids)
<1>0. \A t : LinesOnly(sheet, t) => SheetOK(t, any, ids)
  BY Zenon, LinesOK
<1>1. ASSUME NEW a \in ColAttrs, Xlsx!StartCol(a)
      PROVE  SheetOK(sheet', any, ids)
  <2> DEFINE n == a.max - a.min + 1
             styled == IF a.style = Xlsx!Absent THEN sheet ELSE SetColumnFormat(sheet, a.min - 1, n, a.style)
             sized == IF a.width = Xlsx!Absent THEN styled ELSE SetColumnWidth(styled, a.min - 1, n, a.width)
  <2>1. sheet' = IF a.min = 0 \/ a.max = 0 \/ a.min > a.max THEN sheet
                 ELSE SetColumnHidden(sized, a.min - 1, n, a.hidden)
    BY <1>1, XlsxCalls DEF Xlsx!StartCol
  <2>2. SheetOK(styled, any, ids)
    BY LinesOK, LineCalls DEF SheetOK
  <2> HIDE DEF styled
  <2>3. SheetOK(sized, any, ids)
    BY Zenon, <2>2, LinesOK, LineCalls DEF SheetOK
  <2> HIDE DEF sized
  <2>4. SheetOK(SetColumnHidden(sized, a.min - 1, n, a.hidden), any, ids)
    BY <2>3, LinesOK, LineCalls DEF SheetOK
  <2> QED BY Zenon, <2>1, <2>4
<1>2. ASSUME NEW a \in RowAttrs, Xlsx!StartRow(a)
      PROVE  SheetOK(sheet', any, ids)
  <2> DEFINE row == IF a.r = Xlsx!Absent THEN cxt.row + 1 ELSE a.r - 1
             styled == IF a.custom /\ a.style # Xlsx!Absent THEN SetRowFormat(sheet, row, a.style) ELSE sheet
             sized == IF a.height # Xlsx!Absent THEN SetRowHeight(styled, row, a.height) ELSE styled
  <2>1. sheet' = sheet \/ sheet' = SetRowHidden(sized, row, a.hidden)
    BY <1>2, XlsxCalls DEF Xlsx!StartRow
  <2> HIDE DEF row
  <2>2. SheetOK(styled, any, ids)
    BY LinesOK, LineCalls DEF SheetOK
  <2> HIDE DEF styled
  <2>3. SheetOK(sized, any, ids)
    BY <2>2, LinesOK, LineCalls DEF SheetOK
  <2> HIDE DEF sized
  <2>4. SheetOK(SetRowHidden(sized, row, a.hidden), any, ids)
    BY <2>3, LinesOK, LineCalls DEF SheetOK
  <2> QED BY <2>1, <2>4
<1>3. ASSUME Xlsx!EndCell
      PROVE  SheetOK(sheet', any, ids)
  <2> DEFINE pushed == IF Xlsx!CellIsArrayResult \/ Xlsx!CellHasFormula THEN sheet
                       ELSE Xlsx!PushRawCellValue(sheet, Xlsx!Here)
  <2>1. sheet' = IF cxt.xf = 0 THEN pushed ELSE SetFormat(pushed, Xlsx!Rectangle(Xlsx!Here, Xlsx!Here), cxt.xf)
    BY <1>3, XlsxCalls DEF Xlsx!EndCell
  <2>2. \/ pushed = sheet
        \/ \E v : pushed = SetValue(sheet, Xlsx!Here, v)
        \/ \E v : pushed = SetString(sheet, Xlsx!Here, v)
        \/ \E v : pushed = SetBool(sheet, Xlsx!Here, v)
    BY XlsxCalls DEF Xlsx!PushRawCellValue
  <2> HIDE DEF pushed
  <2>3. SheetOK(pushed, any, ids)
    BY <2>2, ValuesOK
  <2> QED BY <2>1, <2>3, FormatOK
<1>4. ASSUME Xlsx!PushShared
      PROVE  SheetOK(sheet', any, ids)
  <2> DEFINE f == Head(cxt.shared)
             fresh == GetFormula(sheet)
             at == FormulaPosition(fresh, f.pos)
             given == IF f.text # NoText THEN FormulaText(at, f.text) ELSE at
             shared == FormulaSharedIndex(given, f.id)
  <2>1. sheet' = CommitFormula(IF f.result = NoText THEN shared ELSE FormulaResult(shared, f.result))
    BY <1>4, XlsxCalls DEF Xlsx!PushShared, Xlsx!WithResult, Xlsx!NoText, NoText
  <2> HIDE DEF f
  <2>2. SheetOK(fresh, any, ids)
    BY Zenon, GetFormulaOK
  <2> HIDE DEF fresh
  <2> QED BY <2>1, <2>2, SharedOK
<1>5. ASSUME Xlsx!PushRegular
      PROVE  SheetOK(sheet', any, ids)
  <2> DEFINE f == Head(cxt.formulas)
             fresh == GetFormula(sheet)
             given == FormulaText(FormulaPosition(fresh, f.pos), f.text)
  <2>1. sheet' = CommitFormula(IF f.result = NoText THEN given ELSE FormulaResult(given, f.result))
    BY <1>5, XlsxCalls DEF Xlsx!PushRegular, Xlsx!WithResult, Xlsx!NoText, NoText
  <2> HIDE DEF f
  <2>2. SheetOK(fresh, any, ids)
    BY Zenon, GetFormulaOK
  <2> HIDE DEF fresh
  <2> QED BY <2>1, <2>2, RegularOK
<1>6. ASSUME Xlsx!PushArray
      PROVE  SheetOK(sheet', any, ids)
  BY <1>6, XlsxCalls, GetArrayOK, ArrayOK DEF Xlsx!PushArray
<1>7. CASE UNCHANGED sheet
  BY Zenon, <1>7
<1> QED BY Zenon, <1>1, <1>2, <1>3, <1>4, <1>5, <1>6, <1>7
        DEF Xlsx!Next, Xlsx!EndRow, Xlsx!StartCell, Xlsx!Indentation, Xlsx!Formula, Xlsx!Value, Xlsx!EndSheet, Xlsx!Pushed

----------------------------------------------------------------------------
(* The shared strings of XLSX.                                             *)

LEMMA SstCalls ==
    /\ Sst!NewStrings = NewStrings /\ Sst!NoText = NoText
    /\ \A ss, x : /\ Sst!SetSegment(ss, x) = SetSegment(ss, x)
                  /\ Sst!AppendSegment(ss, x) = AppendSegment(ss, x)
                  /\ Sst!AppendString(ss, x) = AppendString(ss, x)
    /\ \A ss : Sst!CommitSegments(ss) = CommitSegments(ss)
<1> USE DEF Sst!NoText, NoText
<1>1. Sst!NewStrings = NewStrings
  BY DEF Sst!NewStrings, NewStrings
<1>2. ASSUME NEW ss, NEW x
      PROVE  /\ Sst!SetSegment(ss, x) = SetSegment(ss, x)
             /\ Sst!AppendSegment(ss, x) = AppendSegment(ss, x)
             /\ Sst!AppendString(ss, x) = AppendString(ss, x)
  BY DEF Sst!SetSegment, SetSegment, Sst!AppendSegment, AppendSegment, Sst!AppendString, AppendString
<1>3. ASSUME NEW ss PROVE Sst!CommitSegments(ss) = CommitSegments(ss)
  BY DEF Sst!CommitSegments, CommitSegments
<1> QED BY <1>1, <1>2, <1>3

\* A text without its carriage returns is a sequence.
OtherThan(p, st, x) == IF x = CR THEN st ELSE Append(st, x)
SeqSoFar(p, k, st) == IsSeq(st)
Others == INSTANCE Folding WITH Op <- OtherThan, Good <- SeqSoFar

LEMMA WithoutIsSeq ==
    ASSUME NEW t, IsSeq(t) PROVE IsSeq(Sst!RemoveCRs(t))
<1>1. Sst!Without(t) = Others!Folded(0, << >>, t)
  BY DEF Sst!Without, Others!Folded, OtherThan, Sst!FoldLeft, Others!FoldLeft, Sst!MapThenFoldSet,
         Others!MapThenFoldSet, Sst!Max, Others!Max
<1>2. PICK n \in Nat : n = Len(t)
  BY SeqBasics
<1>3. DOMAIN t = 1 .. n
  BY <1>2, SeqBasics
<1>4. SeqSoFar(0, 0, << >>)
  BY SeqEmpty DEF SeqSoFar
<1>5. \A k \in 1 .. n : \A st : SeqSoFar(0, k - 1, st) => SeqSoFar(0, k, OtherThan(0, st, t[k]))
  BY SeqAppend DEF SeqSoFar, OtherThan
<1>6. SeqSoFar(0, n, Others!Folded(0, << >>, t))
  BY <1>3, <1>4, <1>5, Others!FoldKeeps
<1>7. IsSeq(Sst!Without(t))
  BY <1>1, <1>6 DEF SeqSoFar
<1> QED BY <1>7 DEF Sst!RemoveCRs

SstOK(c) == "str" \in DOMAIN c /\ IsSeq(c.str)

LEMMA NumberedIsSeq ==
    ASSUME NEW t \in Texts, NEW n PROVE IsSeq(Sst!Numbered(t, n))
<1>1. Len(t) \in Nat /\ DOMAIN t = 1 .. Len(t)
  BY TextsAssumption
<1> DEFINE f == Sst!Numbered(t, n)
<1>2. DOMAIN f = 1 .. Len(t) /\ f = [k \in DOMAIN f |-> f[k]]
  BY <1>1 DEF Sst!Numbered
<1> HIDE DEF f
<1>3. IsSeq(f)
  BY <1>1, <1>2, SeqOfNumbers
<1> QED BY <1>3 DEF f

LEMMA SstStep ==
    ASSUME StringsOK(strings), SstOK(cxt), Sst!Next
    PROVE  StringsOK(strings') /\ SstOK(cxt') /\ Grew(strings, strings')
<1>0. Grew(strings, strings)
  BY SeqBasics DEF Grew, StringsOK
<1>1. CASE Sst!StartString
  BY <1>0, <1>1 DEF Sst!StartString, SstOK
<1>2. CASE Sst!StartRun
  BY <1>0, <1>2 DEF Sst!StartRun, SstOK
<1>3. CASE Sst!EndRun
  <2>1. strings' = AppendSegment(strings, cxt.str) /\ SstOK(cxt')
    BY <1>3, SstCalls DEF Sst!EndRun, SstOK
  <2>2. StringsOK(strings') /\ strings'.table = strings.table
    BY <2>1, AppendSegmentCall DEF SstOK
  <2> QED BY <1>0, <2>1, <2>2 DEF Grew
<1>4. CASE Sst!EndString
  <2>1. /\ strings' = CommitSegments(strings) \/ strings' = AppendString(strings, cxt.str)
        /\ SstOK(cxt')
    BY <1>4, SstCalls DEF Sst!EndString, SstOK
  <2>2. StringsOK(CommitSegments(strings)) /\ Grew(strings, CommitSegments(strings))
    BY Zenon, CommitSegmentsCall
  <2>3. StringsOK(AppendString(strings, cxt.str)) /\ Grew(strings, AppendString(strings, cxt.str))
    BY Zenon, AppendStringCall DEF SstOK
  <2> QED BY <2>1, <2>2, <2>3
<1>5. ASSUME NEW f \in Formats, Sst!RunProperty(f)
      PROVE  StringsOK(strings') /\ SstOK(cxt') /\ Grew(strings, strings')
  <2>1. strings' = SetSegment(strings, {f}) /\ cxt' = cxt
    BY <1>5, SstCalls DEF Sst!RunProperty
  <2>2. StringsOK(strings') /\ strings'.table = strings.table
    BY <2>1, SetSegmentCall
  <2> QED BY <1>0, <2>1, <2>2 DEF Grew
<1>6. ASSUME NEW t \in Texts, Sst!StartText(t) \/ Sst!FurtherText(t)
      PROVE  StringsOK(strings') /\ SstOK(cxt') /\ Grew(strings, strings')
  <2> DEFINE text == Sst!RemoveCRs(Sst!Numbered(t, Sst!NextNumber))
  <2>1. IsSeq(text)
    BY NumberedIsSeq, WithoutIsSeq
  <2>2. cxt' = [cxt EXCEPT !.str = text] /\ strings' = strings
    BY <1>6 DEF Sst!StartText, Sst!FurtherText, Sst!Characters
  <2> HIDE DEF text
  <2>3. SstOK(cxt')
    BY <2>1, <2>2 DEF SstOK
  <2> QED BY <1>0, <2>2, <2>3
<1> QED BY <1>1, <1>2, <1>3, <1>4, <1>5, <1>6 DEF Sst!Next

----------------------------------------------------------------------------
(* The worksheets of Excel 2003 XML.                                       *)

LEMMA XlsXmlCalls ==
    /\ XlsXml!NewSheet = NewSheet /\ XlsXml!NewStrings = NewStrings
    /\ \A sh, c, n, v : /\ XlsXml!SetColumnFormat(sh, c, n, v) = SetColumnFormat(sh, c, n, v)
                        /\ XlsXml!SetColumnWidth(sh, c, n, v) = SetColumnWidth(sh, c, n, v)
                        /\ XlsXml!SetColumnHidden(sh, c, n, v) = SetColumnHidden(sh, c, n, v)
    /\ \A sh, r, v : /\ XlsXml!SetRowFormat(sh, r, v) = SetRowFormat(sh, r, v)
                     /\ XlsXml!SetRowHeight(sh, r, v) = SetRowHeight(sh, r, v)
                     /\ XlsXml!SetRowHidden(sh, r, v) = SetRowHidden(sh, r, v)
                     /\ XlsXml!SetValue(sh, r, v) = SetValue(sh, r, v)
                     /\ XlsXml!SetString(sh, r, v) = SetString(sh, r, v)
                     /\ XlsXml!SetFormat(sh, r, v) = SetFormat(sh, r, v)
    /\ \A sh : /\ XlsXml!GetFormula(sh) = GetFormula(sh)
               /\ XlsXml!CommitFormula(sh) = CommitFormula(sh)
               /\ XlsXml!GetArray(sh) = GetArray(sh)
    /\ \A sh, x : /\ XlsXml!SetMergeCellRange(sh, x) = SetMergeCellRange(sh, x)
                  /\ XlsXml!FormulaPosition(sh, x) = FormulaPosition(sh, x)
                  /\ XlsXml!FormulaText(sh, x) = FormulaText(sh, x)
                  /\ XlsXml!FormulaResult(sh, x) = FormulaResult(sh, x)
    /\ \A sh, r, x, v : XlsXml!PushArrayFormula(sh, r, x, v) = PushArrayFormula(sh, r, x, v)
    /\ \A ss : XlsXml!CommitSegments(ss) = CommitSegments(ss)
    /\ \A ss, x : /\ XlsXml!SetSegment(ss, x) = SetSegment(ss, x)
                  /\ XlsXml!AppendSegment(ss, x) = AppendSegment(ss, x)
                  /\ XlsXml!AppendString(ss, x) = AppendString(ss, x)
<1> USE DEF XlsXml!NoText, NoText, XlsXml!Nowhere, Nowhere, XlsXml!NoTokens, NoTokens, XlsXml!Tokens, Tokens,
            XlsXml!Cell, Cell, XlsXml!Positions, Positions, XlsXml!InRectangle, InRectangle, XlsXml!Rectangle, Rectangle,
            XlsXml!NoRectangle, NoRectangle, XlsXml!MissingResult, MissingResult
<1>1. XlsXml!NewSheet = NewSheet /\ XlsXml!NewStrings = NewStrings
  BY DEF XlsXml!NewSheet, NewSheet, XlsXml!EmptyCell, EmptyCell, XlsXml!PlainLine, PlainLine, XlsXml!FreshFormula,
         FreshFormula, XlsXml!FreshArray, FreshArray, XlsXml!NewStrings, NewStrings
<1>2. ASSUME NEW sh, NEW c, NEW n, NEW v
      PROVE  /\ XlsXml!SetColumnFormat(sh, c, n, v) = SetColumnFormat(sh, c, n, v)
             /\ XlsXml!SetColumnWidth(sh, c, n, v) = SetColumnWidth(sh, c, n, v)
             /\ XlsXml!SetColumnHidden(sh, c, n, v) = SetColumnHidden(sh, c, n, v)
  BY DEF XlsXml!SetColumnFormat, SetColumnFormat, XlsXml!Span, Span, XlsXml!SetColumnWidth, SetColumnWidth,
         XlsXml!SetColumnHidden, SetColumnHidden
<1>3. ASSUME NEW sh, NEW r, NEW v
      PROVE  /\ XlsXml!SetRowFormat(sh, r, v) = SetRowFormat(sh, r, v)
             /\ XlsXml!SetRowHeight(sh, r, v) = SetRowHeight(sh, r, v)
             /\ XlsXml!SetRowHidden(sh, r, v) = SetRowHidden(sh, r, v)
             /\ XlsXml!SetValue(sh, r, v) = SetValue(sh, r, v)
             /\ XlsXml!SetString(sh, r, v) = SetString(sh, r, v)
             /\ XlsXml!SetFormat(sh, r, v) = SetFormat(sh, r, v)
  BY DEF XlsXml!SetRowFormat, SetRowFormat, XlsXml!SetRowHeight, SetRowHeight, XlsXml!SetRowHidden, SetRowHidden,
         XlsXml!SetValue, SetValue, XlsXml!SetCell, SetCell, XlsXml!SetString, SetString, XlsXml!SetFormat, SetFormat
<1>4. ASSUME NEW sh
      PROVE  /\ XlsXml!GetFormula(sh) = GetFormula(sh)
             /\ XlsXml!CommitFormula(sh) = CommitFormula(sh)
             /\ XlsXml!GetArray(sh) = GetArray(sh)
  BY DEF XlsXml!GetFormula, GetFormula, XlsXml!FreshFormula, FreshFormula, XlsXml!CommitFormula, CommitFormula,
         XlsXml!AddShared, AddShared, XlsXml!GetArray, GetArray, XlsXml!FreshArray, FreshArray
<1>5. ASSUME NEW sh, NEW x
      PROVE  /\ XlsXml!SetMergeCellRange(sh, x) = SetMergeCellRange(sh, x)
             /\ XlsXml!FormulaPosition(sh, x) = FormulaPosition(sh, x)
             /\ XlsXml!FormulaText(sh, x) = FormulaText(sh, x)
             /\ XlsXml!FormulaResult(sh, x) = FormulaResult(sh, x)
  BY DEF XlsXml!SetMergeCellRange, SetMergeCellRange, XlsXml!ValidRange, ValidRange, XlsXml!FormulaPosition,
         FormulaPosition, XlsXml!FormulaText, FormulaText, XlsXml!FormulaResult, FormulaResult
<1>6. ASSUME NEW sh, NEW r, NEW x, NEW v
      PROVE  XlsXml!PushArrayFormula(sh, r, x, v) = PushArrayFormula(sh, r, x, v)
  <2>1. \A s, y : XlsXml!ArrayRange(s, y) = ArrayRange(s, y)
    BY DEF XlsXml!ArrayRange, ArrayRange, XlsXml!ValidRange, ValidRange, XlsXml!ClampRange, ClampRange, XlsXml!Least,
           Least, XlsXml!ResultsOf, ResultsOf, XlsXml!Offsets, Offsets
  <2>2. \A s, y : XlsXml!ArrayText(s, y) = ArrayText(s, y)
    BY DEF XlsXml!ArrayText, ArrayText
  <2>3. \A s, y : XlsXml!ArrayResults(s, y) = ArrayResults(s, y)
    BY DEF XlsXml!ArrayResults, ArrayResults
  <2>4. \A s : XlsXml!CommitArray(s) = CommitArray(s)
    BY DEF XlsXml!CommitArray, CommitArray, XlsXml!Offset, Offset
  <2> QED BY <2>1, <2>2, <2>3, <2>4 DEF XlsXml!PushArrayFormula, PushArrayFormula
<1>7. ASSUME NEW ss PROVE XlsXml!CommitSegments(ss) = CommitSegments(ss)
  BY DEF XlsXml!CommitSegments, CommitSegments
<1>8. ASSUME NEW ss, NEW x
      PROVE  /\ XlsXml!SetSegment(ss, x) = SetSegment(ss, x)
             /\ XlsXml!AppendSegment(ss, x) = AppendSegment(ss, x)
             /\ XlsXml!AppendString(ss, x) = AppendString(ss, x)
  BY DEF XlsXml!SetSegment, SetSegment, XlsXml!AppendSegment, AppendSegment, XlsXml!AppendString, AppendString
<1> QED BY <1>1, <1>2, <1>3, <1>4, <1>5, <1>6, <1>7, <1>8

SegmentsOK(segments) == IsSeq(segments) /\ \A k \in DOMAIN segments : IsSeq(segments[k].text)
XlsXmlOK(c) ==
    /\ {"segments", "arrays"} \subseteq DOMAIN c
    /\ SegmentsOK(c.segments) /\ IsSeq(c.arrays)

LEMMA SeqOfOne ==
    \A x : IsSeq(<<x>>)
<1>1. ASSUME NEW x PROVE <<x>> \in Seq({x})
  OBVIOUS
<1> QED BY <1>1 DEF IsSeq

LEMMA SeqExcept ==
    ASSUME NEW s, IsSeq(s), NEW k, NEW x PROVE IsSeq([s EXCEPT ![k] = x])
<1> DEFINE f == [s EXCEPT ![k] = x]
<1>1. PICK n \in Nat : n = Len(s) /\ DOMAIN s = 1 .. n
  BY SeqBasics
<1>2. DOMAIN f = 1 .. n /\ f = [j \in DOMAIN f |-> f[j]]
  BY <1>1
<1> HIDE DEF f
<1>3. IsSeq(f)
  BY <1>2, SeqOfNumbers
<1> QED BY <1>3 DEF f

\* The array formulas that go to the document.
PushOneArray(p, st, a) == PushArrayFormula(st, a.ref, a.text, a.results)
SheetSoFar(p, k, st) == SheetOK(st, p[1], p[2])
PushingArrays == INSTANCE Folding WITH Op <- PushOneArray, Good <- SheetSoFar

LEMMA PushArraysOK ==
    ASSUME NEW sh, NEW any, NEW ids, SheetOK(sh, any, ids), NEW arrays, IsSeq(arrays)
    PROVE  SheetOK(XlsXml!PushArrays(sh, arrays), any, ids)
<1> DEFINE p == <<any, ids>>
<1>1. XlsXml!PushArrays(sh, arrays) = PushingArrays!Folded(p, sh, arrays)
  <2>1. \A s, r, x, v : XlsXml!PushArrayFormula(s, r, x, v) = PushArrayFormula(s, r, x, v)
    BY XlsXmlCalls
  <2> QED BY Zenon, <2>1 DEF XlsXml!PushArrays, PushingArrays!Folded, PushOneArray, XlsXml!FoldLeft, PushingArrays!FoldLeft,
                XlsXml!MapThenFoldSet, PushingArrays!MapThenFoldSet, XlsXml!Max, PushingArrays!Max
<1>2. PICK n \in Nat : n = Len(arrays)
  BY SeqBasics
<1>3. DOMAIN arrays = 1 .. n
  BY <1>2, SeqBasics
<1>4. SheetSoFar(p, 0, sh)
  BY DEF SheetSoFar
<1>5. \A k \in 1 .. n : \A st : SheetSoFar(p, k - 1, st) => SheetSoFar(p, k, PushOneArray(p, st, arrays[k]))
  BY ArrayOK DEF SheetSoFar, PushOneArray
<1> HIDE DEF p
<1>6. SheetSoFar(p, n, PushingArrays!Folded(p, sh, arrays))
  BY <1>3, <1>4, <1>5, PushingArrays!FoldKeeps
<1> QED BY <1>1, <1>6 DEF SheetSoFar, p

\* The array formulas above the current row, and the others.
TakeAbove(p, st, i) == IF XlsXml!Above(i) THEN Append(st, cxt.arrays[i]) ELSE st
TakeOther(p, st, i) == IF XlsXml!NotAbove(i) THEN Append(st, cxt.arrays[i]) ELSE st
TakingAbove == INSTANCE Folding WITH Op <- TakeAbove, Good <- SeqSoFar
TakingOther == INSTANCE Folding WITH Op <- TakeOther, Good <- SeqSoFar

LEMMA ArraysAreSeqs ==
    ASSUME IsSeq(cxt.arrays)
    PROVE  IsSeq(XlsXml!AboveHere) /\ IsSeq(XlsXml!ArraysThat(XlsXml!NotAbove))
<1> DEFINE all == [i \in DOMAIN cxt.arrays |-> i]
<1>1. PICK n \in Nat : n = Len(cxt.arrays)
  BY SeqBasics
<1>2. DOMAIN all = 1 .. n
  BY <1>1, SeqBasics
<1>3. XlsXml!AboveHere = TakingAbove!Folded(0, << >>, all)
  BY DEF XlsXml!AboveHere, XlsXml!ArraysThat, TakingAbove!Folded, TakeAbove, XlsXml!FoldLeft, TakingAbove!FoldLeft,
         XlsXml!MapThenFoldSet, TakingAbove!MapThenFoldSet, XlsXml!Max, TakingAbove!Max
<1>4. XlsXml!ArraysThat(XlsXml!NotAbove) = TakingOther!Folded(0, << >>, all)
  BY DEF XlsXml!ArraysThat, TakingOther!Folded, TakeOther, XlsXml!FoldLeft, TakingOther!FoldLeft,
         XlsXml!MapThenFoldSet, TakingOther!MapThenFoldSet, XlsXml!Max, TakingOther!Max
<1> HIDE DEF all
<1>5. SeqSoFar(0, 0, << >>)
  BY SeqEmpty DEF SeqSoFar
<1>6. \A k \in 1 .. n : \A st : SeqSoFar(0, k - 1, st) => SeqSoFar(0, k, TakeAbove(0, st, all[k]))
  BY SeqAppend DEF SeqSoFar, TakeAbove
<1>7. \A k \in 1 .. n : \A st : SeqSoFar(0, k - 1, st) => SeqSoFar(0, k, TakeOther(0, st, all[k]))
  BY SeqAppend DEF SeqSoFar, TakeOther
<1>8. SeqSoFar(0, n, TakingAbove!Folded(0, << >>, all))
  BY <1>2, <1>5, <1>6, TakingAbove!FoldKeeps
<1>9. SeqSoFar(0, n, TakingOther!Folded(0, << >>, all))
  BY <1>2, <1>5, <1>7, TakingOther!FoldKeeps
<1> QED BY <1>3, <1>4, <1>8, <1>9 DEF SeqSoFar

\* The segments of a string with formats.
PutSegment(p, st, seg) == AppendSegment(SetSegment(st, XlsXml!Explicit(seg.fmt)), seg.text)
StringsSoFar(p, k, st) == StringsOK(st) /\ st.table = p
PuttingSegments == INSTANCE Folding WITH Op <- PutSegment, Good <- StringsSoFar

LEMMA SegmentOK ==
    ASSUME NEW p, NEW st, StringsOK(st), st.table = p, NEW props, NEW text, IsSeq(text)
    PROVE  LET t == AppendSegment(SetSegment(st, props), text) IN StringsOK(t) /\ t.table = p
<1>1. StringsOK(SetSegment(st, props)) /\ SetSegment(st, props).table = p
  BY SetSegmentCall
<1> QED BY <1>1, AppendSegmentCall

LEMMA StoreStringOK ==
    ASSUME NEW ss, StringsOK(ss), SegmentsOK(cxt.segments), cxt.segments # << >>
    PROVE  LET t == XlsXml!StoreString(ss) IN
           StringsOK(t) /\ Grew(ss, t) /\ Len(t.table) \in DOMAIN t.table
<1> DEFINE t == XlsXml!StoreString(ss)
           all == PuttingSegments!Folded(ss.table, ss, cxt.segments)
<1>1. PICK n \in Nat : n = Len(cxt.segments)
  BY SeqBasics DEF SegmentsOK
<1>2. DOMAIN cxt.segments = 1 .. n
  BY <1>1, SeqBasics DEF SegmentsOK
<1>3. CASE XlsXml!PlainString
  <2>1. IsSeq(cxt.segments[1].text)
    BY <1>1, <1>2, <1>3 DEF XlsXml!PlainString, SegmentsOK
  <2>2. t = AppendString(ss, cxt.segments[1].text)
    BY <1>3, XlsXmlCalls DEF XlsXml!StoreString
  <2> HIDE DEF t
  <2>3. StringsOK(t) /\ Grew(ss, t) /\ Len(t.table) \in DOMAIN t.table
    BY Zenon, <2>1, <2>2, AppendStringCall
  <2> QED BY <2>3 DEF t
<1>4. CASE ~XlsXml!PlainString
  <2>1. t = CommitSegments(all)
    <3>1. \A s, x : /\ XlsXml!SetSegment(s, x) = SetSegment(s, x)
                    /\ XlsXml!AppendSegment(s, x) = AppendSegment(s, x)
      BY XlsXmlCalls
    <3>2. \A s : XlsXml!CommitSegments(s) = CommitSegments(s)
      BY XlsXmlCalls
    <3> DEFINE own(x, y) == XlsXml!AppendSegment(XlsXml!SetSegment(x, XlsXml!Explicit(y.fmt)), y.text)
    <3>3. t = CommitSegments(XlsXml!FoldLeft(LAMBDA s, seg : own(s, seg), ss, cxt.segments))
      BY Zenon, <1>4, <3>2 DEF XlsXml!StoreString
    <3>4. \A x, y : own(x, y) = PutSegment(ss.table, x, y)
      BY <3>1 DEF PutSegment
    <3> HIDE DEF t, own
    <3>5. XlsXml!FoldLeft(LAMBDA s, seg : own(s, seg), ss, cxt.segments) = all
      BY Zenon, <3>4 DEF PuttingSegments!Folded, XlsXml!FoldLeft, PuttingSegments!FoldLeft,
               XlsXml!MapThenFoldSet, PuttingSegments!MapThenFoldSet, XlsXml!Max, PuttingSegments!Max
    <3> QED BY Zenon, <3>3, <3>5
  <2>2. StringsSoFar(ss.table, 0, ss)
    BY DEF StringsSoFar
  <2>3. ASSUME NEW k \in 1 .. n, NEW st, StringsSoFar(ss.table, k - 1, st)
        PROVE  StringsSoFar(ss.table, k, PutSegment(ss.table, st, cxt.segments[k]))
    <3>1. IsSeq(cxt.segments[k].text)
      BY <1>2 DEF SegmentsOK
    <3> QED BY <2>3, <3>1, SegmentOK DEF StringsSoFar, PutSegment
  <2>4. StringsSoFar(ss.table, n, all)
    BY <1>2, <2>2, <2>3, PuttingSegments!FoldKeeps
  <2> HIDE DEF all, t
  <2>5. StringsOK(t) /\ Grew(all, t) /\ Len(t.table) \in DOMAIN t.table
    BY <2>1, <2>4, CommitSegmentsCall DEF StringsSoFar
  <2> QED BY <2>4, <2>5 DEF StringsSoFar, Grew, t
<1> QED BY <1>3, <1>4

LEMMA XlsXmlStep ==
    ASSUME SheetOK(sheet, FALSE, DOMAIN strings.table), StringsOK(strings), XlsXmlOK(cxt), XlsXml!Next
    PROVE  SheetOK(sheet', FALSE, DOMAIN strings'.table) /\ StringsOK(strings') /\ XlsXmlOK(cxt')
<1> DEFINE ids == DOMAIN strings.table
<1> USE DEF XlsXmlOK
<1>1. ASSUME NEW a \in TableAttrs, XlsXml!StartTable(a)
      PROVE  sheet' = sheet /\ strings' = strings /\ XlsXmlOK(cxt')
  BY <1>1 DEF XlsXml!StartTable
<1>2. ASSUME NEW a \in ColumnAttrs, XlsXml!StartColumn(a)
      PROVE  SheetOK(sheet', FALSE, ids) /\ strings' = strings /\ XlsXmlOK(cxt')
  <2> DEFINE c == IF a.index > 0 THEN cxt.tablecol + a.index - 1 ELSE cxt.propcol
             n == a.span + 1
             wide == SetColumnWidth(sheet, c, n, a.width)
             sized == SetColumnHidden(wide, c, n, a.hidden)
  <2>1. /\ sheet' = IF a.style \in StyleIds THEN SetColumnFormat(sized, c, n, a.style) ELSE sized
        /\ cxt' = [cxt EXCEPT !.propcol = c + a.span + 1] /\ strings' = strings
    BY <1>2, XlsXmlCalls DEF XlsXml!StartColumn
  <2> HIDE DEF c, n
  <2>2. SheetOK(wide, FALSE, ids)
    BY Zenon, LinesOK, LineCalls DEF SheetOK
  <2> HIDE DEF wide
  <2>3. SheetOK(sized, FALSE, ids)
    BY <2>2, LinesOK, LineCalls DEF SheetOK
  <2> HIDE DEF sized
  <2>4. SheetOK(SetColumnFormat(sized, c, n, a.style), FALSE, ids)
    BY <2>3, LinesOK, LineCalls DEF SheetOK
  <2> QED BY Zenon, <2>1, <2>3, <2>4
<1>3. ASSUME NEW a \in LineAttrs, XlsXml!StartRow(a)
      PROVE  SheetOK(sheet', FALSE, ids) /\ strings' = strings /\ XlsXmlOK(cxt')
  <2> DEFINE row == IF a.index > 0 /\ ~a.broken THEN a.index - 1 ELSE cxt.row
             styled == IF a.style \in StyleIds THEN SetRowFormat(sheet, row, a.style) ELSE sheet
             sized == IF a.height > 0 THEN SetRowHeight(styled, row, a.height) ELSE styled
  <2>1. /\ sheet' = sheet \/ sheet' = sized \/ sheet' = SetRowHidden(sized, row, TRUE)
        /\ cxt' = [cxt EXCEPT !.phase = "row", !.row = row, !.col = cxt.tablecol] /\ strings' = strings
    BY <1>3, XlsXmlCalls DEF XlsXml!StartRow
  <2> HIDE DEF row
  <2>2. SheetOK(styled, FALSE, ids)
    BY Zenon, LinesOK, LineCalls DEF SheetOK
  <2> HIDE DEF styled
  <2>3. SheetOK(sized, FALSE, ids)
    BY Zenon, <2>2, LinesOK, LineCalls DEF SheetOK
  <2> HIDE DEF sized
  <2>4. SheetOK(SetRowHidden(sized, row, TRUE), FALSE, ids)
    BY Zenon, <2>3, LinesOK, LineCalls DEF SheetOK
  <2> QED BY <2>1, <2>3, <2>4
<1>4. ASSUME NEW a \in XlsCellAttrs, XlsXml!StartCell(a)
      PROVE  sheet' = sheet /\ strings' = strings /\ XlsXmlOK(cxt')
  BY <1>4 DEF XlsXml!StartCell
<1>5. ASSUME NEW t, XlsXml!StartData(t)
      PROVE  sheet' = sheet /\ strings' = strings /\ XlsXmlOK(cxt')
  BY <1>5, SeqEmpty DEF XlsXml!StartData, SegmentsOK
<1>6. ASSUME NEW f, XlsXml!StartMark(f)
      PROVE  sheet' = sheet /\ strings' = strings /\ XlsXmlOK(cxt')
  BY <1>6 DEF XlsXml!StartMark
<1>7. CASE XlsXml!EndMark \/ XlsXml!EndRow \/ XlsXml!Pushed
  <2>1. sheet' = sheet /\ strings' = strings /\ XlsXmlOK(cxt')
    BY Zenon, <1>7 DEF XlsXml!EndMark, XlsXml!EndRow, XlsXml!Pushed
  <2> QED BY <2>1
<1>8. ASSUME XlsXml!Characters
      PROVE  sheet' = sheet /\ strings' = strings /\ XlsXmlOK(cxt')
  <2> DEFINE piece == 10 * Len(file) + 1 + Len(XlsXml!Now.texts)
             segment == [text |-> <<piece>>, fmt |-> XlsXml!Range(cxt.open)]
             segments == Append(cxt.segments, segment)
  <2>1. /\ \/ cxt' = [cxt EXCEPT !.segments = segments]
           \/ cxt' = [cxt EXCEPT !.value = <<piece>>]
           \/ cxt' = cxt
        /\ sheet' = sheet /\ strings' = strings
    BY <1>8 DEF XlsXml!Characters
  <2>2. segment.text = <<piece>>
    BY Zenon
  <2> HIDE DEF segment
  <2>3. SegmentsOK(segments)
    <3>1. IsSeq(segment.text)
      BY <2>2, SeqOfOne
    <3>2. PICK n \in Nat : n = Len(cxt.segments)
      BY SeqBasics DEF SegmentsOK
    <3>3. /\ IsSeq(segments) /\ DOMAIN segments = 1 .. n + 1 /\ DOMAIN cxt.segments = 1 .. n
          /\ \A k \in 1 .. n : segments[k] = cxt.segments[k]
          /\ segments[n + 1] = segment
      BY <3>2, SeqAppend, SeqBasics DEF SegmentsOK
    <3> HIDE DEF segments
    <3>4. ASSUME NEW k \in DOMAIN segments PROVE IsSeq(segments[k].text)
      <4>1. CASE k = n + 1
        BY <3>1, <3>3, <4>1
      <4>2. CASE k \in 1 .. n
        BY <3>3, <4>2 DEF SegmentsOK
      <4> QED BY <3>3, <4>1, <4>2
    <3> QED BY <3>3, <3>4 DEF SegmentsOK
  <2> HIDE DEF segments, piece
  <2> QED BY <2>1, <2>3
<1>9. ASSUME XlsXml!EndDataOfFormula
      PROVE  sheet' = sheet /\ strings' = strings /\ XlsXmlOK(cxt')
  <2> DEFINE c == XlsXml!StoreFormula(cxt)
  <2>1. cxt' = [XlsXml!DataEnds(c) EXCEPT !.formula = XlsXml!NoText] /\ sheet' = sheet /\ strings' = strings
    BY <1>9 DEF XlsXml!EndDataOfFormula
  <2>2. XlsXmlOK(c)
    <3>1. (\E x : c = [cxt EXCEPT !.arrays = Append(cxt.arrays, x)])
          \/ (\E x : c = [cxt EXCEPT !.formulas = x])
      BY DEF XlsXml!StoreFormula
    <3>2. \A x : IsSeq(Append(cxt.arrays, x))
      BY SeqAppend
    <3> HIDE DEF c
    <3> QED BY Zenon, <3>1, <3>2
  <2> HIDE DEF c
  <2> QED BY <2>1, <2>2 DEF XlsXml!DataEnds
<1> DEFINE sh == IF XlsXml!AboveHere = << >> THEN sheet ELSE XlsXml!PushArrays(GetArray(sheet), XlsXml!AboveHere)
<1>10. SheetOK(sh, FALSE, ids)
  BY GetArrayOK, PushArraysOK, ArraysAreSeqs
<1>11. ASSUME XlsXml!EndDataOfArray
      PROVE  SheetOK(sheet', FALSE, ids) /\ strings' = strings /\ XlsXmlOK(cxt')
  <2> DEFINE arrays == XlsXml!WithResult(XlsXml!ArraysThat(XlsXml!NotAbove))
  <2>1. /\ sheet' = sh /\ strings' = strings
        /\ cxt' = XlsXml!DataEnds([cxt EXCEPT !.arrays = arrays])
    BY <1>11, XlsXmlCalls DEF XlsXml!EndDataOfArray
  <2>2. IsSeq(arrays)
    BY Zenon, ArraysAreSeqs, SeqExcept DEF XlsXml!WithResult
  <2> HIDE DEF arrays, sh
  <2>3. XlsXmlOK(cxt')
    BY <2>1, <2>2 DEF XlsXml!DataEnds
  <2> QED BY <1>10, <2>1, <2>3
<1>12. ASSUME XlsXml!EndDataOfValue
      PROVE  SheetOK(sheet', FALSE, DOMAIN strings'.table) /\ StringsOK(strings') /\ XlsXmlOK(cxt')
  <2> DEFINE arrays == XlsXml!ArraysThat(XlsXml!NotAbove)
  <2>1. /\ \/ sheet' = SetValue(sh, XlsXml!Here, cxt.value) /\ strings' = strings
           \/ /\ cxt.segments # << >> /\ strings' = XlsXml!StoreString(strings)
              /\ sheet' = SetString(sh, XlsXml!Here, <<Len(strings'.table)>>)
           \/ sheet' = sh /\ strings' = strings
        /\ cxt' = [XlsXml!DataEnds(cxt) EXCEPT !.arrays = arrays, !.segments = << >>]
    BY <1>12, XlsXmlCalls DEF XlsXml!EndDataOfValue
  <2>2. IsSeq(arrays)
    BY ArraysAreSeqs
  <2> HIDE DEF arrays, sh
  <2>3. XlsXmlOK(cxt')
    BY <2>1, <2>2, SeqEmpty DEF XlsXml!DataEnds, SegmentsOK
  <2>4. CASE sheet' = SetValue(sh, XlsXml!Here, cxt.value) /\ strings' = strings
    BY <1>10, <2>3, <2>4, ValuesOK
  <2>5. CASE /\ cxt.segments # << >> /\ strings' = XlsXml!StoreString(strings)
             /\ sheet' = SetString(sh, XlsXml!Here, <<Len(strings'.table)>>)
    <3>1. StringsOK(strings') /\ Grew(strings, strings') /\ Len(strings'.table) \in DOMAIN strings'.table
      BY <2>5, StoreStringOK
    <3>2. SheetOK(sh, FALSE, DOMAIN strings'.table)
      BY Zenon, <1>10, <3>1, MoreStrings DEF Grew
    <3> QED BY <2>3, <2>5, <3>1, <3>2, ValuesOK
  <2>6. CASE sheet' = sh /\ strings' = strings
    BY Zenon, <1>10, <2>3, <2>6
  <2> QED BY Zenon, <2>1, <2>4, <2>5, <2>6
<1>13. ASSUME XlsXml!EndCell
      PROVE  SheetOK(sheet', FALSE, ids) /\ strings' = strings /\ XlsXmlOK(cxt')
  <2> DEFINE range == XlsXml!Rectangle(XlsXml!Here, <<cxt.row + cxt.down, cxt.col + cxt.across>>)
             merged == IF cxt.across > 0 \/ cxt.down > 0 THEN SetMergeCellRange(sheet, range) ELSE sheet
  <2>1. /\ sheet' = merged \/ sheet' = SetFormat(merged, XlsXml!Rectangle(XlsXml!Here, XlsXml!Here), cxt.style)
        /\ strings' = strings
        /\ \E x, y, z : cxt' = [cxt EXCEPT !.phase = "row", !.formula = x, !.col = y, !.formulas = z]
    BY Zenon, <1>13, XlsXmlCalls DEF XlsXml!EndCell
  <2>2. SheetOK(merged, FALSE, ids)
    BY MergeOK
  <2> HIDE DEF merged
  <2>3. XlsXmlOK(cxt')
    BY <2>1
  <2>4. SheetOK(SetFormat(merged, XlsXml!Rectangle(XlsXml!Here, XlsXml!Here), cxt.style), FALSE, ids)
    BY <2>2, FormatOK
  <2> QED BY Zenon, <2>1, <2>2, <2>3, <2>4
<1>14. ASSUME XlsXml!EndTable
      PROVE  SheetOK(sheet', FALSE, ids) /\ strings' = strings /\ XlsXmlOK(cxt')
  <2>1. /\ sheet' = XlsXml!PushArrays(GetArray(sheet), cxt.arrays) /\ strings' = strings
        /\ cxt' = [cxt EXCEPT !.phase = "worksheet", !.arrays = << >>, !.tablecol = 0, !.row = 0, !.propcol = 0]
    BY <1>14, XlsXmlCalls DEF XlsXml!EndTable
  <2>2. XlsXmlOK(cxt')
    BY <2>1, SeqEmpty
  <2> QED BY <2>1, <2>2, GetArrayOK, PushArraysOK
<1>15. ASSUME XlsXml!EndWorkbook
      PROVE  SheetOK(sheet', FALSE, ids) /\ strings' = strings /\ XlsXmlOK(cxt')
  <2>1. sheet' = GetFormula(sheet) /\ strings' = strings /\ cxt' = [cxt EXCEPT !.phase = "push"]
    BY <1>15, XlsXmlCalls DEF XlsXml!EndWorkbook
  <2> QED BY <2>1, GetFormulaOK
<1>16. ASSUME XlsXml!PushFormula
      PROVE  SheetOK(sheet', FALSE, ids) /\ strings' = strings /\ XlsXmlOK(cxt')
  <2> DEFINE f == Head(cxt.formulas)
             given == FormulaText(FormulaPosition(sheet, f.pos), f.text)
  <2>1. /\ sheet' = CommitFormula(IF f.result = NoText THEN given ELSE FormulaResult(given, f.result))
        /\ strings' = strings
        /\ cxt' = [cxt EXCEPT !.formulas = Tail(cxt.formulas)]
    BY <1>16, XlsXmlCalls DEF XlsXml!PushFormula, XlsXml!NoText, NoText
  <2> HIDE DEF f
  <2>2. SheetOK(sheet', FALSE, ids)
    BY <2>1, RegularOK
  <2> QED BY <2>1, <2>2
<1> HIDE DEF XlsXmlOK, sh
<1> QED
  BY Zenon, <1>1, <1>2, <1>3, <1>4, <1>5, <1>6, <1>7, <1>8, <1>9, <1>11, <1>12, <1>13, <1>14, <1>15, <1>16
     DEF XlsXml!Next

----------------------------------------------------------------------------
(* The sheets of Gnumeric.                                                 *)

LEMMA GnumericCalls ==
    /\ Gnumeric!NewSheet = NewSheet /\ Gnumeric!NewStrings = NewStrings
    /\ \A sh, c, n, v : /\ Gnumeric!SetColumnWidth(sh, c, n, v) = SetColumnWidth(sh, c, n, v)
                        /\ Gnumeric!SetColumnHidden(sh, c, n, v) = SetColumnHidden(sh, c, n, v)
    /\ \A sh, r, v : /\ Gnumeric!SetValue(sh, r, v) = SetValue(sh, r, v)
                     /\ Gnumeric!SetString(sh, r, v) = SetString(sh, r, v)
                     /\ Gnumeric!SetBool(sh, r, v) = SetBool(sh, r, v)
                     /\ Gnumeric!SetFormat(sh, r, v) = SetFormat(sh, r, v)
    /\ \A sh : /\ Gnumeric!GetFormula(sh) = GetFormula(sh)
               /\ Gnumeric!CommitFormula(sh) = CommitFormula(sh)
               /\ Gnumeric!GetArray(sh) = GetArray(sh)
               /\ Gnumeric!CommitArray(sh) = CommitArray(sh)
    /\ \A sh, x : /\ Gnumeric!SetMergeCellRange(sh, x) = SetMergeCellRange(sh, x)
                  /\ Gnumeric!FormulaPosition(sh, x) = FormulaPosition(sh, x)
                  /\ Gnumeric!FormulaText(sh, x) = FormulaText(sh, x)
                  /\ Gnumeric!FormulaSharedIndex(sh, x) = FormulaSharedIndex(sh, x)
                  /\ Gnumeric!ArrayRange(sh, x) = ArrayRange(sh, x)
                  /\ Gnumeric!ArrayText(sh, x) = ArrayText(sh, x)
    /\ \A ss : Gnumeric!CommitSegments(ss) = CommitSegments(ss)
    /\ \A ss, x : /\ Gnumeric!SetSegment(ss, x) = SetSegment(ss, x)
                  /\ Gnumeric!AppendSegment(ss, x) = AppendSegment(ss, x)
                  /\ Gnumeric!AppendString(ss, x) = AppendString(ss, x)
                  /\ Gnumeric!AddString(ss, x) = AddString(ss, x)
                  /\ Gnumeric!StringId(ss, x) = StringId(ss, x)
<1> USE DEF Gnumeric!NoText, NoText, Gnumeric!Nowhere, Nowhere, Gnumeric!NoTokens, NoTokens, Gnumeric!Tokens, Tokens,
            Gnumeric!Cell, Cell, Gnumeric!Positions, Positions, Gnumeric!InRectangle, InRectangle, Gnumeric!Rectangle, Rectangle,
            Gnumeric!NoRectangle, NoRectangle, Gnumeric!MissingResult, MissingResult
<1>1. Gnumeric!NewSheet = NewSheet /\ Gnumeric!NewStrings = NewStrings
  BY DEF Gnumeric!NewSheet, NewSheet, Gnumeric!EmptyCell, EmptyCell, Gnumeric!PlainLine, PlainLine,
         Gnumeric!FreshFormula, FreshFormula, Gnumeric!FreshArray, FreshArray, Gnumeric!NewStrings, NewStrings
<1>2. ASSUME NEW sh, NEW c, NEW n, NEW v
      PROVE  /\ Gnumeric!SetColumnWidth(sh, c, n, v) = SetColumnWidth(sh, c, n, v)
             /\ Gnumeric!SetColumnHidden(sh, c, n, v) = SetColumnHidden(sh, c, n, v)
  BY DEF Gnumeric!SetColumnWidth, SetColumnWidth, Gnumeric!Span, Span, Gnumeric!SetColumnHidden, SetColumnHidden
<1>3. ASSUME NEW sh, NEW r, NEW v
      PROVE  /\ Gnumeric!SetValue(sh, r, v) = SetValue(sh, r, v)
             /\ Gnumeric!SetString(sh, r, v) = SetString(sh, r, v)
             /\ Gnumeric!SetBool(sh, r, v) = SetBool(sh, r, v)
             /\ Gnumeric!SetFormat(sh, r, v) = SetFormat(sh, r, v)
  BY DEF Gnumeric!SetValue, SetValue, Gnumeric!SetCell, SetCell, Gnumeric!SetString, SetString, Gnumeric!SetBool,
         SetBool, Gnumeric!SetFormat, SetFormat
<1>4. ASSUME NEW sh
      PROVE  /\ Gnumeric!GetFormula(sh) = GetFormula(sh)
             /\ Gnumeric!CommitFormula(sh) = CommitFormula(sh)
             /\ Gnumeric!GetArray(sh) = GetArray(sh)
             /\ Gnumeric!CommitArray(sh) = CommitArray(sh)
  BY DEF Gnumeric!GetFormula, GetFormula, Gnumeric!FreshFormula, FreshFormula, Gnumeric!CommitFormula, CommitFormula,
         Gnumeric!AddShared, AddShared, Gnumeric!GetArray, GetArray, Gnumeric!FreshArray, FreshArray, Gnumeric!CommitArray,
         CommitArray, Gnumeric!Offset, Offset
<1>5. ASSUME NEW sh, NEW x
      PROVE  /\ Gnumeric!SetMergeCellRange(sh, x) = SetMergeCellRange(sh, x)
             /\ Gnumeric!FormulaPosition(sh, x) = FormulaPosition(sh, x)
             /\ Gnumeric!FormulaText(sh, x) = FormulaText(sh, x)
             /\ Gnumeric!FormulaSharedIndex(sh, x) = FormulaSharedIndex(sh, x)
             /\ Gnumeric!ArrayRange(sh, x) = ArrayRange(sh, x)
             /\ Gnumeric!ArrayText(sh, x) = ArrayText(sh, x)
  BY DEF Gnumeric!SetMergeCellRange, SetMergeCellRange, Gnumeric!ValidRange, ValidRange, Gnumeric!FormulaPosition,
         FormulaPosition, Gnumeric!FormulaText, FormulaText, Gnumeric!FormulaSharedIndex, FormulaSharedIndex,
         Gnumeric!ArrayRange, ArrayRange, Gnumeric!ClampRange, ClampRange, Gnumeric!Least, Least, Gnumeric!ResultsOf,
         ResultsOf, Gnumeric!Offsets, Offsets, Gnumeric!ArrayText, ArrayText
<1>6. ASSUME NEW ss PROVE Gnumeric!CommitSegments(ss) = CommitSegments(ss)
  BY DEF Gnumeric!CommitSegments, CommitSegments
<1>7. ASSUME NEW ss, NEW x
      PROVE  /\ Gnumeric!SetSegment(ss, x) = SetSegment(ss, x)
             /\ Gnumeric!AppendSegment(ss, x) = AppendSegment(ss, x)
             /\ Gnumeric!AppendString(ss, x) = AppendString(ss, x)
             /\ Gnumeric!AddString(ss, x) = AddString(ss, x)
             /\ Gnumeric!StringId(ss, x) = StringId(ss, x)
  BY DEF Gnumeric!SetSegment, SetSegment, Gnumeric!AppendSegment, AppendSegment, Gnumeric!AppendString, AppendString,
         Gnumeric!AddString, AddString, Gnumeric!HasString, HasString, Gnumeric!StringId, StringId
<1> QED BY <1>1, <1>2, <1>3, <1>4, <1>5, <1>6, <1>7

LEMMA GnumericRows ==
    ASSUME NEW sh, IsSheet(sh), NEW r, NEW n, NEW size, NEW hidden
    PROVE  LinesOnly(sh, Gnumeric!SetRows(sh, r, n, size, hidden))
<1> DEFINE rows == [q \in DOMAIN sh.rows |-> IF r <= q /\ q < r + n
                                             THEN [sh.rows[q] EXCEPT !.size = size, !.hidden = hidden]
                                             ELSE sh.rows[q]]
           t == Gnumeric!SetRows(sh, r, n, size, hidden)
<1>1. t = [sh EXCEPT !.rows = rows]
  BY DEF Gnumeric!SetRows
<1> HIDE DEF rows, t
<1>2. LinesOnly(sh, t)
  BY <1>1 DEF LinesOnly, SameCells, SameObjects, IsSheet
<1> QED BY <1>2 DEF t

SegmentsAreIn(cell) == \A s \in cell.segments : s.start \in Nat /\ s.end \in Nat
GnumericOK(c) ==
    /\ {"chars", "cell", "gap", "regions"} \subseteq DOMAIN c
    /\ IsSeq(c.chars) /\ IsSeq(c.gap) /\ IsSeq(c.regions) /\ SegmentsAreIn(c.cell)

LEMMA NoCellOK ==
    SegmentsAreIn(Gnumeric!NoCell)
BY DEF Gnumeric!NoCell, SegmentsAreIn

LEMMA GnumericNumberedIsSeq ==
    ASSUME NEW t \in GnmTexts PROVE IsSeq(Gnumeric!Numbered(t))
<1>1. Len(t) \in Nat /\ DOMAIN t = 1 .. Len(t)
  BY TextsAssumption
<1> DEFINE f == Gnumeric!Numbered(t)
<1>2. DOMAIN f = 1 .. Len(t) /\ f = [k \in DOMAIN f |-> f[k]]
  BY <1>1 DEF Gnumeric!Numbered
<1> HIDE DEF f
<1>3. IsSeq(f)
  BY <1>1, <1>2, SeqOfNumbers
<1> QED BY <1>3 DEF f

\* The text from one boundary to the next.
LEMMA NextBoundaryIsIn ==
    ASSUME IsSeq(cxt.chars), SegmentsAreIn(cxt.cell), NEW k \in Nat, k < Len(cxt.chars)
    PROVE  LET m == Gnumeric!NextBoundary(k) IN m \in Nat /\ k < m /\ m <= Len(cxt.chars)
<1> DEFINE T == {m \in Gnumeric!Boundaries : k < m}
<1>1. Len(cxt.chars) \in Nat
  BY SeqBasics
<1>2. Gnumeric!Boundaries \subseteq Nat /\ Len(cxt.chars) \in Gnumeric!Boundaries
  BY <1>1 DEF Gnumeric!Boundaries, SegmentsAreIn
<1>3. T \subseteq Nat /\ T # {}
  BY <1>1, <1>2
<1>4. PICK m \in T : \A n \in T : m <= n
  BY <1>3, LeastNumber
<1>5. m \in Gnumeric!Boundaries /\ k < m /\ \A n \in Gnumeric!Boundaries : k < n => m <= n
  BY <1>4
<1> DEFINE next == Gnumeric!NextBoundary(k)
<1>6. next \in Gnumeric!Boundaries /\ k < next /\ \A n \in Gnumeric!Boundaries : k < n => next <= n
  BY <1>5 DEF Gnumeric!NextBoundary
<1> HIDE DEF next
<1> QED BY <1>1, <1>2, <1>6 DEF next

PutAt(p, st, k) == Gnumeric!AppendAt(st, k)
PuttingFormats == INSTANCE Folding WITH Op <- PutAt, Good <- StringsSoFar

LEMMA StringIdCall ==
    ASSUME NEW ss, StringsOK(ss), NEW text, HasString(ss, text)
    PROVE  LET i == StringId(ss, text) IN i \in DOMAIN ss.table /\ ss.table[i].text = text
<1> DEFINE T == {i \in DOMAIN ss.table : ss.table[i].text = text}
           i == StringId(ss, text)
<1>1. PICK n \in Nat : DOMAIN ss.table = 1 .. n
  BY SeqBasics DEF StringsOK
<1>2. T \subseteq Nat /\ T # {}
  BY <1>1 DEF HasString
<1>3. PICK m \in T : \A j \in T : m <= j
  BY <1>2, LeastNumber
<1>4. \A j \in 1 .. m - 1 : ss.table[j].text # text
  <2>1. ASSUME NEW j \in 1 .. m - 1, ss.table[j].text = text PROVE FALSE
    <3>1. j \in T /\ j < m
      BY <1>1, <1>3, <2>1
    <3> QED BY <1>1, <1>3, <3>1
  <2> QED BY <2>1
<1>5. i \in DOMAIN ss.table /\ ss.table[i].text = text
  BY <1>3, <1>4 DEF StringId
<1> QED BY <1>5

LEMMA AddStringCall ==
    ASSUME NEW ss, StringsOK(ss), NEW text, IsSeq(text)
    PROVE  LET t == AddString(ss, text) IN
           /\ StringsOK(t) /\ Grew(ss, t)
           /\ StringId(t, text) \in DOMAIN t.table /\ t.table[StringId(t, text)].text = text
<1>1. CASE HasString(ss, text)
  <2>1. AddString(ss, text) = ss
    BY <1>1 DEF AddString
  <2>2. Grew(ss, ss)
    BY SeqBasics DEF Grew, StringsOK
  <2> QED BY <1>1, <2>1, <2>2, StringIdCall
<1>2. CASE ~HasString(ss, text)
  <2> DEFINE t == AppendString(ss, text)
             new == [text |-> text, runs |-> << >>]
  <2>1. AddString(ss, text) = t
    BY <1>2 DEF AddString
  <2>2. StringsOK(t) /\ Grew(ss, t) /\ Len(t.table) \in DOMAIN t.table /\ t.table[Len(t.table)] = new
    BY AppendStringCall
  <2>3. new.text = text
    OBVIOUS
  <2> HIDE DEF t, new
  <2>4. HasString(t, text)
    BY <2>2, <2>3 DEF HasString
  <2> QED BY <2>1, <2>2, <2>4, StringIdCall
<1> QED BY <1>1, <1>2

LEMMA GnumericStringOK ==
    ASSUME SheetOK(sheet, FALSE, DOMAIN strings.table), StringsOK(strings), GnumericOK(cxt), Gnumeric!PushString
    PROVE  SheetOK(sheet', FALSE, DOMAIN strings'.table) /\ StringsOK(strings')
<1>1. CASE cxt.cell.segments = {}
  <2>1. strings' = AddString(strings, cxt.chars)
        /\ sheet' = SetString(sheet, cxt.cell.at, <<StringId(strings', cxt.chars)>>)
    BY <1>1, GnumericCalls DEF Gnumeric!PushString
  <2>2. /\ StringsOK(strings') /\ Grew(strings, strings')
        /\ StringId(strings', cxt.chars) \in DOMAIN strings'.table
    BY <2>1, AddStringCall DEF GnumericOK
  <2>3. SheetOK(sheet, FALSE, DOMAIN strings'.table)
    BY Zenon, <2>2, MoreStrings DEF Grew
  <2> QED BY Zenon, <2>1, <2>2, <2>3, ValuesOK
<1>2. CASE cxt.cell.segments # {}
  <2> DEFINE all == PuttingFormats!Folded(strings.table, strings, Gnumeric!Character)
  <2>1. /\ strings' = CommitSegments(Gnumeric!FoldLeft(Gnumeric!AppendAt, strings, Gnumeric!Character))
        /\ sheet' = SetString(sheet, cxt.cell.at, <<Len(strings'.table)>>)
    BY <1>2, GnumericCalls DEF Gnumeric!PushString
  <2>2. Gnumeric!FoldLeft(Gnumeric!AppendAt, strings, Gnumeric!Character) = all
    BY DEF PuttingFormats!Folded, PutAt, Gnumeric!FoldLeft, PuttingFormats!FoldLeft, Gnumeric!MapThenFoldSet,
           PuttingFormats!MapThenFoldSet, Gnumeric!Max, PuttingFormats!Max
  <2>3. PICK n \in Nat : n = Len(cxt.chars) /\ DOMAIN cxt.chars = 1 .. n
    BY SeqBasics DEF GnumericOK
  <2>4. DOMAIN Gnumeric!Character = 1 .. n /\ \A k \in 1 .. n : Gnumeric!Character[k] = k - 1
    BY <2>3 DEF Gnumeric!Character
  <2>5. StringsSoFar(strings.table, 0, strings)
    BY DEF StringsSoFar
  <2>6. ASSUME NEW k \in 1 .. n, NEW st, StringsSoFar(strings.table, k - 1, st)
        PROVE  StringsSoFar(strings.table, k, PutAt(strings.table, st, Gnumeric!Character[k]))
    <3>1. Gnumeric!Character[k] = k - 1 /\ k - 1 \in Nat /\ k - 1 < Len(cxt.chars)
      BY <2>3, <2>4
    <3> DEFINE j == k - 1
               m == Gnumeric!NextBoundary(j)
               text == SubSeq(cxt.chars, j + 1, m)
    <3>2. m \in Nat /\ j < m /\ m <= Len(cxt.chars)
      BY <3>1, NextBoundaryIsIn DEF GnumericOK
    <3> HIDE DEF m
    <3>3. j + 1 \in Nat /\ 1 <= j + 1 /\ j + 1 <= m
      BY <3>1, <3>2
    <3>4. IsSeq(text)
      BY <3>2, <3>3, SeqSub DEF GnumericOK
    <3>5. Gnumeric!AppendAt(st, j) = st
          \/ Gnumeric!AppendAt(st, j) = AppendSegment(SetSegment(st, Gnumeric!FormatsAt(j)), text)
      BY GnumericCalls DEF Gnumeric!AppendAt, m
    <3> HIDE DEF text, j
    <3>6. StringsOK(Gnumeric!AppendAt(st, j)) /\ Gnumeric!AppendAt(st, j).table = strings.table
      BY <2>6, <3>4, <3>5, SegmentOK DEF StringsSoFar
    <3> QED BY <3>1, <3>6 DEF StringsSoFar, PutAt, j
  <2>7. StringsSoFar(strings.table, n, all)
    BY <2>4, <2>5, <2>6, PuttingFormats!FoldKeeps
  <2> HIDE DEF all
  <2>8. StringsOK(strings') /\ Grew(all, strings') /\ Len(strings'.table) \in DOMAIN strings'.table
    BY <2>1, <2>2, <2>7, CommitSegmentsCall DEF StringsSoFar
  <2>9. SheetOK(sheet, FALSE, DOMAIN strings'.table)
    BY Zenon, <2>7, <2>8, MoreStrings DEF Grew, StringsSoFar
  <2> QED BY <2>1, <2>8, <2>9, ValuesOK
<1> QED BY <1>1, <1>2

\* The styles of the regions: one format after the other.
PutRegion(p, st, region) == Gnumeric!ImportRegion(st, region)
DocumentSoFar(p, k, st) == SheetOK(st.sheet, p[1], p[2])
PuttingRegions == INSTANCE Folding WITH Op <- PutRegion, Good <- DocumentSoFar

LEMMA GnumericStep ==
    ASSUME SheetOK(sheet, FALSE, DOMAIN strings.table), StringsOK(strings), GnumericOK(cxt), Gnumeric!Next
    PROVE  SheetOK(sheet', FALSE, DOMAIN strings'.table) /\ StringsOK(strings') /\ GnumericOK(cxt')
<1> DEFINE ids == DOMAIN strings.table
<1> USE DEF GnumericOK
<1>1. Gnumeric!Ends => GnumericOK(cxt')
  BY NoCellOK DEF Gnumeric!Ends
<1>2. ASSUME NEW a \in GnmLines, Gnumeric!StartLine(a)
      PROVE  SheetOK(sheet', FALSE, ids) /\ strings' = strings /\ cxt' = cxt
  <2> DEFINE wide == SetColumnWidth(sheet, a.no, a.count, a.size)
  <2>1. /\ \/ sheet' = SetColumnHidden(wide, a.no, a.count, a.hidden)
           \/ sheet' = Gnumeric!SetRows(sheet, a.no, a.count, a.size, a.hidden)
        /\ strings' = strings /\ cxt' = cxt
    BY <1>2, GnumericCalls DEF Gnumeric!StartLine
  <2> DEFINE first == a.no
             count == a.count
             done == SetColumnHidden(wide, first, count, a.hidden)
             rows == Gnumeric!SetRows(sheet, first, count, a.size, a.hidden)
  <2> HIDE DEF first, count
  <2>2. IsSheet(sheet)
    BY DEF SheetOK
  <2>3. LinesOnly(sheet, SetColumnWidth(sheet, first, count, a.size))
    BY <2>2, LineCalls
  <2>4. SheetOK(wide, FALSE, ids)
    BY <2>3, LinesOK DEF first, count
  <2> HIDE DEF wide
  <2>5. LinesOnly(wide, done)
    <3>1. IsSheet(wide)
      BY <2>4 DEF SheetOK
    <3> QED BY <3>1, LineCalls
  <2>6. LinesOnly(sheet, rows)
    BY <2>2, GnumericRows
  <2> HIDE DEF done, rows
  <2>7. SheetOK(done, FALSE, ids) /\ SheetOK(rows, FALSE, ids)
    BY Zenon, <2>4, <2>5, <2>6, LinesOK
  <2> QED BY <2>1, <2>7 DEF done, rows, first, count
<1>3. ASSUME NEW ref \in GnmMerges, Gnumeric!Merge(ref)
      PROVE  SheetOK(sheet', FALSE, ids) /\ strings' = strings /\ cxt' = cxt
  <2>1. sheet' = SetMergeCellRange(sheet, ref) /\ strings' = strings /\ cxt' = cxt
    BY <1>3, GnumericCalls DEF Gnumeric!Merge
  <2> QED BY Zenon, <2>1, MergeOK
<1>4. ASSUME NEW ref \in GnmRegions, Gnumeric!StyleRegion(ref)
      PROVE  sheet' = sheet /\ strings' = strings /\ GnumericOK(cxt')
  <2>1. /\ sheet' = sheet /\ strings' = strings
        /\ \E x : cxt' = [cxt EXCEPT !.phase = "region", !.region = x]
    BY Zenon, <1>4 DEF Gnumeric!StyleRegion
  <2> QED BY <2>1
<1>5. ASSUME NEW set, Gnumeric!SetInRegion(set)
      PROVE  sheet' = sheet /\ strings' = strings /\ GnumericOK(cxt')
  <2>1. sheet' = sheet /\ strings' = strings /\ \E x : cxt' = [cxt EXCEPT !.region = x]
    BY <1>5 DEF Gnumeric!SetInRegion
  <2> QED BY <2>1
<1>6. ASSUME Gnumeric!EndStyleRegion
      PROVE  sheet' = sheet /\ strings' = strings /\ GnumericOK(cxt')
  <2>1. /\ sheet' = sheet /\ strings' = strings
        /\ cxt' = [cxt EXCEPT !.phase = "sheet", !.regions = Append(cxt.regions, cxt.region)]
    BY <1>6 DEF Gnumeric!EndStyleRegion
  <2>2. IsSeq(Append(cxt.regions, cxt.region))
    BY SeqAppend
  <2> QED BY <2>1, <2>2
<1>7. ASSUME NEW gap, IsSeq(gap), Gnumeric!StartCells(gap)
      PROVE  sheet' = sheet /\ strings' = strings /\ GnumericOK(cxt')
  <2>1. /\ sheet' = sheet /\ strings' = strings
        /\ cxt' = [cxt EXCEPT !.phase = "cells", !.cell = Gnumeric!NoCell, !.chars = gap, !.gap = gap]
    BY <1>7 DEF Gnumeric!StartCells
  <2> QED BY <1>7, <2>1, NoCellOK
<1>8. ASSUME NEW a \in GnmCellAttrs, Gnumeric!StartCell(a)
      PROVE  sheet' = sheet /\ strings' = strings /\ GnumericOK(cxt')
  <2>1. sheet' = sheet /\ strings' = strings /\ cxt' = [cxt EXCEPT !.phase = "cell", !.cell = a]
    BY <1>8 DEF Gnumeric!StartCell
  <2>2. SegmentsAreIn(a)
    BY SegmentsAssumption DEF SegmentsAreIn
  <2> QED BY <2>1, <2>2
<1>9. ASSUME NEW t \in GnmTexts, Gnumeric!Characters(t)
      PROVE  sheet' = sheet /\ strings' = strings /\ GnumericOK(cxt')
  <2>1. sheet' = sheet /\ strings' = strings /\ cxt' = [cxt EXCEPT !.chars = Gnumeric!Numbered(t)]
    BY <1>9 DEF Gnumeric!Characters
  <2> QED BY <2>1, GnumericNumberedIsSeq
<1>10. ASSUME Gnumeric!EndValue
       PROVE  SheetOK(sheet', FALSE, ids) /\ strings' = strings /\ GnumericOK(cxt')
  <2>1. /\ \/ sheet' = SetBool(sheet, cxt.cell.at, Gnumeric!Number)
           \/ sheet' = SetValue(sheet, cxt.cell.at, Gnumeric!Number)
        /\ strings' = strings /\ Gnumeric!Ends
    BY <1>10, GnumericCalls DEF Gnumeric!EndValue
  <2>2. /\ SheetOK(SetBool(sheet, cxt.cell.at, Gnumeric!Number), FALSE, ids)
        /\ SheetOK(SetValue(sheet, cxt.cell.at, Gnumeric!Number), FALSE, ids)
    BY ValuesOK
  <2> QED BY Zenon, <1>1, <2>1, <2>2
<1>11. ASSUME Gnumeric!EndString
       PROVE  SheetOK(sheet', FALSE, DOMAIN strings'.table) /\ StringsOK(strings') /\ GnumericOK(cxt')
  <2>1. Gnumeric!PushString /\ Gnumeric!Ends
    BY <1>11 DEF Gnumeric!EndString
  <2> QED BY Zenon, <1>1, <2>1, GnumericStringOK
<1>12. ASSUME Gnumeric!EndArray
       PROVE  SheetOK(sheet', FALSE, ids) /\ strings' = strings /\ GnumericOK(cxt')
  <2> DEFINE at == cxt.cell.at
             ref == Gnumeric!Rectangle(at, <<at[1] + cxt.cell.rows - 1, at[2] + cxt.cell.cols - 1>>)
             fresh == GetArray(sheet)
  <2>1. /\ \/ sheet' = CommitArray(ArrayText(ArrayRange(fresh, ref), Tail(cxt.chars)))
           \/ sheet' = fresh
        /\ strings' = strings /\ Gnumeric!Ends
    BY <1>12, GnumericCalls DEF Gnumeric!EndArray
  <2> HIDE DEF ref
  <2>2. SheetOK(fresh, FALSE, ids)
    BY Zenon, GetArrayOK
  <2> HIDE DEF fresh
  <2>3. SheetOK(CommitArray(ArrayText(ArrayRange(fresh, ref), Tail(cxt.chars))), FALSE, ids)
    BY Zenon, <2>2, ArrayFormulaOK
  <2> QED BY Zenon, <1>1, <2>1, <2>2, <2>3
<1> DEFINE fresh == GetFormula(sheet)
           at == FormulaPosition(fresh, cxt.cell.at)
<1>13. SheetOK(fresh, FALSE, ids)
  BY GetFormulaOK
<1>14. ASSUME Gnumeric!EndFormula
       PROVE  SheetOK(sheet', FALSE, ids) /\ strings' = strings /\ GnumericOK(cxt')
  <2>1. /\ sheet' = CommitFormula(FormulaText(at, Tail(cxt.chars))) \/ sheet' = fresh
        /\ strings' = strings /\ Gnumeric!Ends
    BY <1>14, GnumericCalls DEF Gnumeric!EndFormula
  <2> HIDE DEF fresh
  <2>2. SheetOK(CommitFormula(FormulaText(at, Tail(cxt.chars))), FALSE, ids)
    <3> DEFINE result == NoText
               given == FormulaText(at, Tail(cxt.chars))
    <3>1. SheetOK(CommitFormula(IF result = NoText THEN given ELSE FormulaResult(given, result)), FALSE, ids)
      BY Zenon, <1>13, RegularOK
    <3> QED BY Zenon, <3>1
  <2> QED BY <1>1, <1>13, <2>1, <2>2
<1>15. ASSUME Gnumeric!EndShared
       PROVE  SheetOK(sheet', FALSE, ids) /\ strings' = strings /\ GnumericOK(cxt')
  <2> DEFINE has == Gnumeric!IsFormulaText
             given == IF has THEN FormulaText(at, Tail(cxt.chars)) ELSE at
             shared == FormulaSharedIndex(given, cxt.cell.id)
             result == NoText
  <2>1. sheet' = CommitFormula(shared) /\ strings' = strings /\ Gnumeric!Ends
    BY <1>15, GnumericCalls DEF Gnumeric!EndShared
  <2> HIDE DEF fresh, has
  <2>2. SheetOK(CommitFormula(IF result = NoText THEN shared ELSE FormulaResult(shared, result)), FALSE, ids)
    BY Zenon, <1>13, SharedOK
  <2>3. SheetOK(CommitFormula(shared), FALSE, ids)
    BY Zenon, <2>2
  <2> QED BY <1>1, <2>1, <2>3
<1>16. ASSUME Gnumeric!EndUnknown
       PROVE  sheet' = sheet /\ strings' = strings /\ GnumericOK(cxt')
  BY <1>1, <1>16 DEF Gnumeric!EndUnknown
<1>17. ASSUME Gnumeric!EndSheets
       PROVE  SheetOK(sheet', FALSE, ids) /\ strings' = strings /\ GnumericOK(cxt')
  <2> DEFINE doc == [styles |-> Gnumeric!DefaultStyles, sheet |-> sheet]
             all == PuttingRegions!Folded(<<FALSE, ids>>, doc, cxt.regions)
             p == <<FALSE, ids>>
  <2>1. /\ sheet' = (Gnumeric!FoldLeft(Gnumeric!ImportRegion, doc, cxt.regions)).sheet
        /\ strings' = strings /\ cxt' = [cxt EXCEPT !.phase = "done"]
    BY <1>17 DEF Gnumeric!EndSheets
  <2>2. doc.sheet = sheet
    OBVIOUS
  <2> HIDE DEF doc
  <2>3. Gnumeric!FoldLeft(Gnumeric!ImportRegion, doc, cxt.regions) = all
    BY DEF PuttingRegions!Folded, PutRegion, Gnumeric!FoldLeft, PuttingRegions!FoldLeft, Gnumeric!MapThenFoldSet,
           PuttingRegions!MapThenFoldSet, Gnumeric!Max, PuttingRegions!Max
  <2>4. PICK n \in Nat : n = Len(cxt.regions) /\ DOMAIN cxt.regions = 1 .. n
    BY SeqBasics
  <2>5. DocumentSoFar(p, 0, doc)
    BY Zenon, <2>2 DEF DocumentSoFar
  <2>6. ASSUME NEW st, NEW region, SheetOK(st.sheet, FALSE, ids)
        PROVE  SheetOK(Gnumeric!ImportRegion(st, region).sheet, FALSE, ids)
    <3>1. \E id : Gnumeric!ImportRegion(st, region).sheet = SetFormat(st.sheet, region.ref, id)
      BY GnumericCalls DEF Gnumeric!ImportRegion
    <3> QED BY Zenon, <2>6, <3>1, FormatOK
  <2>7. \A k \in 1 .. n : \A st : DocumentSoFar(p, k - 1, st) => DocumentSoFar(p, k, PutRegion(p, st, cxt.regions[k]))
    BY Zenon, <2>6 DEF DocumentSoFar, PutRegion
  <2>8. DocumentSoFar(p, n, all)
    BY Zenon, <2>4, <2>5, <2>7, PuttingRegions!FoldKeeps
  <2>9. SheetOK(all.sheet, FALSE, ids)
    BY Zenon, <2>8 DEF DocumentSoFar
  <2> HIDE DEF all
  <2> QED BY Zenon, <2>1, <2>3, <2>9
<1>18. IsSeq(Gnumeric!NoText) /\ IsSeq(<<Space>>)
  BY SeqEmpty, SeqOfOne DEF Gnumeric!NoText
<1> HIDE DEF GnumericOK, fresh
<1> QED
  BY Zenon, <1>2, <1>3, <1>4, <1>5, <1>6, <1>7, <1>8, <1>9, <1>10, <1>11, <1>12, <1>14, <1>15, <1>16, <1>17, <1>18
     DEF Gnumeric!Next, Gnumeric!StyleAttributes, Gnumeric!BorderElement

----------------------------------------------------------------------------
(* The tables of ODS.                                                      *)

LEMMA OdsCalls ==
    /\ Ods!NewSheet = NewSheet /\ Ods!NewStrings = NewStrings
    /\ \A sh, c, n, v : /\ Ods!SetColumnFormat(sh, c, n, v) = SetColumnFormat(sh, c, n, v)
                        /\ Ods!SetColumnWidth(sh, c, n, v) = SetColumnWidth(sh, c, n, v)
    /\ \A sh, r, v : /\ Ods!SetRowHeight(sh, r, v) = SetRowHeight(sh, r, v)
                     /\ Ods!SetValue(sh, r, v) = SetValue(sh, r, v)
                     /\ Ods!SetString(sh, r, v) = SetString(sh, r, v)
                     /\ Ods!SetFormat(sh, r, v) = SetFormat(sh, r, v)
    /\ \A sh : /\ Ods!GetFormula(sh) = GetFormula(sh)
               /\ Ods!CommitFormula(sh) = CommitFormula(sh)
    /\ \A sh, x : /\ Ods!FormulaPosition(sh, x) = FormulaPosition(sh, x)
                  /\ Ods!FormulaText(sh, x) = FormulaText(sh, x)
                  /\ Ods!FormulaResult(sh, x) = FormulaResult(sh, x)
    /\ \A ss : Ods!CommitSegments(ss) = CommitSegments(ss)
    /\ \A ss, x : /\ Ods!SetSegment(ss, x) = SetSegment(ss, x)
                  /\ Ods!AppendSegment(ss, x) = AppendSegment(ss, x)
<1> USE DEF Ods!NoText, NoText, Ods!Nowhere, Nowhere, Ods!NoTokens, NoTokens, Ods!Tokens, Tokens, Ods!Cell, Cell,
            Ods!Positions, Positions, Ods!InRectangle, InRectangle, Ods!Rectangle, Rectangle, Ods!NoRectangle, NoRectangle,
            Ods!MissingResult, MissingResult
<1>1. Ods!NewSheet = NewSheet /\ Ods!NewStrings = NewStrings
  BY DEF Ods!NewSheet, NewSheet, Ods!EmptyCell, EmptyCell, Ods!PlainLine, PlainLine, Ods!FreshFormula, FreshFormula,
         Ods!FreshArray, FreshArray, Ods!NewStrings, NewStrings
<1>2. ASSUME NEW sh, NEW c, NEW n, NEW v
      PROVE  /\ Ods!SetColumnFormat(sh, c, n, v) = SetColumnFormat(sh, c, n, v)
             /\ Ods!SetColumnWidth(sh, c, n, v) = SetColumnWidth(sh, c, n, v)
  BY DEF Ods!SetColumnFormat, SetColumnFormat, Ods!Span, Span, Ods!SetColumnWidth, SetColumnWidth
<1>3. ASSUME NEW sh, NEW r, NEW v
      PROVE  /\ Ods!SetRowHeight(sh, r, v) = SetRowHeight(sh, r, v)
             /\ Ods!SetValue(sh, r, v) = SetValue(sh, r, v)
             /\ Ods!SetString(sh, r, v) = SetString(sh, r, v)
             /\ Ods!SetFormat(sh, r, v) = SetFormat(sh, r, v)
  BY DEF Ods!SetRowHeight, SetRowHeight, Ods!SetValue, SetValue, Ods!SetCell, SetCell, Ods!SetString, SetString,
         Ods!SetFormat, SetFormat
<1>4. ASSUME NEW sh
      PROVE  /\ Ods!GetFormula(sh) = GetFormula(sh)
             /\ Ods!CommitFormula(sh) = CommitFormula(sh)
  BY DEF Ods!GetFormula, GetFormula, Ods!FreshFormula, FreshFormula, Ods!CommitFormula, CommitFormula, Ods!AddShared,
         AddShared
<1>5. ASSUME NEW sh, NEW x
      PROVE  /\ Ods!FormulaPosition(sh, x) = FormulaPosition(sh, x)
             /\ Ods!FormulaText(sh, x) = FormulaText(sh, x)
             /\ Ods!FormulaResult(sh, x) = FormulaResult(sh, x)
  BY DEF Ods!FormulaPosition, FormulaPosition, Ods!FormulaText, FormulaText, Ods!FormulaResult, FormulaResult
<1>6. ASSUME NEW ss PROVE Ods!CommitSegments(ss) = CommitSegments(ss)
  BY DEF Ods!CommitSegments, CommitSegments
<1>7. ASSUME NEW ss, NEW x
      PROVE  /\ Ods!SetSegment(ss, x) = SetSegment(ss, x)
             /\ Ods!AppendSegment(ss, x) = AppendSegment(ss, x)
  BY DEF Ods!SetSegment, SetSegment, Ods!AppendSegment, AppendSegment
<1> QED BY <1>1, <1>2, <1>3, <1>4, <1>5, <1>6, <1>7

SheetsOK(sheets, ids) == IsSeq(sheets) /\ \A t \in DOMAIN sheets : SheetOK(sheets[t], FALSE, ids)
TextsOK(frags) == IsSeq(frags) /\ \A k \in DOMAIN frags : IsSeq(frags[k])
ParagraphOK(para) == IsSeq(para) /\ \A k \in DOMAIN para : TextsOK(para[k].frags)
ParagraphsOK(paras) == IsSeq(paras) /\ \A k \in DOMAIN paras : ParagraphOK(paras[k])
OdsOK(c) ==
    /\ {"phase", "cell", "paras", "para", "frags", "formulas"} \subseteq DOMAIN c
    /\ c.phase \in {"cell", "para"} => c.cell \in OdsCells
    /\ ParagraphsOK(c.paras) /\ ParagraphOK(c.para) /\ TextsOK(c.frags) /\ IsSeq(c.formulas)

LEMMA OneSheetOK ==
    ASSUME NEW sheets, NEW ids, SheetsOK(sheets, ids), NEW t, NEW sh,
           t \in DOMAIN sheets => SheetOK(sh, FALSE, ids)
    PROVE  SheetsOK([sheets EXCEPT ![t] = sh], ids)
<1> DEFINE f == [sheets EXCEPT ![t] = sh]
<1>1. IsSeq(f)
  BY SeqExcept DEF SheetsOK
<1>2. DOMAIN f = DOMAIN sheets /\ \A k \in DOMAIN sheets : f[k] = IF k = t THEN sh ELSE sheets[k]
  OBVIOUS
<1> HIDE DEF f
<1>3. SheetsOK(f, ids)
  BY Zenon, <1>1, <1>2 DEF SheetsOK
<1> QED BY <1>3 DEF f

LEMMA MoreSheets ==
    ASSUME NEW sheets, NEW ids, NEW more, SheetsOK(sheets, ids), ids \subseteq more
    PROVE  SheetsOK(sheets, more)
BY Zenon, MoreStrings DEF SheetsOK

LEMMA AddedText ==
    ASSUME NEW frags, TextsOK(frags), NEW x, IsSeq(x) PROVE TextsOK(Append(frags, x))
<1> DEFINE f == Append(frags, x)
<1>1. PICK n \in Nat : n = Len(frags)
  BY SeqBasics DEF TextsOK
<1>2. /\ IsSeq(f) /\ DOMAIN f = 1 .. n + 1 /\ DOMAIN frags = 1 .. n /\ f[n + 1] = x
      /\ \A k \in 1 .. n : f[k] = frags[k]
  BY <1>1, SeqAppend, SeqBasics DEF TextsOK
<1> HIDE DEF f
<1>3. ASSUME NEW k \in DOMAIN f PROVE IsSeq(f[k])
  <2>1. CASE k = n + 1
    BY <1>2, <2>1
  <2>2. CASE k \in 1 .. n
    BY <1>2, <2>2 DEF TextsOK
  <2> QED BY <1>2, <2>1, <2>2
<1>4. TextsOK(f)
  BY <1>2, <1>3 DEF TextsOK
<1> QED BY <1>4 DEF f

LEMMA AddedSegment ==
    ASSUME NEW para, ParagraphOK(para), NEW frags, TextsOK(frags), NEW font
    PROVE  ParagraphOK(Append(para, [frags |-> frags, font |-> font]))
<1> DEFINE x == [frags |-> frags, font |-> font]
           f == Append(para, x)
<1>0. x.frags = frags
  OBVIOUS
<1> HIDE DEF x
<1>1. PICK n \in Nat : n = Len(para)
  BY SeqBasics DEF ParagraphOK
<1>2. /\ IsSeq(f) /\ DOMAIN f = 1 .. n + 1 /\ DOMAIN para = 1 .. n /\ f[n + 1] = x
      /\ \A k \in 1 .. n : f[k] = para[k]
  BY <1>1, SeqAppend, SeqBasics DEF ParagraphOK
<1> HIDE DEF f
<1>3. ASSUME NEW k \in DOMAIN f PROVE TextsOK(f[k].frags)
  <2>1. CASE k = n + 1
    BY <1>0, <1>2, <2>1
  <2>2. CASE k \in 1 .. n
    BY <1>2, <2>2 DEF ParagraphOK
  <2> QED BY <1>2, <2>1, <2>2
<1>4. ParagraphOK(f)
  BY <1>2, <1>3 DEF ParagraphOK
<1> QED BY <1>4 DEF f, x

LEMMA AddedParagraph ==
    ASSUME NEW paras, ParagraphsOK(paras), NEW para, ParagraphOK(para)
    PROVE  ParagraphsOK(Append(paras, para))
<1> DEFINE f == Append(paras, para)
<1>1. PICK n \in Nat : n = Len(paras)
  BY SeqBasics DEF ParagraphsOK
<1>2. /\ IsSeq(f) /\ DOMAIN f = 1 .. n + 1 /\ DOMAIN paras = 1 .. n /\ f[n + 1] = para
      /\ \A k \in 1 .. n : f[k] = paras[k]
  BY <1>1, SeqAppend, SeqBasics DEF ParagraphsOK
<1> HIDE DEF f
<1>3. ASSUME NEW k \in DOMAIN f PROVE ParagraphOK(f[k])
  <2>1. CASE k = n + 1
    BY <1>2, <2>1
  <2>2. CASE k \in 1 .. n
    BY <1>2, <2>2 DEF ParagraphsOK
  <2> QED BY <1>2, <2>1, <2>2
<1>4. ParagraphsOK(f)
  BY <1>2, <1>3 DEF ParagraphsOK
<1> QED BY <1>4 DEF f

\* A paragraph goes to the shared strings fragment by fragment.
PutFragment(p, st, frag) == Ods!AppendSegment(Ods!SetSegment(st, p[1]), frag)
FragmentSoFar(p, k, st) == StringsOK(st) /\ st.table = p[2]
PuttingFragments == INSTANCE Folding WITH Op <- PutFragment, Good <- FragmentSoFar

PutFragments(p, st, seg) ==
    Ods!FoldLeft(LAMBDA q, frag : Ods!AppendSegment(Ods!SetSegment(q, seg.font), frag), st, seg.frags)
PuttingParts == INSTANCE Folding WITH Op <- PutFragments, Good <- StringsSoFar

LEMMA FragmentsOK ==
    ASSUME NEW ss, StringsOK(ss), NEW p, NEW seg, TextsOK(seg.frags)
    PROVE  LET t == PutFragments(p, ss, seg) IN StringsOK(t) /\ t.table = ss.table
<1> DEFINE q == <<seg.font, ss.table>>
           all == PuttingFragments!Folded(q, ss, seg.frags)
<1>1. PutFragments(p, ss, seg) = all
  BY DEF PutFragments, PuttingFragments!Folded, PutFragment, Ods!FoldLeft, PuttingFragments!FoldLeft,
         Ods!MapThenFoldSet, PuttingFragments!MapThenFoldSet, Ods!Max, PuttingFragments!Max
<1>2. PICK n \in Nat : n = Len(seg.frags) /\ DOMAIN seg.frags = 1 .. n
  BY SeqBasics DEF TextsOK
<1>3. FragmentSoFar(q, 0, ss)
  BY DEF FragmentSoFar
<1>4. ASSUME NEW k \in 1 .. n, NEW st, FragmentSoFar(q, k - 1, st)
      PROVE  FragmentSoFar(q, k, PutFragment(q, st, seg.frags[k]))
  <2>1. IsSeq(seg.frags[k])
    BY <1>2 DEF TextsOK
  <2>2. PutFragment(q, st, seg.frags[k]) = AppendSegment(SetSegment(st, q[1]), seg.frags[k])
    BY OdsCalls DEF PutFragment
  <2>3. StringsOK(st) /\ st.table = q[2]
    BY <1>4 DEF FragmentSoFar
  <2> QED BY <2>1, <2>2, <2>3, SegmentOK DEF FragmentSoFar
<1>5. FragmentSoFar(q, n, all)
  BY <1>2, <1>3, <1>4, PuttingFragments!FoldKeeps
<1> QED BY <1>1, <1>5 DEF FragmentSoFar

LEMMA PushParagraphOK ==
    ASSUME NEW ss, StringsOK(ss), NEW para, ParagraphOK(para)
    PROVE  LET t == Ods!PushParagraph(ss, para) IN StringsOK(t) /\ t.table = ss.table
<1> DEFINE all == PuttingParts!Folded(ss.table, ss, para)
<1>1. Ods!PushParagraph(ss, para) = all
  BY DEF Ods!PushParagraph, PutFragments, PuttingParts!Folded, Ods!FoldLeft, PuttingParts!FoldLeft,
         Ods!MapThenFoldSet, PuttingParts!MapThenFoldSet, Ods!Max, PuttingParts!Max
<1>2. PICK n \in Nat : n = Len(para) /\ DOMAIN para = 1 .. n
  BY SeqBasics DEF ParagraphOK
<1>3. StringsSoFar(ss.table, 0, ss)
  BY DEF StringsSoFar
<1>4. ASSUME NEW k \in 1 .. n, NEW st, StringsSoFar(ss.table, k - 1, st)
      PROVE  StringsSoFar(ss.table, k, PutFragments(ss.table, st, para[k]))
  <2>1. TextsOK(para[k].frags)
    BY <1>2 DEF ParagraphOK
  <2> QED BY <1>4, <2>1, FragmentsOK DEF StringsSoFar
<1>5. StringsSoFar(ss.table, n, all)
  BY <1>2, <1>3, <1>4, PuttingParts!FoldKeeps
<1> QED BY <1>1, <1>5 DEF StringsSoFar

PutParagraph(p, st, para) == Ods!PushParagraph(Ods!AppendSegment(st, <<NewLine>>), para)
PuttingParagraphs == INSTANCE Folding WITH Op <- PutParagraph, Good <- StringsSoFar

LEMMA PushStringOK ==
    ASSUME NEW ss, StringsOK(ss), ParagraphsOK(cxt.paras), cxt.paras # << >>
    PROVE  LET t == Ods!PushString(ss) IN StringsOK(t) /\ Grew(ss, t) /\ Len(t.table) = Len(ss.table) + 1
<1> DEFINE first == Ods!PushParagraph(ss, Head(cxt.paras))
           rest == Tail(cxt.paras)
           all == PuttingParagraphs!Folded(ss.table, first, rest)
           t == Ods!PushString(ss)
<1>1. /\ IsSeq(rest) /\ Len(rest) = Len(cxt.paras) - 1 /\ Len(cxt.paras) \in Nat \ {0}
      /\ DOMAIN cxt.paras = 1 .. Len(cxt.paras)
      /\ \A k \in 1 .. Len(cxt.paras) - 1 : rest[k] = cxt.paras[k + 1]
  BY SeqTail, SeqBasics DEF ParagraphsOK
<1>2. PICK n \in Nat : n = Len(rest)
  BY <1>1
<1>3. DOMAIN rest = 1 .. n /\ \A k \in 1 .. n : ParagraphOK(rest[k])
  <2>1. DOMAIN rest = 1 .. n
    BY <1>1, <1>2, SeqBasics
  <2>2. ASSUME NEW k \in 1 .. n PROVE ParagraphOK(rest[k])
    <3>1. rest[k] = cxt.paras[k + 1] /\ k + 1 \in DOMAIN cxt.paras
      BY <1>1, <1>2
    <3> QED BY Zenon, <3>1 DEF ParagraphsOK
  <2> QED BY <2>1, <2>2
<1>4. Head(cxt.paras) = cxt.paras[1] /\ 1 \in DOMAIN cxt.paras
  BY <1>1
<1>5. StringsOK(first) /\ first.table = ss.table
  BY <1>4, PushParagraphOK DEF ParagraphsOK
<1>6. t = CommitSegments(all)
  BY Zenon, OdsCalls DEF Ods!PushString, PutParagraph, PuttingParagraphs!Folded, Ods!FoldLeft,
         PuttingParagraphs!FoldLeft, Ods!MapThenFoldSet, PuttingParagraphs!MapThenFoldSet, Ods!Max,
         PuttingParagraphs!Max
<1> HIDE DEF first, rest, t
<1>7. StringsSoFar(ss.table, 0, first)
  BY <1>5 DEF StringsSoFar
<1>8. ASSUME NEW k \in 1 .. n, NEW st, StringsSoFar(ss.table, k - 1, st)
      PROVE  StringsSoFar(ss.table, k, PutParagraph(ss.table, st, rest[k]))
  <2> DEFINE u == AppendSegment(st, <<NewLine>>)
  <2>1. PutParagraph(ss.table, st, rest[k]) = Ods!PushParagraph(u, rest[k])
    BY OdsCalls DEF PutParagraph
  <2>2. StringsOK(u) /\ u.table = ss.table
    BY <1>8, AppendSegmentCall, SeqOfOne DEF StringsSoFar
  <2> HIDE DEF u
  <2> QED BY <1>3, <2>1, <2>2, PushParagraphOK DEF StringsSoFar
<1>9. StringsSoFar(ss.table, n, all)
  BY <1>3, <1>7, <1>8, PuttingParagraphs!FoldKeeps
<1> HIDE DEF all
<1>10. StringsOK(t) /\ Grew(all, t) /\ Len(t.table) = Len(all.table) + 1
  BY Zenon, <1>6, <1>9, CommitSegmentsCall DEF StringsSoFar
<1>11. StringsOK(t) /\ Grew(ss, t) /\ Len(t.table) = Len(ss.table) + 1
  BY <1>9, <1>10 DEF Grew, StringsSoFar
<1> QED BY <1>11 DEF t

\* What a cell does in each of the columns it is repeated for.
PutFormat(p, st, pos) == Ods!SetFormat(st, Ods!Rectangle(pos, pos), p[3])
PutValue(p, st, pos) == Ods!SetValue(st, pos, p[3])
PutString(p, st, k) == Ods!SetString(st, p[4][k], <<p[3] + k>>)
FormattingCovers == INSTANCE Folding WITH Op <- PutFormat, Good <- SheetSoFar
PuttingValues == INSTANCE Folding WITH Op <- PutValue, Good <- SheetSoFar
PuttingStrings == INSTANCE Folding WITH Op <- PutString, Good <- SheetSoFar

LEMMA FormattedOK ==
    ASSUME NEW sh, NEW ids, SheetOK(sh, FALSE, ids), NEW c, cxt.cell.repeated \in Nat
    PROVE  SheetOK(Ods!Formatted(sh, c), FALSE, ids)
<1> DEFINE p == <<FALSE, ids, c.formats[cxt.cell.style]>>
           n == cxt.cell.repeated
           covers == Ods!Covers
           all == FormattingCovers!Folded(p, sh, covers)
<1>1. Ods!Formatted(sh, c) = sh \/ Ods!Formatted(sh, c) = all
  BY DEF Ods!Formatted, PutFormat, FormattingCovers!Folded, Ods!FoldLeft, FormattingCovers!FoldLeft,
         Ods!MapThenFoldSet, FormattingCovers!MapThenFoldSet, Ods!Max, FormattingCovers!Max
<1>2. DOMAIN covers = 1 .. n
  BY DEF Ods!Covers
<1>3. SheetSoFar(p, 0, sh)
  BY Zenon DEF SheetSoFar
<1>4. p[1] = FALSE /\ p[2] = ids
  OBVIOUS
<1> HIDE DEF p, covers
<1>5. ASSUME NEW k \in 1 .. n, NEW st, SheetSoFar(p, k - 1, st)
      PROVE  SheetSoFar(p, k, PutFormat(p, st, covers[k]))
  <2>1. PutFormat(p, st, covers[k]) = SetFormat(st, Ods!Rectangle(covers[k], covers[k]), p[3])
    BY OdsCalls DEF PutFormat
  <2> QED BY <1>5, <2>1, FormatOK DEF SheetSoFar
<1>6. SheetSoFar(p, n, all)
  BY <1>2, <1>3, <1>5, FormattingCovers!FoldKeeps
<1>7. SheetOK(all, FALSE, ids)
  BY Zenon, <1>4, <1>6 DEF SheetSoFar
<1> QED BY Zenon, <1>1, <1>7 DEF p, covers

OdsValued(sh, v) == Ods!FoldLeft(LAMBDA s, p : Ods!SetValue(s, p, v), sh, Ods!Covers)
LEMMA ValuedOK ==
    ASSUME NEW sh, NEW ids, SheetOK(sh, FALSE, ids), NEW v, cxt.cell.repeated \in Nat
    PROVE  SheetOK(OdsValued(sh, v), FALSE, ids)
<1> DEFINE p == <<FALSE, ids, v>>
           n == cxt.cell.repeated
           covers == Ods!Covers
           all == PuttingValues!Folded(p, sh, covers)
<1>1. OdsValued(sh, v) = all
  BY DEF OdsValued, PutValue, PuttingValues!Folded, Ods!FoldLeft, PuttingValues!FoldLeft,
         Ods!MapThenFoldSet, PuttingValues!MapThenFoldSet, Ods!Max, PuttingValues!Max
<1>2. DOMAIN covers = 1 .. n
  BY DEF Ods!Covers
<1>3. SheetSoFar(p, 0, sh)
  BY Zenon DEF SheetSoFar
<1>4. p[1] = FALSE /\ p[2] = ids
  OBVIOUS
<1> HIDE DEF p, covers
<1>5. ASSUME NEW k \in 1 .. n, NEW st, SheetSoFar(p, k - 1, st)
      PROVE  SheetSoFar(p, k, PutValue(p, st, covers[k]))
  BY <1>5, OdsCalls, ValuesOK DEF SheetSoFar, PutValue
<1>6. SheetSoFar(p, n, all)
  BY <1>2, <1>3, <1>5, PuttingValues!FoldKeeps
<1>7. SheetOK(all, FALSE, ids)
  BY Zenon, <1>4, <1>6 DEF SheetSoFar
<1> QED BY Zenon, <1>1, <1>7 DEF p, covers

LEMMA TextedOK ==
    ASSUME NEW sh, NEW ids, SheetOK(sh, FALSE, ids), NEW first \in Nat, cxt.cell.repeated \in Nat,
           \A k \in 1 .. cxt.cell.repeated : first + k \in ids
    PROVE  SheetOK(Ods!FoldLeft(LAMBDA s, k : Ods!SetString(s, Ods!Covers[k], <<first + k>>), sh,
                                [k \in DOMAIN Ods!Covers |-> k]), FALSE, ids)
<1> DEFINE covers == Ods!Covers
           p == <<FALSE, ids, first, covers>>
           n == cxt.cell.repeated
           numbers == [k \in DOMAIN covers |-> k]
           all == PuttingStrings!Folded(p, sh, numbers)
<1>1. Ods!FoldLeft(LAMBDA s, k : Ods!SetString(s, covers[k], <<first + k>>), sh, numbers) = all
  BY DEF PutString, PuttingStrings!Folded, Ods!FoldLeft, PuttingStrings!FoldLeft,
         Ods!MapThenFoldSet, PuttingStrings!MapThenFoldSet, Ods!Max, PuttingStrings!Max
<1>2. DOMAIN numbers = 1 .. n /\ \A k \in 1 .. n : numbers[k] = k
  BY DEF Ods!Covers
<1>3. SheetSoFar(p, 0, sh)
  BY Zenon DEF SheetSoFar
<1>4. p[1] = FALSE /\ p[2] = ids /\ p[3] = first
  OBVIOUS
<1> HIDE DEF p, covers, numbers
<1>5. ASSUME NEW k \in 1 .. n, NEW st, SheetSoFar(p, k - 1, st)
      PROVE  SheetSoFar(p, k, PutString(p, st, numbers[k]))
  <2> DEFINE v == <<first + k>>
  <2>1. PutString(p, st, numbers[k]) = SetString(st, p[4][k], v)
    BY <1>2, <1>4, OdsCalls DEF PutString
  <2>2. v[1] \in ids
    OBVIOUS
  <2> HIDE DEF v
  <2> QED BY <1>4, <1>5, <2>1, <2>2, ValuesOK DEF SheetSoFar
<1>6. SheetSoFar(p, n, all)
  BY <1>2, <1>3, <1>5, PuttingStrings!FoldKeeps
<1>7. SheetOK(all, FALSE, ids)
  BY Zenon, <1>4, <1>6 DEF SheetSoFar
<1> QED BY Zenon, <1>1, <1>7 DEF p, covers, numbers

\* The text of the cell goes to the shared strings for each column.
PutText(p, st, pos) == Ods!PushString(st)
TextsSoFar(p, k, st) == StringsOK(st) /\ Grew(p, st) /\ Len(st.table) = Len(p.table) + k
PuttingTexts == INSTANCE Folding WITH Op <- PutText, Good <- TextsSoFar

LEMMA PushedOK ==
    ASSUME StringsOK(strings), ParagraphsOK(cxt.paras), cxt.paras # << >>, cxt.cell.repeated \in Nat
    PROVE  TextsSoFar(strings, cxt.cell.repeated,
                      Ods!FoldLeft(LAMBDA ss, p : Ods!PushString(ss), strings, Ods!Covers))
<1> DEFINE covers == Ods!Covers
           n == cxt.cell.repeated
           all == PuttingTexts!Folded(strings, strings, covers)
<1>1. Ods!FoldLeft(LAMBDA ss, p : Ods!PushString(ss), strings, covers) = all
  BY DEF PutText, PuttingTexts!Folded, Ods!FoldLeft, PuttingTexts!FoldLeft,
         Ods!MapThenFoldSet, PuttingTexts!MapThenFoldSet, Ods!Max, PuttingTexts!Max
<1>2. DOMAIN covers = 1 .. n
  BY DEF Ods!Covers
<1>3. Len(strings.table) \in Nat
  BY SeqBasics DEF StringsOK
<1>4. TextsSoFar(strings, 0, strings)
  BY <1>3 DEF TextsSoFar, Grew
<1> HIDE DEF covers
<1>5. ASSUME NEW k \in 1 .. n, NEW st, TextsSoFar(strings, k - 1, st)
      PROVE  TextsSoFar(strings, k, PutText(strings, st, covers[k]))
  <2> DEFINE t == Ods!PushString(st)
  <2>1. StringsOK(st) /\ Grew(strings, st) /\ Len(st.table) = Len(strings.table) + (k - 1)
    BY <1>5 DEF TextsSoFar
  <2>2. StringsOK(t) /\ Grew(st, t) /\ Len(t.table) = Len(st.table) + 1
    BY <2>1, PushStringOK
  <2> HIDE DEF t
  <2>3. Len(t.table) = Len(strings.table) + k
    BY <1>3, <2>1, <2>2
  <2>4. Grew(strings, t)
    BY <1>3, <2>1, <2>2, <2>3 DEF Grew
  <2>5. TextsSoFar(strings, k, t)
    BY <2>2, <2>3, <2>4 DEF TextsSoFar
  <2> QED BY <2>5 DEF t, PutText
<1>6. TextsSoFar(strings, n, all)
  BY <1>2, <1>4, <1>5, PuttingTexts!FoldKeeps
<1> QED BY Zenon, <1>1, <1>6 DEF covers

\* The formulas go to their tables when all of these are read.
PutLate(p, st, f) == Ods!PushFormula(st, f)
SheetsSoFar(p, k, st) == SheetsOK(st, p)
PuttingLate == INSTANCE Folding WITH Op <- PutLate, Good <- SheetsSoFar

LEMMA LateOK ==
    ASSUME NEW sheets, NEW ids, SheetsOK(sheets, ids), NEW formulas, IsSeq(formulas)
    PROVE  SheetsOK(Ods!FoldLeft(Ods!PushFormula, sheets, formulas), ids)
<1> DEFINE all == PuttingLate!Folded(ids, sheets, formulas)
<1>1. Ods!FoldLeft(Ods!PushFormula, sheets, formulas) = all
  BY DEF PutLate, PuttingLate!Folded, Ods!FoldLeft, PuttingLate!FoldLeft,
         Ods!MapThenFoldSet, PuttingLate!MapThenFoldSet, Ods!Max, PuttingLate!Max
<1>2. PICK n \in Nat : n = Len(formulas) /\ DOMAIN formulas = 1 .. n
  BY SeqBasics
<1>3. SheetsSoFar(ids, 0, sheets)
  BY DEF SheetsSoFar
<1>4. ASSUME NEW k \in 1 .. n, NEW st, SheetsSoFar(ids, k - 1, st)
      PROVE  SheetsSoFar(ids, k, PutLate(ids, st, formulas[k]))
  <2> DEFINE f == formulas[k]
             fresh == GetFormula(st[f.table])
             given == FormulaText(FormulaPosition(fresh, f.pos), f.text)
             sh == CommitFormula(IF f.result = NoText THEN given ELSE FormulaResult(given, f.result))
  <2>1. PutLate(ids, st, f) = [st EXCEPT ![f.table] = sh]
    BY Zenon, OdsCalls DEF PutLate, Ods!PushFormula, Ods!NoText, NoText
  <2>2. SheetsOK(st, ids)
    BY <1>4 DEF SheetsSoFar
  <2> HIDE DEF f
  <2>3. ASSUME f.table \in DOMAIN st PROVE SheetOK(sh, FALSE, ids)
    <3>1. SheetOK(fresh, FALSE, ids)
      BY Zenon, <2>2, <2>3, GetFormulaOK DEF SheetsOK
    <3> HIDE DEF fresh
    <3> QED BY Zenon, <3>1, RegularOK
  <2> HIDE DEF sh
  <2>4. SheetsOK(PutLate(ids, st, f), ids)
    <3> DEFINE t == f.table
    <3>1. t \in DOMAIN st => SheetOK(sh, FALSE, ids)
      BY Zenon, <2>3
    <3> HIDE DEF t
    <3>2. SheetsOK([st EXCEPT ![t] = sh], ids)
      BY Zenon, <2>2, <3>1, OneSheetOK
    <3> QED BY <2>1, <3>2 DEF t
  <2> QED BY <2>4 DEF f, SheetsSoFar
<1>5. SheetsSoFar(ids, n, all)
  BY <1>2, <1>3, <1>4, PuttingLate!FoldKeeps
<1> QED BY <1>1, <1>5 DEF SheetsSoFar

LEMMA KnownOK ==
    ASSUME NEW c, OdsOK(c), NEW s
    PROVE  /\ OdsOK(Ods!Known(c, s)) /\ Ods!Known(c, s).formulas = c.formulas
           /\ \/ Ods!Known(c, s) = c
              \/ \E x, y : Ods!Known(c, s) = [c EXCEPT !.xfs = x, !.formats = y]
<1>1. \/ Ods!Known(c, s) = c
      \/ \E x, y : Ods!Known(c, s) = [c EXCEPT !.xfs = x, !.formats = y]
  BY Zenon DEF Ods!Known
<1>2. ASSUME NEW x, NEW y, NEW r, r = [c EXCEPT !.xfs = x, !.formats = y]
      PROVE  OdsOK(r) /\ r.formulas = c.formulas
  BY <1>2 DEF OdsOK
<1>3. CASE Ods!Known(c, s) = c
  BY <1>3
<1>4. CASE \E x, y : Ods!Known(c, s) = [c EXCEPT !.xfs = x, !.formats = y]
  <2>1. PICK x, y : Ods!Known(c, s) = [c EXCEPT !.xfs = x, !.formats = y]
    BY Zenon, <1>4
  <2>2. OdsOK(Ods!Known(c, s)) /\ Ods!Known(c, s).formulas = c.formulas
    BY Zenon, <1>2, <2>1
  <2> QED BY Zenon, <1>4, <2>2
<1> QED BY Zenon, <1>1, <1>3, <1>4

LEMMA FlushedOK ==
    ASSUME OdsOK(cxt) PROVE ParagraphOK(Ods!FlushSegment)
BY AddedSegment DEF OdsOK, Ods!FlushSegment

LEMMA OneMoreSheet ==
    ASSUME NEW sheets, NEW ids, SheetsOK(sheets, ids), NEW sh, SheetOK(sh, FALSE, ids)
    PROVE  SheetsOK(Append(sheets, sh), ids)
<1> DEFINE f == Append(sheets, sh)
<1>1. PICK n \in Nat : n = Len(sheets)
  BY SeqBasics DEF SheetsOK
<1>2. /\ IsSeq(f) /\ DOMAIN f = 1 .. n + 1 /\ DOMAIN sheets = 1 .. n /\ f[n + 1] = sh
      /\ \A k \in 1 .. n : f[k] = sheets[k]
  BY <1>1, SeqAppend, SeqBasics DEF SheetsOK
<1> HIDE DEF f
<1>3. ASSUME NEW k \in DOMAIN f PROVE SheetOK(f[k], FALSE, ids)
  <2>1. CASE k = n + 1
    BY Zenon, <1>2, <2>1
  <2>2. CASE k \in 1 .. n
    BY Zenon, <1>2, <2>2 DEF SheetsOK
  <2>3. DOMAIN f = 1 .. n + 1
    BY <1>2
  <2>4. k = n + 1 \/ k \in 1 .. n
    BY <2>3
  <2> QED BY <2>1, <2>2, <2>4, Zenon
<1>4. SheetsOK(f, ids)
  BY Zenon, <1>2, <1>3 DEF SheetsOK
<1> QED BY <1>4 DEF f
=============================================================================
