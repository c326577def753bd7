---------------------- MODULE SpreadsheetImportProofs ----------------------
(***************************************************************************)
(* Proofs about SpreadsheetImport: whatever the format of a file and       *)
(* whatever the file has in it, the document is a spreadsheet after every  *)
(* step.  The steps of the filter for ODS come first, then the invariant   *)
(* of all the filters.                                                     *)
(***************************************************************************)
EXTENDS SpreadsheetImport, ImportSheetProofs

----------------------------------------------------------------------------
(* The steps of ODS.                                                       *)

\* A step of the contexts mostly leaves alone what the promises need.
OdsFields == {"phase", "cell", "paras", "para", "frags", "formulas"}
OdsKept(c, d) ==
    /\ DOMAIN d = DOMAIN c /\ d.cell = c.cell /\ d.paras = c.paras /\ d.para = c.para
    /\ d.frags = c.frags /\ d.formulas = c.formulas
OdsHas(d, cell, paras, para, frags) == d.cell = cell /\ d.paras = paras /\ d.para = para /\ d.frags = frags

LEMMA OdsKeptOK ==
    ASSUME NEW c, OdsOK(c), NEW d, OdsKept(c, d), d.phase \in {"cell", "para"} => c.phase \in {"cell", "para"}
    PROVE  OdsOK(d)
BY DEF OdsOK, OdsKept

LEMMA OdsChangedOK ==
    ASSUME NEW c, OdsOK(c), NEW d, DOMAIN d = DOMAIN c, d.formulas = c.formulas,
           NEW cell \in OdsCells, NEW paras, NEW para, NEW frags,
           OdsHas(d, cell, paras, para, frags), ParagraphsOK(paras), ParagraphOK(para), TextsOK(frags)
    PROVE  OdsOK(d)
BY DEF OdsOK, OdsHas

LEMMA OdsFieldsIn ==
    ASSUME NEW c, OdsOK(c) PROVE OdsFields \subseteq DOMAIN c
BY DEF OdsOK, OdsFields

LEMMA OdsStartTable ==
    ASSUME SheetsOK(sheet, DOMAIN strings.table), StringsOK(strings), OdsOK(cxt),
           Ods!StartTable
    PROVE  SheetsOK(sheet', DOMAIN strings.table) /\ strings' = strings /\ OdsOK(cxt')
<1> DEFINE ids == DOMAIN strings.table
<1>1. /\ sheet' = Append(sheet, NewSheet) /\ strings' = strings
      /\ \E x, y : cxt' = [cxt EXCEPT !.phase = "columns", !.row = x, !.col = y]
  BY Zenon, OdsCalls DEF Ods!StartTable
<1> DEFINE new == NewSheet
           all == Append(sheet, new)
<1>2. SheetOK(new, FALSE, ids)
  BY Zenon, NewSheetOK
<1> HIDE DEF new
<1>6. SheetsOK(all, ids)
  BY Zenon, <1>2, OneMoreSheet
<1>7. OdsKept(cxt, cxt') /\ cxt'.phase = "columns"
  BY OdsFieldsIn, <1>1 DEF OdsKept, OdsFields
<1> QED BY Zenon, <1>1, <1>6, <1>7, OdsKeptOK DEF all, new

LEMMA OdsEnds ==
    ASSUME SheetsOK(sheet, DOMAIN strings.table), StringsOK(strings), OdsOK(cxt),
           Ods!EndTable \/ Ods!EndRow
    PROVE  SheetsOK(sheet', DOMAIN strings.table) /\ strings' = strings /\ OdsOK(cxt')
<1>1. /\ sheet' = sheet /\ strings' = strings
      /\ \/ cxt' = [cxt EXCEPT !.phase = "book"]
         \/ \E x : cxt' = [cxt EXCEPT !.phase = "table", !.row = x]
  BY Zenon DEF Ods!EndTable, Ods!EndRow
<1>2. OdsKept(cxt, cxt') /\ cxt'.phase \notin {"cell", "para"}
  <2>1. CASE cxt' = [cxt EXCEPT !.phase = "book"]
    BY OdsFieldsIn, <2>1 DEF OdsKept, OdsFields
  <2>2. CASE \E x : cxt' = [cxt EXCEPT !.phase = "table", !.row = x]
    BY OdsFieldsIn, <2>2 DEF OdsKept, OdsFields
  <2> QED BY Zenon, <1>1, <2>1, <2>2
<1> QED BY Zenon, <1>1, <1>2, OdsKeptOK

LEMMA OdsOther ==
    ASSUME SheetsOK(sheet, DOMAIN strings.table), StringsOK(strings), OdsOK(cxt),
           Ods!NamedExpression \/ Ods!Ignored
    PROVE  SheetsOK(sheet', DOMAIN strings.table) /\ strings' = strings /\ OdsOK(cxt')
<1>1. /\ sheet' = sheet /\ strings' = strings
      /\ cxt' = cxt \/ \E x : cxt' = [cxt EXCEPT !.names = x]
  BY DEF Ods!NamedExpression, Ods!Ignored
<1>2. OdsKept(cxt, cxt') /\ cxt'.phase = cxt.phase
  BY OdsFieldsIn, <1>1 DEF OdsKept, OdsFields
<1> QED BY <1>1, <1>2, OdsKeptOK

LEMMA OdsColumn ==
    ASSUME SheetsOK(sheet, DOMAIN strings.table), StringsOK(strings), OdsOK(cxt),
           NEW a, Ods!Column(a)
    PROVE  SheetsOK(sheet', DOMAIN strings.table) /\ strings' = strings /\ OdsOK(cxt')
<1> DEFINE ids == DOMAIN strings.table
           cur == Ods!Cur
<1> DEFINE c == Ods!Known(cxt, a.style)
           sh == sheet[cur]
           col == cxt.col
           n == a.repeated
           sized == IF a.width = 0 THEN sh ELSE SetColumnWidth(sh, col, n, a.width)
           whole == IF a.style \in DOMAIN c.formats THEN SetColumnFormat(sized, col, n, c.formats[a.style])
                    ELSE sized
<1>1. /\ sheet' = [sheet EXCEPT ![cur] = whole] /\ strings' = strings
      /\ \E x : cxt' = [c EXCEPT !.col = x]
  BY Zenon, OdsCalls DEF Ods!Column
<1>2. OdsOK(cxt')
  <2>1. OdsOK(c)
    BY Zenon, KnownOK
  <2>2. OdsFields \subseteq DOMAIN c
    BY <2>1 DEF OdsOK, OdsFields
  <2> HIDE DEF c
  <2>3. OdsKept(c, cxt') /\ cxt'.phase = c.phase
    BY <1>1, <2>2 DEF OdsKept, OdsFields
  <2> QED BY <2>1, <2>3, OdsKeptOK
<1> HIDE DEF c, col, n, sh, cur
<1>3. ASSUME cur \in DOMAIN sheet PROVE SheetOK(whole, FALSE, ids)
  <2>1. SheetOK(sh, FALSE, ids)
    BY Zenon, <1>3 DEF SheetsOK, sh
  <2>2. LinesOnly(sh, SetColumnWidth(sh, col, n, a.width))
    BY <2>1, LineCalls DEF SheetOK
  <2>3. SheetOK(sized, FALSE, ids)
    BY Zenon, <2>1, <2>2, LinesOK
  <2> HIDE DEF sized
  <2>4. LinesOnly(sized, SetColumnFormat(sized, col, n, c.formats[a.style]))
    BY <2>3, LineCalls DEF SheetOK
  <2> QED BY Zenon, <2>3, <2>4, LinesOK
<1> HIDE DEF whole
<1>4. SheetsOK([sheet EXCEPT ![cur] = whole], ids)
  BY Zenon, <1>3, OneSheetOK
<1> QED BY <1>1, <1>2, <1>4

LEMMA OdsStartRow ==
    ASSUME SheetsOK(sheet, DOMAIN strings.table), StringsOK(strings), OdsOK(cxt),
           NEW a, Ods!StartRow(a)
    PROVE  SheetsOK(sheet', DOMAIN strings.table) /\ strings' = strings /\ OdsOK(cxt')
<1> DEFINE ids == DOMAIN strings.table
           cur == Ods!Cur
<1> DEFINE sh == sheet[cur]
           row == cxt.row
           sized == SetRowHeight(sh, row, a.height)
<1>1. /\ sheet' = sheet \/ sheet' = [sheet EXCEPT ![cur] = sized]
      /\ strings' = strings
      /\ \E x, y : cxt' = [cxt EXCEPT !.phase = "row", !.col = x, !.rows = y]
  BY Zenon, OdsCalls DEF Ods!StartRow
<1>2. OdsOK(cxt')
  <2>1. OdsKept(cxt, cxt') /\ cxt'.phase = "row"
    BY OdsFieldsIn, <1>1 DEF OdsKept, OdsFields
  <2> QED BY <2>1, OdsKeptOK
<1> HIDE DEF row, sh, cur
<1>3. ASSUME cur \in DOMAIN sheet PROVE SheetOK(sized, FALSE, ids)
  <2>1. SheetOK(sh, FALSE, ids)
    BY Zenon, <1>3 DEF SheetsOK, sh
  <2>2. LinesOnly(sh, sized)
    BY <2>1, LineCalls DEF SheetOK
  <2> QED BY Zenon, <2>1, <2>2, LinesOK
<1> HIDE DEF sized
<1>4. SheetsOK([sheet EXCEPT ![cur] = sized], ids)
  BY Zenon, <1>3, OneSheetOK
<1> QED BY <1>1, <1>2, <1>4

LEMMA OdsStartCell ==
    ASSUME SheetsOK(sheet, DOMAIN strings.table), StringsOK(strings), OdsOK(cxt),
           NEW a \in OdsCells, Ods!StartCell(a)
    PROVE  sheet' = sheet /\ strings' = strings /\ OdsOK(cxt')
<1>1. /\ sheet' = sheet /\ strings' = strings
      /\ cxt' = [cxt EXCEPT !.phase = "cell", !.cell = a, !.paras = << >>]
  BY DEF Ods!StartCell
<1>2. ParagraphsOK(<< >>)
  BY SeqEmpty DEF ParagraphsOK
<1>3. /\ DOMAIN cxt' = DOMAIN cxt /\ cxt'.formulas = cxt.formulas
      /\ OdsHas(cxt', a, << >>, cxt.para, cxt.frags)
  BY OdsFieldsIn, <1>1 DEF OdsFields, OdsHas
<1> QED BY <1>1, <1>2, <1>3, OdsChangedOK DEF OdsOK

LEMMA OdsStartParagraph ==
    ASSUME SheetsOK(sheet, DOMAIN strings.table), StringsOK(strings), OdsOK(cxt),
           Ods!StartParagraph
    PROVE  sheet' = sheet /\ strings' = strings /\ OdsOK(cxt')
<1>1. /\ sheet' = sheet /\ strings' = strings /\ cxt.phase = "cell"
      /\ cxt' = [cxt EXCEPT !.phase = "para", !.para = << >>, !.frags = << >>]
  BY DEF Ods!StartParagraph
<1>2. ParagraphOK(<< >>) /\ TextsOK(<< >>)
  BY SeqEmpty DEF ParagraphOK, TextsOK
<1>3. /\ DOMAIN cxt' = DOMAIN cxt /\ cxt'.formulas = cxt.formulas
      /\ OdsHas(cxt', cxt.cell, cxt.paras, << >>, << >>)
  BY OdsFieldsIn, <1>1 DEF OdsFields, OdsHas
<1>4. cxt.cell \in OdsCells /\ ParagraphsOK(cxt.paras)
  BY <1>1 DEF OdsOK
<1> QED BY Zenon, <1>1, <1>2, <1>3, <1>4, OdsChangedOK

LEMMA OdsSpan ==
    ASSUME SheetsOK(sheet, DOMAIN strings.table), StringsOK(strings), OdsOK(cxt),
           NEW s, Ods!StartSpan(s) \/ Ods!EndSpan
    PROVE  sheet' = sheet /\ strings' = strings /\ OdsOK(cxt')
<1> DEFINE para == Ods!FlushSegment
<1>1. /\ sheet' = sheet /\ strings' = strings /\ cxt.phase = "para"
      /\ \E x : cxt' = [cxt EXCEPT !.para = para, !.frags = << >>, !.spans = x]
  BY Zenon DEF Ods!StartSpan, Ods!EndSpan
<1>2. ParagraphOK(para) /\ TextsOK(<< >>)
  BY FlushedOK, SeqEmpty DEF TextsOK
<1> HIDE DEF para
<1>3. /\ DOMAIN cxt' = DOMAIN cxt /\ cxt'.formulas = cxt.formulas
      /\ OdsHas(cxt', cxt.cell, cxt.paras, para, << >>)
  BY OdsFieldsIn, <1>1 DEF OdsFields, OdsHas
<1>4. cxt.cell \in OdsCells /\ ParagraphsOK(cxt.paras)
  BY <1>1 DEF OdsOK
<1> QED BY Zenon, <1>1, <1>2, <1>3, <1>4, OdsChangedOK

LEMMA OdsCharacters ==
    ASSUME SheetsOK(sheet, DOMAIN strings.table), StringsOK(strings), OdsOK(cxt),
           Ods!Characters
    PROVE  sheet' = sheet /\ strings' = strings /\ OdsOK(cxt')
<1> DEFINE number == 10 * Len(file) + Len(Ods!Now.texts)
           frags == Append(cxt.frags, <<number>>)
<1>1. /\ sheet' = sheet /\ strings' = strings /\ cxt.phase = "para"
      /\ cxt' = [cxt EXCEPT !.frags = frags]
  BY DEF Ods!Characters
<1> HIDE DEF number
<1>2. TextsOK(frags)
  BY AddedText, SeqOfOne DEF OdsOK
<1> HIDE DEF frags
<1>3. /\ DOMAIN cxt' = DOMAIN cxt /\ cxt'.formulas = cxt.formulas
      /\ OdsHas(cxt', cxt.cell, cxt.paras, cxt.para, frags)
  BY OdsFieldsIn, <1>1 DEF OdsFields, OdsHas
<1>4. cxt.cell \in OdsCells /\ ParagraphsOK(cxt.paras) /\ ParagraphOK(cxt.para)
  BY <1>1 DEF OdsOK
<1> QED BY Zenon, <1>1, <1>2, <1>3, <1>4, OdsChangedOK

LEMMA OdsEndParagraph ==
    ASSUME SheetsOK(sheet, DOMAIN strings.table), StringsOK(strings), OdsOK(cxt),
           Ods!EndParagraph
    PROVE  sheet' = sheet /\ strings' = strings /\ OdsOK(cxt')
<1> DEFINE paras == Append(cxt.paras, Ods!FlushSegment)
<1>1. /\ sheet' = sheet /\ strings' = strings /\ cxt.phase = "para"
      /\ cxt' = [cxt EXCEPT !.phase = "cell", !.frags = << >>, !.paras = paras]
  BY DEF Ods!EndParagraph
<1>2. ParagraphsOK(paras) /\ TextsOK(<< >>)
  BY FlushedOK, AddedParagraph, SeqEmpty DEF TextsOK, OdsOK
<1> HIDE DEF paras
<1>3. /\ DOMAIN cxt' = DOMAIN cxt /\ cxt'.formulas = cxt.formulas
      /\ OdsHas(cxt', cxt.cell, paras, cxt.para, << >>)
  BY OdsFieldsIn, <1>1 DEF OdsFields, OdsHas
<1>4. cxt.cell \in OdsCells /\ ParagraphOK(cxt.para)
  BY <1>1 DEF OdsOK
<1> QED BY Zenon, <1>1, <1>2, <1>3, <1>4, OdsChangedOK

LEMMA OdsFormed ==
    ASSUME SheetsOK(sheet, DOMAIN strings.table), StringsOK(strings), OdsOK(cxt),
           cxt.phase = "cell"
    PROVE  cxt.cell.repeated \in Nat /\ (Ods!Cur \in DOMAIN sheet => SheetOK(Ods!Formatted(sheet[Ods!Cur], Ods!Known(cxt, cxt.cell.style)), FALSE, DOMAIN strings.table))
<1>1. cxt.cell.repeated \in Nat
  BY RepeatedAssumption DEF OdsOK
<1> QED BY Zenon, <1>1, FormattedOK DEF SheetsOK

LEMMA OdsEndFormula ==
    ASSUME SheetsOK(sheet, DOMAIN strings.table), StringsOK(strings), OdsOK(cxt),
           Ods!EndFormula
    PROVE  SheetsOK(sheet', DOMAIN strings.table) /\ strings' = strings /\ OdsOK(cxt')
<1> DEFINE ids == DOMAIN strings.table
           cur == Ods!Cur
           known == Ods!Known(cxt, cxt.cell.style)
           formed == Ods!Formatted(sheet[cur], known)
<1>a. OdsOK(known) /\ known.formulas = cxt.formulas
  BY Zenon, KnownOK
<1>b. ASSUME cxt.phase = "cell"
      PROVE  cxt.cell.repeated \in Nat /\ (cur \in DOMAIN sheet => SheetOK(formed, FALSE, ids))
  BY Zenon, <1>b, OdsFormed
<1> DEFINE covers == Ods!Covers
           entry(p) == [table |-> cur, pos |-> p, text |-> Ods!OwnValue,
                        result |-> IF cxt.cell.type = "float" THEN Ods!OwnValue ELSE Ods!NoText]
           added == [k \in DOMAIN covers |-> entry(covers[k])]
           formulas == cxt.formulas \o added
<1>1. /\ sheet' = [sheet EXCEPT ![cur] = formed] /\ strings' = strings /\ cxt.phase = "cell"
      /\ \E x : cxt' = [known EXCEPT !.formulas = formulas, !.phase = "row", !.col = x]
  <2>1. sheet' = [sheet EXCEPT ![cur] = formed] /\ strings' = strings /\ cxt.phase = "cell"
    BY DEF Ods!EndFormula
  <2>2. cxt' = Ods!EndsCell([known EXCEPT !.formulas = known.formulas \o added])
    BY DEF Ods!EndFormula
  <2> HIDE DEF known, added
  <2> QED BY Zenon, <1>a, <2>1, <2>2 DEF Ods!EndsCell
<1>2. IsSeq(added)
  <2>1. DOMAIN added = 1 .. cxt.cell.repeated /\ added = [k \in DOMAIN added |-> added[k]]
    BY DEF Ods!Covers
  <2> HIDE DEF added
  <2> QED BY <1>b, <1>1, <2>1, SeqOfNumbers
<1> HIDE DEF added
<1>3. IsSeq(formulas)
  BY <1>2, SeqConcat DEF OdsOK
<1> HIDE DEF formulas, known
<1>4. OdsOK(cxt')
  <2>1. OdsFields \subseteq DOMAIN known
    BY <1>a DEF OdsOK, OdsFields
  <2>2. /\ cxt'.phase = "row" /\ cxt'.formulas = formulas /\ DOMAIN cxt' = DOMAIN known
        /\ OdsHas(cxt', known.cell, known.paras, known.para, known.frags)
    BY <1>1, <2>1 DEF OdsFields, OdsHas
  <2> QED BY <1>a, <1>3, <2>2 DEF OdsOK, OdsHas
<1> HIDE DEF formed, cur
<1>5. SheetsOK([sheet EXCEPT ![cur] = formed], ids)
  BY Zenon, <1>b, <1>1, OneSheetOK
<1> QED BY <1>1, <1>4, <1>5

LEMMA OdsEndsCell ==
    ASSUME SheetsOK(sheet, DOMAIN strings.table), StringsOK(strings), OdsOK(cxt),
           NEW c, c = Ods!EndsCell(Ods!Known(cxt, cxt.cell.style))
    PROVE  OdsOK(c)
<1> DEFINE known == Ods!Known(cxt, cxt.cell.style)
<1>a. OdsOK(known) /\ known.formulas = cxt.formulas
  BY Zenon, KnownOK
<1> HIDE DEF known
<1>1. \E x : c = [known EXCEPT !.phase = "row", !.col = x]
  BY Zenon DEF Ods!EndsCell, known
<1>2. OdsFields \subseteq DOMAIN known
  BY <1>a DEF OdsOK, OdsFields
<1>3. OdsKept(known, c) /\ c.phase = "row"
  BY <1>1, <1>2 DEF OdsKept, OdsFields
<1> QED BY <1>a, <1>3, OdsKeptOK

LEMMA OdsEndValue ==
    ASSUME SheetsOK(sheet, DOMAIN strings.table), StringsOK(strings), OdsOK(cxt),
           Ods!EndValue
    PROVE  SheetsOK(sheet', DOMAIN strings.table) /\ strings' = strings /\ OdsOK(cxt')
<1> DEFINE ids == DOMAIN strings.table
           cur == Ods!Cur
           known == Ods!Known(cxt, cxt.cell.style)
           formed == Ods!Formatted(sheet[cur], known)
<1>a. OdsOK(known) /\ known.formulas = cxt.formulas
  BY Zenon, KnownOK
<1>b. ASSUME cxt.phase = "cell"
      PROVE  cxt.cell.repeated \in Nat /\ (cur \in DOMAIN sheet => SheetOK(formed, FALSE, ids))
  BY Zenon, <1>b, OdsFormed
<1>c. \A c : c = Ods!EndsCell(known) => OdsOK(c)
  BY OdsEndsCell
<1> DEFINE valued == Ods!FoldLeft(LAMBDA s, p : Ods!SetValue(s, p, Ods!OwnValue), formed, Ods!Covers)
           sh == IF cxt.cell.type \notin {"float", "date"} THEN formed ELSE valued
<1>1. sheet' = [sheet EXCEPT ![cur] = sh] /\ strings' = strings /\ cxt' = Ods!EndsCell(known) /\ cxt.phase = "cell"
  BY Zenon DEF Ods!EndValue
<1>2. OdsOK(cxt')
  BY Zenon, <1>c, <1>1
<1> HIDE DEF formed, cur, known
<1>3. ASSUME cur \in DOMAIN sheet PROVE SheetOK(sh, FALSE, ids)
  <2>1. SheetOK(formed, FALSE, ids) /\ cxt.cell.repeated \in Nat
    BY Zenon, <1>b, <1>1, <1>3
  <2> DEFINE v == Ods!OwnValue
  <2> HIDE DEF v
  <2>2. SheetOK(OdsValued(formed, v), FALSE, ids)
    BY Zenon, <2>1, ValuedOK
  <2> QED BY Zenon, <2>1, <2>2 DEF v, OdsValued
<1> HIDE DEF sh
<1>4. SheetsOK([sheet EXCEPT ![cur] = sh], ids)
  BY Zenon, <1>3, OneSheetOK
<1> QED BY <1>1, <1>2, <1>4

LEMMA OdsEndString ==
    ASSUME SheetsOK(sheet, DOMAIN strings.table), StringsOK(strings), OdsOK(cxt),
           Ods!EndString
    PROVE  SheetsOK(sheet', DOMAIN strings'.table) /\ StringsOK(strings') /\ OdsOK(cxt')
<1> DEFINE ids == DOMAIN strings.table
           cur == Ods!Cur
           known == Ods!Known(cxt, cxt.cell.style)
           formed == Ods!Formatted(sheet[cur], known)
<1>a. OdsOK(known) /\ known.formulas = cxt.formulas
  BY Zenon, KnownOK
<1>b. ASSUME cxt.phase = "cell"
      PROVE  cxt.cell.repeated \in Nat /\ (cur \in DOMAIN sheet => SheetOK(formed, FALSE, ids))
  BY Zenon, <1>b, OdsFormed
<1>c. \A c : c = Ods!EndsCell(known) => OdsOK(c)
  BY OdsEndsCell
<1> DEFINE first == Len(strings.table)
           n == cxt.cell.repeated
           more == DOMAIN strings'.table
           sh == Ods!FoldLeft(LAMBDA s, k : Ods!SetString(s, Ods!Covers[k], <<first + k>>), formed,
                              [k \in DOMAIN Ods!Covers |-> k])
<1>1. /\ sheet' = [sheet EXCEPT ![cur] = sh] /\ cxt' = Ods!EndsCell(known) /\ cxt.phase = "cell"
      /\ strings' = Ods!FoldLeft(LAMBDA ss, p : Ods!PushString(ss), strings, Ods!Covers)
      /\ cxt.paras # << >>
  BY Zenon DEF Ods!EndString
<1>2. OdsOK(cxt')
  BY Zenon, <1>c, <1>1
<1>3. n \in Nat /\ first \in Nat
  BY Zenon, <1>b, <1>1, SeqBasics DEF StringsOK
<1>4. StringsOK(strings') /\ Grew(strings, strings') /\ Len(strings'.table) = first + n
  BY Zenon, <1>1, <1>3, PushedOK DEF TextsSoFar, OdsOK
<1>5. ids \subseteq more /\ \A k \in 1 .. n : first + k \in more
  <2>1. more = 1 .. first + n
    BY <1>4, SeqBasics DEF StringsOK
  <2>2. ids \subseteq more
    BY <1>4 DEF Grew
  <2> HIDE DEF more
  <2> QED BY <1>3, <2>1, <2>2
<1> HIDE DEF formed, cur, known, first, more
<1>6. ASSUME cur \in DOMAIN sheet PROVE SheetOK(sh, FALSE, more)
  <2>1. SheetOK(formed, FALSE, more)
    BY Zenon, <1>b, <1>1, <1>5, <1>6, MoreStrings
  <2> QED BY Zenon, <1>3, <1>5, <2>1, TextedOK
<1>7. SheetsOK(sheet, more)
  BY <1>5, MoreSheets
<1> HIDE DEF sh
<1>8. SheetsOK([sheet EXCEPT ![cur] = sh], more)
  BY Zenon, <1>6, <1>7, OneSheetOK
<1> QED BY Zenon, <1>1, <1>2, <1>4, <1>8 DEF more

LEMMA OdsEndSpreadsheet ==
    ASSUME SheetsOK(sheet, DOMAIN strings.table), StringsOK(strings), OdsOK(cxt),
           Ods!EndSpreadsheet
    PROVE  SheetsOK(sheet', DOMAIN strings.table) /\ strings' = strings /\ OdsOK(cxt')
<1> DEFINE ids == DOMAIN strings.table
<1>1. /\ sheet' = Ods!FoldLeft(Ods!PushFormula, sheet, cxt.formulas) /\ strings' = strings
      /\ \E x : cxt' = [cxt EXCEPT !.phase = "done", !.defined = x, !.formulas = << >>]
  BY Zenon DEF Ods!EndSpreadsheet
<1>2. IsSeq(cxt.formulas)
  BY DEF OdsOK
<1>3. SheetsOK(sheet', ids)
  BY <1>1, <1>2, LateOK
<1>4. OdsOK(cxt')
  <2>1. /\ cxt'.phase = "done" /\ cxt'.formulas = << >> /\ DOMAIN cxt' = DOMAIN cxt
        /\ OdsHas(cxt', cxt.cell, cxt.paras, cxt.para, cxt.frags)
    BY OdsFieldsIn, <1>1 DEF OdsFields, OdsHas
  <2> QED BY <2>1, SeqEmpty DEF OdsOK, OdsHas
<1> QED BY <1>1, <1>3, <1>4

LEMMA OdsStep ==
    ASSUME SheetsOK(sheet, DOMAIN strings.table), StringsOK(strings), OdsOK(cxt), Ods!Next
    PROVE  SheetsOK(sheet', DOMAIN strings'.table) /\ StringsOK(strings') /\ OdsOK(cxt')
<1> HIDE DEF OdsOK
<1> QED
  BY OdsStartTable, OdsEnds, OdsOther, OdsColumn, OdsStartRow, OdsStartCell, OdsStartParagraph, OdsSpan,
     OdsCharacters, OdsEndParagraph, OdsEndFormula, OdsEndValue, OdsEndString, OdsEndSpreadsheet DEF Ods!Next

----------------------------------------------------------------------------
(* All the filters.                                                        *)

CellFilters == {"xlsx", "sst", "xls-xml", "gnumeric", "ods"}
OtherFilters == {"xlsx-styles", "xls-xml-styles", "ods-styles", "filters", "pivots", "conditional"}

\* What makes TypeOK inductive.  The strings of an XLSX sheet are those of
\* another part; the loops of the other filters need what their contexts
\* have collected for them.
CellsOK(f, sh, ids) == IF f = "ods" THEN SheetsOK(sh, ids) ELSE SheetOK(sh, f = "xlsx", ids)
ContextOK(f, c) ==
    /\ f = "sst" => SstOK(c)
    /\ f = "xls-xml" => XlsXmlOK(c)
    /\ f = "gnumeric" => GnumericOK(c)
    /\ f = "ods" => OdsOK(c)
TInv ==
    /\ filter \in CellFilters \cup OtherFilters
    /\ CellsOK(filter, sheet, DOMAIN strings.table)
    /\ StringsOK(strings)
    /\ ContextOK(filter, cxt)

LEMMA FirstContexts ==
    /\ Sst!Init => SstOK(cxt)
    /\ XlsXml!Init => XlsXmlOK(cxt)
    /\ Gnumeric!Init => GnumericOK(cxt)
    /\ Ods!Init => OdsOK(cxt)
<1>1. IsSeq(<< >>) /\ DOMAIN << >> = {}
  BY SeqEmpty
<1>2. Sst!Init => SstOK(cxt)
  BY <1>1 DEF Sst!Init, SstOK, Sst!NoText
<1>3. XlsXml!Init => XlsXmlOK(cxt)
  BY <1>1 DEF XlsXml!Init, XlsXmlOK, SegmentsOK
<1>4. Gnumeric!Init => GnumericOK(cxt)
  BY <1>1, NoCellOK DEF Gnumeric!Init, GnumericOK, Gnumeric!NoText
<1>5. Ods!Init => OdsOK(cxt)
  BY <1>1 DEF Ods!Init, OdsOK, ParagraphsOK, ParagraphOK, TextsOK
<1> QED BY <1>2, <1>3, <1>4, <1>5

LEMMA TInvHoldsFirst ==
    Init => TInv
<1> SUFFICES ASSUME Init PROVE TInv
  OBVIOUS
<1> DEFINE ids == DOMAIN strings.table
<1>1. CASE filter = "ods" /\ Ods!Init
  <2>1. sheet = << >> /\ strings = NewStrings /\ OdsOK(cxt)
    BY <1>1, OdsCalls, FirstContexts DEF Ods!Init
  <2>2. SheetsOK(sheet, ids)
    BY <2>1, SeqEmpty DEF SheetsOK
  <2> QED BY <1>1, <2>1, <2>2, NewStringsAreOK DEF TInv, CellsOK, ContextOK, CellFilters
<1>2. CASE filter \in CellFilters \ {"ods"}
  <2>1. sheet = NewSheet /\ strings = NewStrings
    BY <1>2, XlsxCalls, SstCalls, XlsXmlCalls, GnumericCalls
       DEF Init, CellsInit, Xlsx!Init, Sst!Init, XlsXml!Init, Gnumeric!Init, CellFilters
  <2>2. ContextOK(filter, cxt)
    BY <1>2, FirstContexts DEF Init, CellsInit, ContextOK
  <2> QED BY <1>2, <2>1, <2>2, NewStringsAreOK, NewSheetOK DEF TInv, CellsOK
<1>3. CASE filter \in OtherFilters
  <2>1. sheet = NewSheet /\ strings = NewStrings
    BY <1>3 DEF Init, CellsInit, OtherFilters
  <2>2. ContextOK(filter, cxt) /\ filter # "ods"
    BY <1>3 DEF ContextOK, OtherFilters
  <2> QED BY <1>3, <2>1, <2>2, NewStringsAreOK, NewSheetOK DEF TInv, CellsOK
<1> QED BY <1>1, <1>2, <1>3 DEF Init, CellsInit, CellFilters, OtherFilters

LEMMA TInvIsKept ==
    TInv /\ [Next]_vars => TInv'
<1> SUFFICES ASSUME TInv, [Next]_vars PROVE TInv'
  OBVIOUS
<1> DEFINE ids == DOMAIN strings.table
<1>1. CASE UNCHANGED vars
  BY <1>1 DEF vars, TInv
<1>2. ASSUME Next PROVE filter' = filter
  BY <1>2 DEF Next
<1>3. CASE filter = "xlsx" /\ Xlsx!Next /\ UNCHANGED <<strings, styles>> /\ filter' = filter
  <2>1. SheetOK(sheet, TRUE, ids)
    BY Zenon, <1>3 DEF TInv, CellsOK
  <2>2. SheetOK(sheet', TRUE, ids)
    BY Zenon, <1>3, <2>1, XlsxSheetStep
  <2> QED BY Zenon, <1>3, <2>2 DEF TInv, CellsOK, ContextOK
<1>4. CASE filter = "sst" /\ Sst!Next /\ UNCHANGED <<sheet, styles>> /\ filter' = filter
  <2>1. SheetOK(sheet, FALSE, ids) /\ SstOK(cxt) /\ StringsOK(strings)
    BY Zenon, <1>4 DEF TInv, CellsOK, ContextOK
  <2>2. StringsOK(strings') /\ SstOK(cxt') /\ Grew(strings, strings')
    BY <1>4, <2>1, SstStep
  <2>3. ids \subseteq DOMAIN strings'.table
    BY <2>2 DEF Grew
  <2>4. SheetOK(sheet', FALSE, DOMAIN strings'.table)
    BY Zenon, <1>4, <2>1, <2>3, MoreStrings
  <2> QED BY Zenon, <1>4, <2>2, <2>4 DEF TInv, CellsOK, ContextOK
<1>5. CASE filter = "xls-xml" /\ XlsXml!Next /\ filter' = filter
  <2>1. SheetOK(sheet, FALSE, ids) /\ XlsXmlOK(cxt) /\ StringsOK(strings)
    BY Zenon, <1>5 DEF TInv, CellsOK, ContextOK
  <2>2. SheetOK(sheet', FALSE, DOMAIN strings'.table) /\ StringsOK(strings') /\ XlsXmlOK(cxt')
    BY Zenon, <1>5, <2>1, XlsXmlStep
  <2> QED BY Zenon, <1>5, <2>2 DEF TInv, CellsOK, ContextOK
<1>6. CASE filter = "gnumeric" /\ Gnumeric!Next /\ filter' = filter
  <2>1. SheetOK(sheet, FALSE, ids) /\ GnumericOK(cxt) /\ StringsOK(strings)
    BY Zenon, <1>6 DEF TInv, CellsOK, ContextOK
  <2>2. SheetOK(sheet', FALSE, DOMAIN strings'.table) /\ StringsOK(strings') /\ GnumericOK(cxt')
    BY Zenon, <1>6, <2>1, GnumericStep
  <2> QED BY Zenon, <1>6, <2>2 DEF TInv, CellsOK, ContextOK
<1>7. CASE filter = "ods" /\ Ods!Next /\ filter' = filter
  <2>1. SheetsOK(sheet, ids) /\ OdsOK(cxt) /\ StringsOK(strings)
    BY <1>7 DEF TInv, CellsOK, ContextOK
  <2>2. SheetsOK(sheet', DOMAIN strings'.table) /\ StringsOK(strings') /\ OdsOK(cxt')
    BY <1>7, <2>1, OdsStep
  <2> QED BY <1>7, <2>2 DEF TInv, CellsOK, ContextOK
<1>8. CASE filter \in OtherFilters /\ UNCHANGED cells /\ filter' = filter
  <2>1. filter # "ods" /\ ContextOK(filter, cxt')
    BY <1>8 DEF OtherFilters, ContextOK
  <2> QED BY <1>8, <2>1 DEF TInv, CellsOK, cells
<1>9. ASSUME Next
      PROVE  \/ filter = "xlsx" /\ Xlsx!Next /\ UNCHANGED <<strings, styles>>
             \/ filter = "sst" /\ Sst!Next /\ UNCHANGED <<sheet, styles>>
             \/ filter = "xls-xml" /\ XlsXml!Next
             \/ filter = "gnumeric" /\ Gnumeric!Next
             \/ filter = "ods" /\ Ods!Next
             \/ filter \in OtherFilters /\ UNCHANGED cells
  BY <1>9 DEF Next, CellsNext, OtherFilters
<1> QED BY <1>1, <1>2, <1>3, <1>4, <1>5, <1>6, <1>7, <1>8, <1>9

\* TypeOK, from the invariant.
LEMMA RunsInOrder ==
    ASSUME NEW runs, NEW text, RunsOK(runs, text), NEW k \in DOMAIN runs
    PROVE  /\ runs[k].pos + runs[k].size <= Len(text)
           /\ k > 1 => runs[k - 1].pos + runs[k - 1].size <= runs[k].pos
BY DEF RunsOK

LEMMA TInvImpliesTypeOK ==
    TInv => TypeOK
<1> SUFFICES ASSUME TInv PROVE TypeOK
  OBVIOUS
<1> DEFINE ids == DOMAIN strings.table
<1>1. ASSUME NEW sh \in Sheets
      PROVE  SheetOK(sh, filter = "xlsx", ids)
  <2>1. CASE filter = "ods"
    <3>1. PICK t \in DOMAIN sheet : sh = sheet[t]
      BY <1>1, <2>1 DEF Sheets, Range
    <3>2. SheetOK(sh, FALSE, ids)
      BY Zenon, <2>1, <3>1 DEF TInv, CellsOK, SheetsOK
    <3> QED BY Zenon, <2>1, <3>2
  <2>2. CASE filter # "ods"
    BY <1>1, <2>2 DEF TInv, CellsOK, Sheets
  <2> QED BY <2>1, <2>2
<1>2. ASSUME NEW sh \in Sheets, NEW p \in Positions
      PROVE  LET c == sh.cells[p] IN
             /\ c.kind \in Kinds
             /\ (c.kind = "string" /\ filter # "xlsx") => c.val[1] \in DOMAIN strings.table
             /\ c.kind \in {"formula", "grouped"} => c.tokens # NoTokens
  BY <1>1 DEF SheetOK, CellOK, Kinds
<1>3. ASSUME NEW sh \in Sheets, NEW m \in sh.merged PROVE m.first \in Positions
  BY <1>1, <1>3 DEF SheetOK
<1>4. ASSUME NEW i \in DOMAIN strings.table, NEW k \in DOMAIN strings.table[i].runs
      PROVE  LET s == strings.table[i] IN
             /\ s.runs[k].pos + s.runs[k].size <= Len(s.text)
             /\ k > 1 => s.runs[k-1].pos + s.runs[k-1].size <= s.runs[k].pos
  BY RunsInOrder DEF TInv, StringsOK
<1> QED BY <1>2, <1>3, <1>4 DEF TypeOK

\* For every file of every format, and every value of the constants: after
\* every call the cells of the document refer to strings the document has,
\* its formulas have expressions, and the runs of its strings are in order
\* and in their texts.
THEOREM DocumentIsASpreadsheet == Spec => []TypeOK
<1>1. Init => TInv
  BY TInvHoldsFirst
<1>2. TInv /\ [Next]_vars => TInv'
  BY TInvIsKept
<1>3. TInv => TypeOK
  BY TInvImpliesTypeOK
<1> QED BY <1>1, <1>2, <1>3, PTL DEF Spec

=============================================================================
