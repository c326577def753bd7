----------------------------- MODULE CellImport -----------------------------
(***************************************************************************)
(* The filters that fill the cells of sheets, each with the calls it makes *)
(* on the one interface of the spreadsheet document (ImportSheet):         *)
(* whatever the format of the file, the document keeps the same promises.  *)
(***************************************************************************)
EXTENDS ImportSheet, SequencesExt

CONSTANTS RowAttrs, ColAttrs, CellAttrs, FormulaAttrs, MaxSize,          \* XlsxSheet
          Formats, Texts, MaxStrings, CR,                                \* XlsxSharedStrings
          TableAttrs, ColumnAttrs, LineAttrs, XlsCellAttrs, StyleIds,    \* XlsXmlSheet
          Marks, Fonts, Bold, Italic, NotBold, NotItalic, MaxXlsSize,
          GnmCellAttrs, GnmTexts, GnmLines, GnmRegions, GnmStyles,       \* GnumericSheet
          GnmBorders, GnmMerges, Equals, Space, MaxGnmSize,
          OdsColumns, OdsRows, OdsCells, AutoStyles, NamedStyles,        \* OdsSheet
          SpanFonts, NewLine, MaxTables, MaxOdsSize

\* Texts are texts; a segment of a format has two std::size_t; the number of
\* times a cell is repeated is positive in every ODF file (not checked).
ASSUME TextsAssumption == Texts \subseteq Seq(Int) /\ GnmTexts \subseteq Seq(Int)
ASSUME SegmentsAssumption == \A a \in GnmCellAttrs : \A s \in a.segments : s.start \in Nat /\ s.end \in Nat
ASSUME RepeatedAssumption == \A a \in OdsCells : a.repeated \in Nat

VARIABLES filter,   \* the filter that reads the file
          sheet,    \* the import_sheet, or one for each table
          strings,  \* the import_shared_strings
          styles,   \* the import_styles
          cxt,      \* the contexts of the filter
          file      \* what the file said so far

Xlsx     == INSTANCE XlsxSheet
Sst      == INSTANCE XlsxSharedStrings
XlsXml   == INSTANCE XlsXmlSheet
Gnumeric == INSTANCE GnumericSheet
Ods      == INSTANCE OdsSheet

CellsInit == \/ filter = "xlsx" /\ Xlsx!Init /\ strings = NewStrings /\ styles = NewStyles
             \/ filter = "sst" /\ Sst!Init /\ sheet = NewSheet /\ styles = NewStyles
             \/ filter = "xls-xml" /\ XlsXml!Init /\ styles = NewStyles
             \/ filter = "gnumeric" /\ Gnumeric!Init
             \/ filter = "ods" /\ Ods!Init /\ styles = NewStyles

CellsNext == \/ filter = "xlsx" /\ Xlsx!Next /\ UNCHANGED <<strings, styles>>
             \/ filter = "sst" /\ Sst!Next /\ UNCHANGED <<sheet, styles>>
             \/ filter = "xls-xml" /\ XlsXml!Next /\ UNCHANGED styles
             \/ filter = "gnumeric" /\ Gnumeric!Next
             \/ filter = "ods" /\ Ods!Next /\ UNCHANGED styles
-----------------------------------------------------------------------------
Sheets == IF filter = "ods" THEN Range(sheet) ELSE {sheet}
Kinds == {"empty", "value", "string", "bool", "formula", "grouped"}

(* The document is a spreadsheet after every call: a string cell refers to *)
(* the table of shared strings, a formula has an expression, the runs of a *)
(* string are in its text and in order, and merged ranges start in the     *)
(* sheet.  (The strings of an XLSX file are those of another part.)        *)
TypeOK ==
    /\ \A sh \in Sheets :
          /\ \A p \in Positions :
                LET c == sh.cells[p] IN
                /\ c.kind \in Kinds
                /\ (c.kind = "string" /\ filter # "xlsx") => c.val[1] \in DOMAIN strings.table
                /\ c.kind \in {"formula", "grouped"} => c.tokens # NoTokens
          /\ \A m \in sh.merged : m.first \in Positions
    /\ \A i \in DOMAIN strings.table :
          LET s == strings.table[i] IN
          \A k \in DOMAIN s.runs :
              /\ s.runs[k].pos + s.runs[k].size <= Len(s.text)
              /\ k > 1 => s.runs[k-1].pos + s.runs[k-1].size <= s.runs[k].pos

(* A cell has the value, text or cached result of the element of the file  *)
(* that gives it to that place.  Three elements give what is not their     *)
(* own: a Gnumeric cell, and a shared string or run, without text, the     *)
(* text before it, and a formula of Excel 2003 XML without a number, the   *)
(* number of a formula before it (see TextOf, TextOfString and ResultOf).  *)
ValuesAreOwn ==
    /\ filter = "xlsx" => Xlsx!XlsxValuesAreOwn /\ Xlsx!XlsxResultsArrive
    /\ filter = "sst" => Sst!StringsAreNumbered
    /\ filter = "xls-xml" => XlsXml!XlsXmlValuesAreOwn /\ XlsXml!XlsXmlResultsArrive
    /\ filter = "gnumeric" => Gnumeric!GnumericTextsAreOwn
    /\ filter = "ods" => Ods!OdsCellsAreCounted

(* A formula comes to its own cell with its own expression, a shared one   *)
(* with that of the first of its group, a cell of an array formula with    *)
(* that of the array, and no value read after it takes its place.          *)
FormulasAreOwn ==
    /\ filter = "xlsx" => Xlsx!XlsxFormulasArrive
    /\ filter = "xls-xml" => XlsXml!XlsXmlFormulasArrive
    /\ filter = "gnumeric" => Gnumeric!GnumericFormulasAreOwn
    /\ filter = "ods" => Ods!OdsFormulasComeLast

(* Cells, rows, columns and the pieces of a text have just the formats the *)
(* file gives them.  None is left over for what comes next but in XLSX     *)
(* strings, where a run without text leaves its own to the next text.      *)
FormatsAreOwn ==
    /\ filter = "xlsx" => Xlsx!XlsxFormatsAreOwn
    /\ filter = "sst" => Sst!FormatsAreOfTheirRun
    /\ filter = "xls-xml" => XlsXml!XlsXmlFormatsAreOwn /\ XlsXml!XlsXmlColumnsAreCounted
    /\ filter = "gnumeric" => /\ Gnumeric!GnumericFormatsAreOwn /\ Gnumeric!GnumericStylesAreTheLast
                              /\ Gnumeric!GnumericMergesAreTheFirst
    /\ filter = "ods" => Ods!OdsFontsAreOfTheirSpans /\ Ods!OdsFormatsAreOfTheirStyles
=============================================================================
