------------------------- MODULE SpreadsheetImport -------------------------
(***************************************************************************)
(* The import filters of the library: those that fill cells (CellImport),  *)
(* and the parts and elements with the styles of a file, with its filters  *)
(* and tables, with its pivot tables and with conditional formats, which   *)
(* are read on their own.                                                  *)
(***************************************************************************)
EXTENDS CellImport

CONSTANTS SectionOrders, StyleValues, NumberIds, BorderSides, Diagonals, \* XlsxStyles
          StyleRefs, MaxStyleElements,
          XmlStyles, StyleElements, DefaultId, MaxXmlStyles,             \* XlsXmlStyles
          OdfStyleAttrs, OdfFamilies, OdfNumberStyles, OdfProperties,    \* OdfStyles
          MaxOdfStyles,
          FilterFormats, FilterRanges, FilterTexts, FilterPatterns,      \* AutoFilters
          FilterSamples, Star, Quest, Tilde, Dot, Digit, TopAttrs, FieldAttrs, XmlColumnAttrs,
          OdsConditions, TableElements, TableColumns, MaxFilterElements,
          PivotIds, CacheSources, SharedItems, RecordValues, GroupBases, \* PivotTables
          Sections, EntryAttrs, PartAttrs, MaxPivotElements,
          CondRanges, RuleAttrs, LimitTypes, BarAttrs, MaxCondElements   \* XlsxConditionalFormats

(* A reference of an xf element is an index or an identifier, and -1 where *)
(* it has none: start_xf() takes a negative one for one out of bound.      *)
ASSUME StyleRefsAssumption ==
    StyleRefs \subseteq [font : Nat \cup {-1}, fill : Nat \cup {-1}, border : Nat \cup {-1},
                         numfmt : Nat \cup {-1}, xf : Nat \cup {-1}, align : BOOLEAN]

VARIABLES tables,     \* the import_auto_filter of a sheet and the import_tables
          pivots,     \* the pivot_collection
          conditions  \* the import_conditional_format of a sheet

vars == <<filter, sheet, strings, styles, tables, pivots, conditions, cxt, file>>
cells == <<sheet, strings>>
ranges == <<tables, pivots, conditions>>

XlsxFormats   == INSTANCE XlsxStyles
XlsXmlFormats == INSTANCE XlsXmlStyles
OdsFormats    == INSTANCE OdfStyles
Filters       == INSTANCE AutoFilters
Pivots        == INSTANCE PivotTables
Conditional   == INSTANCE XlsxConditionalFormats

Init == /\ \/ CellsInit
           \/ /\ \/ filter = "xlsx-styles" /\ XlsxFormats!Init
                 \/ filter = "xls-xml-styles" /\ XlsXmlFormats!Init
                 \/ filter = "ods-styles" /\ OdsFormats!Init
              /\ sheet = NewSheet /\ strings = NewStrings
           \/ /\ \/ filter = "filters" /\ Filters!Init
                 \/ filter = "pivots" /\ Pivots!Init
                 \/ filter = "conditional" /\ Conditional!Init
              /\ sheet = NewSheet /\ strings = NewStrings /\ styles = NewStyles
        /\ filter # "filters" => tables = Filters!NewTables
        /\ filter # "pivots" => pivots = Pivots!NewPivots
        /\ filter # "conditional" => conditions = Conditional!NewConditions

Next == /\ \/ /\ \/ CellsNext
                 \/ filter = "xlsx-styles" /\ XlsxFormats!Next /\ UNCHANGED cells
                 \/ filter = "xls-xml-styles" /\ XlsXmlFormats!Next /\ UNCHANGED cells
                 \/ filter = "ods-styles" /\ OdsFormats!Next /\ UNCHANGED cells
              /\ UNCHANGED ranges
           \/ filter = "filters" /\ Filters!Next /\ UNCHANGED <<cells, styles, pivots, conditions>>
           \/ filter = "pivots" /\ Pivots!Next /\ UNCHANGED <<cells, styles, tables, conditions>>
           \/ filter = "conditional" /\ Conditional!Next /\ UNCHANGED <<cells, styles, tables, pivots>>
        /\ UNCHANGED filter

Spec == Init /\ [][Next]_vars
-----------------------------------------------------------------------------
(* Every format and every named style of the document has just the parts   *)
(* its element refers to or contains, wherever in the file these are, and  *)
(* a cell finds the format of its style by the id it has in the file.      *)
StylesAreOwn ==
    /\ filter = "xlsx-styles" =>
          /\ XlsxFormats!XlsxFormatsHaveTheirParts /\ XlsxFormats!XlsxFormatsAreAligned
          /\ XlsxFormats!XlsxDifferentialsHaveNoParts /\ XlsxFormats!XlsxStylesAreNamed
    /\ filter = "xls-xml-styles" =>
          /\ XlsXmlFormats!XlsXmlStylesAreFound /\ XlsXmlFormats!XlsXmlParentsAreNamed
          /\ XlsXmlFormats!XlsXmlDefaultIsFirst
    /\ filter = "ods-styles" =>
          /\ OdsFormats!OdfStylesAreFound /\ OdsFormats!OdfNumbersAreNamed
          /\ OdsFormats!OdfParentsAreNamed /\ OdsFormats!OdfDefaultsAreFirst
          /\ OdsFormats!OdfCodesAreOfTheirStyles

(* A filter, a table, a pivot cache and a pivot table have the rules, the  *)
(* columns, the items, the records and the lists of their own element, at  *)
(* its cells and in its order, though all of them are built in objects     *)
(* that the next one finds again; a rule accepts the texts that its        *)
(* pattern in the file does, and a formula that names a table means the    *)
(* cells of its columns.  What the objects do keep is named: the place of  *)
(* a cache, above all the name of a table (CachesAreAtTheirCells), and the *)
(* node that a column which is not a custom one leaves open; what follows  *)
(* conditions in such a column is not compared (Clear).                    *)
RangesAreOwn ==
    /\ filter = "filters" =>
          /\ Filters!FiltersAreOfTheFile /\ Filters!TableReferencesAreOwn
          /\ (file = << >> /\ cxt.format = "xlsx") => Filters!PatternsMeanTheSame
    /\ filter = "pivots" =>
          /\ Pivots!CachesAreOwn /\ Pivots!CachesAreAtTheirCells /\ Pivots!PivotTablesAreOwn
    /\ filter = "conditional" => Conditional!ConditionsAreOfTheirRules
=============================================================================
