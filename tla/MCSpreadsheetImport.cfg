CONSTANTS
    NumRows = 2
    NumCols = 3
    SharedIds = {1}
    FillMissing = TRUE
    MaxSize = 6
    RowAttrs <- MCRowAttrs
    ColAttrs <- MCColAttrs
    CellAttrs <- MCCellAttrs
    FormulaAttrs <- MCFormulaAttrs
    MaxStrings = 6
    CR = 13
    Formats = {b, i}
    Texts <- MCTexts
    MaxXlsSize = 6
    TableAttrs <- MCTableAttrs
    ColumnAttrs <- MCColumnAttrs
    LineAttrs <- MCLineAttrs
    XlsCellAttrs <- MCXlsCellAttrs
    StyleIds = {1}
    Marks = {b, i}
    Fonts = {f}
    Bold = b
    Italic = i
    NotBold = nb
    NotItalic = ni
    MaxGnmSize = 4
    GnmCellAttrs <- MCGnmCells
    GnmTexts <- MCGnmTexts
    GnmLines <- MCGnmLines
    GnmRegions <- MCGnmRegions
    GnmStyles <- MCGnmStyles
    GnmBorders <- MCGnmBorders
    GnmMerges <- MCGnmMerges
    Equals = 1
    Space = 2
    MaxOdsSize = 6
    MaxTables = 2
    OdsColumns <- MCOdsColumns
    OdsRows <- MCOdsRows
    OdsCells <- MCOdsCells
    AutoStyles = {1}
    NamedStyles = {7, 8}
    SpanFonts <- MCSpanFonts
    NewLine = 1
    SectionOrders <- MCSectionOrders
    StyleValues = {1}
    NumberIds = {5}
    BorderSides = {"top", "diagonal"}
    Diagonals <- MCDiagonals
    StyleRefs <- MCStyleRefs
    MaxStyleElements = 4
    XmlStyles <- MCXmlStyles
    StyleElements <- MCStyleElements
    DefaultId <- MCDefaultId
    MaxXmlStyles = 4
    OdfStyleAttrs <- MCOdfStyleAttrs
    OdfFamilies = {"cell", "column"}
    OdfNumberStyles <- MCOdfNumberStyles
    OdfProperties <- MCOdfProperties
    MaxOdfStyles = 4
    FilterFormats = {"xlsx", "gnumeric", "xls-xml", "ods"}
    FilterRanges <- MCFilterRanges
    FilterTexts <- MCFilterTexts
    FilterPatterns <- MCPatterns
    FilterSamples <- MCSamples
    Star = 42
    Quest = 63
    Tilde = 126
    Dot = 46
    Digit = 9
    TopAttrs <- MCTopAttrs
    FieldAttrs <- MCFieldAttrs
    XmlColumnAttrs <- MCXmlColumns
    OdsConditions <- MCOdsConditions
    TableElements <- MCTableElements
    TableColumns <- MCTableColumns
    MaxFilterElements <- MCMaxFilters
    PivotIds = {1, 2}
    CacheSources <- MCCacheSources
    SharedItems <- MCSharedItems
    RecordValues <- MCRecordValues
    GroupBases <- MCGroupBases
    Sections <- MCSections
    EntryAttrs <- MCEntryAttrs
    PartAttrs <- MCPartAttrs
    MaxPivotElements <- MCMaxPivots
    CondRanges = {"A1"}
    RuleAttrs <- MCRuleAttrs
    LimitTypes = {"min"}
    BarAttrs <- MCBarAttrs
    MaxCondElements = 7
SPECIFICATION Spec
INVARIANTS TypeOK ValuesAreOwn FormulasAreOwn FormatsAreOwn StylesAreOwn RangesAreOwn
CHECK_DEADLOCK FALSE
