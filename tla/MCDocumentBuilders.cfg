CONSTANTS
    Texts = {"ref", "a"}
    Escaped = {"ref", "a"}
    Ref = "ref"
    Externals <- MCExternals
    Inits <- MCInits
    MaxSymbols = 8
    MaxNest = 2
    MaxWrites = 1
    MaxWritten = 5
    Lines <- MCLines
    Numbers <- MCNumbers
    YamlNull <- MCYamlNull
    YamlSpace = " "
    Break = "nl"
    MaxLines = 4
    Selectors <- MCSelectors
    Properties <- MCProperties
    MaxGroup = 2
    MaxBlock = 2
    MaxRules = 2
    MaxChainDepth = 1
    Chars = {a, d, q, l, b}
    Delim = d
    Quote = q
    CsvLine = l
    Blank = b
    MaxChars = 5
    Configs <- MCConfigs
    XmlMaps <- MCXmlMaps
    Attributes = {"@", "@2"}
    Opens <- MCOpens
    Leaves <- MCLeaves
    MaxXmlParts = 10
    MaxXmlDepth = 4
    JsonMaps <- MCJsonMaps
    JsonContainers <- MCContainers
    Scalars <- MCScalars
    JsonNull <- MCJsonNull
    MaxJsonParts = 10
    MaxJsonDepth = 4
    StructureFormats = {"xml", "json"}
    XmlParts <- MCXmlParts
    JsonParts <- MCJsonParts
    TextElements = {"i"}
    MaxStructureParts = 10
    MaxStructureDepth = 4
    Tags <- MCTags
    DomTexts <- MCDomTexts
    DomBlank = " "
    Instructions <- MCInstructions
    Edits <- MCEdits
    Reloads = TRUE
    MaxDomParts = 4
    MaxDomDepth = 3
    MaxEdits = 1
    DocumentCalls <- MCDocumentCalls
    MaxCalls <- MCMaxCalls
    SheetRows = 3
    SheetCols = 4
    SharedIds = {1}
    UnsafeNames <- MCUnsafe
    Unwritable <- MCUnwritable
    BadTexts <- MCBadTexts
    Kinds <- MCKinds
    Pieces <- MCPieces
    MaxPieces <- MCMaxPieces
    MaxLong = 3000
    Register = 2
    PathDocument <- MCPathDocument
    MarkupKinds = {"css", "xml"}
    MarkupWords <- MCMarkupWords
    Fillers <- MCFillers
    SheetRules <- MCSheetRules
    CutRules <- MCCutRules
    Behind <- MCBehind
    WriterCalls <- MCWriterCalls
    MaxWriterCalls = 4
    Streams = {"fd", "blob"}
    ArchiveSizes = {22, 400}
    TailPieces <- MCTailPieces
    MaxTail = 4
    Window = 30
    Marker = 9999
    Ends <- MCEnds
    Entries <- MCEntries
    MaxEntries = 2
    Locals <- MCLocals
    AskedNames <- MCAskedNames
    ViewFormats = {"xlsx", "xls-xml"}
    ViewElements <- MCViewElements
    OptionLeaves <- MCOptionLeaves
    PaneLeaves <- MCPaneLeaves
    LeafSets <- MCLeafSets
    AnyCells <- MCAnyCells
    MaxViewSheets = 2
    MaxViewParts <- MCMaxViewParts
SPECIFICATION Spec
INVARIANTS TreesAreReadAgain  RecordsAreRows StructuresAreOwn
CHECK_DEADLOCK FALSE
