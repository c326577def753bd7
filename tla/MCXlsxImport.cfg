CONSTANTS
    Packages <- MCPackages
    Texts <- MCTexts
    Empty = ""
    Up = ".."
    Slash = "/"
    RelsDir = "_rels/"
    StackLimit = 12
SPECIFICATION Spec
CHECK_DEADLOCK FALSE
INVARIANTS
    TypeOK
    RelationsAreRelativeToTheirPart
    EachPartIsReadOnce
    PartsAreReadWithTheirData
PROPERTY ImportEnds
