CONSTANTS
    Elements = {"Sheet", "Names", "Name", "Cols", "Col", "Choice"}
    NoElement = "unknown"
    Contexts = {"sheet", "names", "name"}
    Root = "sheet"
    Invalid = "invalid"
    NoContext = "nullptr"
    Rules <- SmallRules
    AlwaysAllowed <- SmallAlwaysAllowed
    ChildOf <- SmallChildOf
    Level <- SmallLevel
    MaxNesting = 3
    MaxDepth = 5
SPECIFICATION Spec
INVARIANT EndedChildIsOwn
