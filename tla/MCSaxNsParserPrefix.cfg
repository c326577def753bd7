CONSTANTS
    Uris = {"u", "w3"}
    BuiltinUri = "w3"
    BuiltinId = "XML_BUILTIN_NS_URI"
    Unknown = "XMLNS_UNKNOWN_ID"
    NoUri = ""
    Prefixes = {"p"}
    Predefined <- OneUri
    Names = {"x"}
    AttrNames = {"n"}
    MaxDepth = 2
    MaxAttrs = 2
SPECIFICATION Spec
PROPERTY PrefixesAreResolved
