\* The json flavour with a handler that throws.
SPECIFICATION FairSpec
CONSTANTS
    MinTokenSize = 1
    MaxTokenSize = 2
    Tokens = {t1}
    PARSE_ERROR = parse_error
    DocumentSize = 4
    Endings = {"eof", "syntax"}
    HandlerThrows = {"std", "foreign"}
    AbortOnThrow = FALSE
PROPERTIES
    WaitingParserGoesOn
CHECK_DEADLOCK FALSE
