\* The sax flavour. A document of six tokens and thresholds from 1 to 6 reach
\* the doubling (1, 2, 4), the waiting and the last, empty batch.
SPECIFICATION FairSpec
CONSTANTS
    MinTokenSize = 1
    MaxTokenSize = 6
    Tokens = {t1, t2}
    PARSE_ERROR = parse_error
    DocumentSize = 6
    Endings = {"eof", "syntax", "other"}
    HandlerThrows = {"std", "foreign"}
    AbortOnThrow = TRUE
INVARIANTS
    TypeOK
    TokensReachTheClient
    NoOneSleepsInVain
    BoundedBatches
    ParseEndsRightly
    MoreIsRight
PROPERTIES
    ImplementsStream
    ParseEnds
