SPECIFICATION Spec
CONSTANTS
    Pools = {p1, p2, p3}
    Strings = {a, b}
    Stores = {s1, s2, s3, s4}
SYMMETRY Symmetry
CHECK_DEADLOCK FALSE
INVARIANTS
    TypeOK
    ViewsAreBacked
    OneOwner
    StringsAreKnownOnce
PROPERTIES
    ReferencesStayValid
    AddressesAreStable
