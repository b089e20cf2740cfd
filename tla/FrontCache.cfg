SPECIFICATION MCSpec
CONSTANTS
    Nodes = {n1, n2}
    NoNode = NoNode
    Mutators = {m1, m2}
    Callers = {c1}
    Backend = "memory"
    Requested = {"nodes"}
    Kinds = {"create", "static", "delete"}
    Patches = {{"meta"}}
    MaxRev = 2
    MaxSample = 2
    MaxVersion = 2
SYMMETRY Symmetry
INVARIANTS
    CatalogIsCurrent
    GuestCatalogIsCurrent
    MissingNodeHeals
PROPERTIES
    ServedIsFresh
    RuntimeNeverRegresses
CHECK_DEADLOCK FALSE
