SPECIFICATION Spec
CONSTANTS
    NumPages = 4
    PageSize = 2
    Holders = {h1, h2, h3}
INVARIANTS
    TypeOK
    OwnersCounted
    FreeListExact
PROPERTY
    ImplementsPagePool
