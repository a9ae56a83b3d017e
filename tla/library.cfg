SPECIFICATION CheckedSpec
CONSTANTS
    Names = {a, b}
    Lengths <- MCLengths
    PageWords = 2
    Pages = 3
INVARIANTS
    LibraryWhole
    FileFollows
PROPERTIES
    StoredAtLast
    ShelfSpec
