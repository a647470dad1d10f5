SPECIFICATION Spec
CONSTANTS
    dog = dog
    Dog = Dog
    cat = cat
    c1 = c1
    c2 = c2
    none = none
    Texts <- MCTexts
    NoText = none
    Fold <- MCFold
    Chapters <- MCChapters
    ChapArgs <- MCSingle
    NoNode = NoNode
    Bandwidth = 2
    MaxId = 3
    MaxTokens = 2
    MaxRows = 1
INVARIANTS
    TypeOK
    TextIndexExact
    ChapterIndexExact
    NoDanglingLinks
PROPERTIES
    StablePointers
    IdsNeverReused
    RowsGoWithChapter
    ImplementsGraph
CHECK_DEADLOCK FALSE
