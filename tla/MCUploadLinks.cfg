SPECIFICATION IngestSpec
CONSTANTS
    dog = dog
    cat = cat
    c1 = c1
    c2 = c2
    none = none
    Texts <- MCTexts
    NoText = none
    Fold <- MCFold
    Chapters <- MCChapters
    ChapArgs = {}
    NoNode = NoNode
    Bandwidth = 2
    MaxId = 8
    MaxTokens = 6
    MaxRows = 0
    Contains <- MCContains
    MaxNodes = 2
    MaxFiles = 3
    MaxKills = 0
INVARIANT
    LinksUploaded
CHECK_DEADLOCK FALSE
