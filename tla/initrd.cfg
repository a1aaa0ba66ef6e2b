SPECIFICATION FairSpec
CONSTANTS
    HEADER = 2
    FILE_HEADER = 3
    NAME = 3
    NODE_NAME = 5
    WORD = 64
    BUF = 4
    Sources <- ThreeFiles
    Names <- SomeNames
    MAX_EXTENT = 5
INVARIANTS TypeOK ReadsOwnFile CatFindsFile LsInOrder
PROPERTIES LsShowsAll
