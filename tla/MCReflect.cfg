SPECIFICATION Spec
CONSTANTS
    MaxList = 2
    MaxDepth = 4
INVARIANTS
    TypeOK
    ProgramIsTheRoot
    ListsAreArrays
    NothingCrashes
    NullMeansLeftOut
    ChildrenAreShown
