SPECIFICATION Spec
CONSTANTS
    Names = {"a", "b.js"}
    Scripts = {"b.js"}
    Depth = 2
    Trees <- AllTrees
    MaxChanges = 2
    CommandLines <- Lines
INVARIANTS
    TypeOK
    StableScriptsAreFound
    OnlyScriptsArePrinted
    DirectoriesNest
    ScanFailsForAReason
    ScriptIsFirstArgument
PROPERTIES
    ScanEnds
