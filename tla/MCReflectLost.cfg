SPECIFICATION Spec
CONSTANTS
    MaxList = 2
    MaxDepth = 4
INVARIANT
    TreeCorrespondsToCode
