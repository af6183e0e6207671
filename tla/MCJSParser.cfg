SPECIFICATION Spec
CONSTANTS
    Texts <- AllTexts
INVARIANTS
    TypeOK
    InIsOffExactlyInForHeads
    BuilderStacksAreOwned
    OperatorsHaveOperands
    ElseChainFolds
    OnlyLeftHandSidesAreAssigned
    NoTreeAfterError
PROPERTIES
    ParsingEnds
