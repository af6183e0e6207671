SPECIFICATION Spec
CONSTANTS
    Texts <- AllTexts
    NonASCIIIdentStart = {170}
    NonASCIIIdentPart = {170, 768}
INVARIANTS
    TypeOK
    NumbersKeepTheirDigits
    LinesAreCounted
    TerminatorMeansLineBreak
    NamesAndStringsAreDecoded
PROPERTIES
    Implements
    LexReturns
CHECK_DEADLOCK FALSE
