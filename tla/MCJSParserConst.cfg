SPECIFICATION Spec
CONSTANTS
    Texts <- Constants
INVARIANTS
    ParseReturns
