SPECIFICATION TreeSpec
CONSTANTS
    Texts <- NewTargets
INVARIANTS
    ExpressionsAreParsed
