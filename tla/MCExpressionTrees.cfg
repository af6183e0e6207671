SPECIFICATION TreeSpec
CONSTANTS
    Texts <- TreeTexts
INVARIANTS
    TreeIsTheText
