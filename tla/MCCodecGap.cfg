SPECIFICATION Spec
CONSTANTS
    Text <- MCText
    Type <- MCType
    Ser <- MCSer
    Of <- MCOf
    Fields <- MCFields
    IntOf <- MCIntOf
    Spell <- MCSpell
    Inputs <- GapInputs
    Blobs <- NoBlobs
    MaxStack = 5
INVARIANTS
    SameBytes
