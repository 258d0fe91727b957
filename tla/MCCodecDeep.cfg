SPECIFICATION Spec
CONSTANTS
    Text <- MCText
    Type <- MCType
    Ser <- MCSer
    Of <- MCOf
    Fields <- MCFields
    IntOf <- MCIntOf
    Spell <- MCSpell
    Inputs <- DeepInputs
    Blobs <- NoBlobs
    MaxStack = 3
INVARIANTS
    SameBytes
