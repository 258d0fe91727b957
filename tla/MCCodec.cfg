SPECIFICATION Spec
CONSTANTS
    Text <- MCText
    Type <- MCType
    Ser <- MCSer
    Of <- MCOf
    Fields <- MCFields
    IntOf <- MCIntOf
    Spell <- MCSpell
    Inputs <- MCInputs
    Blobs <- CodecBlobs
    MaxStack = 5
INVARIANTS
    SameBytes
    RoundTrips
    ComesBack
