SPECIFICATION FairSpec
CONSTANTS
    Text <- MCText
    Type <- MCType
    Ser <- MCSer
    Of <- MCOf
    Fields <- MCFields
    IntOf <- MCIntOf
    Spell <- MCSpell
    Inputs <- MCAllInputs
    MaxStack = 3
INVARIANTS
    TypeOK
    StackBounded
    EntriesInBounds
    MergeInBounds
    OpenArraysOwnTheirHole
    NestsLikeReader
PROPERTIES
    SkipIsFinal
    Terminates
