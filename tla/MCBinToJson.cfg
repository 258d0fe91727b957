SPECIFICATION FairSpec
CONSTANTS
    Text <- MCText
    Type <- MCTrailing
    Ser <- MCTrailingSer
    Of <- MCTrailingOf
    Fields <- MCTrailingFields
    IntOf <- MCIntOf
    Spell <- MCSpell
    Blobs <- MCBlobs
    MaxStack = 3
INVARIANTS
    TypeOK
    TextIsJson
PROPERTIES
    Terminates
