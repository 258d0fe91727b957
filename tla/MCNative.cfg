SPECIFICATION Spec
CONSTANTS
    Text <- MCText
    Type <- MCType
    Ser <- MCSer
    Of <- MCOf
    Fields <- MCFields
    IntOf <- MCIntOf
    Spell <- MCSpell
    CppType <- MCCppType
    Kind <- MCKind
    Elem <- MCElem
    MembersOf <- MCMembers
    TypeName <- MCTypeName
    Chars <- MCChars
    Addable <- MCAddable
    MaxCalls = 3
    Values <- MCValues
    Documents <- MCDocuments
    Data <- MCData
    MaxStack = 5
INVARIANTS
    SixConversions
    AgreesWithAbi
    AddedIsComplete
    ReusedObject
    KeysInOrder
