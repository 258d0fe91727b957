SPECIFICATION Spec
CONSTANTS
    MaxElements = 2
    MaxFields = 16
    MaxAmount = 2
    NameLength = 4
    CodeSize = 4
    AmountLimit = 127
    WordSize = 2
    FixedSize = 3
    IntTypes <- MCIntTypes
    Unit <- MCUnit
    Murmur <- MCMurmur
    Ripemd <- MCRipemd
    PlainSize <- MCPlainSize
    Tried <- MCTried
INVARIANTS DescriptionsAgree ReadsExactly AmountsExact ValuesComeBack TimesComeBack KeysComeBack
