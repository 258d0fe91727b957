SPECIFICATION Spec
CONSTANTS
    Name <- MCName
    Suffix <- MCSuffix
    Stem <- MCStem
    Label <- MCLabel
    Primitive <- MCPrimitive
    MapOrder <- MCMapOrder
    MaxDepth = 4
    Abis <- MCAbiDefs
    Queries <- MCQueries
INVARIANTS
    TypeOK
    NestingLegal
    EdgesSettled
    DepthBounded
    NothingLeftOver
PROPERTIES
    ResolvedIsFinal
    MeansWhatItSays
    Terminates
