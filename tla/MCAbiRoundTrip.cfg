SPECIFICATION RoundTripSpec
CONSTANTS
    Name <- MCName
    Suffix <- MCSuffix
    Stem <- MCStem
    Label <- MCLabel
    Primitive <- MCPrimitive
    MapOrder <- MCMapOrder
    MaxDepth = 6
    Abis <- MCAbiDefs
    Queries <- RoundTripQueries
INVARIANTS
    RoundTripKeeps
