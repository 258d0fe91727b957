SPECIFICATION Spec
CONSTANTS
    Contract = {c1, c2}
    Abi <- MCAbi
    Faults <- MCFaults
    Item = {"action", "table"}
    Listed <- MCListed
    None = None
SYMMETRY Symmetry
INVARIANTS
    FailureIsExplained
