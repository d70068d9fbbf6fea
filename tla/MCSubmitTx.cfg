\* Four calls, as many as there are worker processes: two race for a nonce, and
\* others fill or widen a gap.
CONSTANTS
    Calls = {c1, c2, c3, c4}
SYMMETRY Symmetry
SPECIFICATION SubmitSpec
INVARIANTS
    GapWasDropped
PROPERTIES
    ImplementsChainCall
CHECK_DEADLOCK FALSE
