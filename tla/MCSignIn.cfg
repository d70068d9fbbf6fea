\* Three requests and three attempts: two may overlap and a third come before,
\* between or after them. Two codes, so that a code is wrong or drawn again.
CONSTANTS
    Issues = {i1, i2, i3}
    Attempts = {a1, a2, a3}
    Codes = {c1, c2}
    Validity = 1
    MaxClock = 2
SYMMETRY Symmetry
SPECIFICATION SignInSpec
INVARIANTS
    OneLiveCode
    SingleUse
CHECK_DEADLOCK FALSE
