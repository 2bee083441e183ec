SPECIFICATION Spec
CONSTANTS
    Connection = {c1, c2}
    Content = {d1, d2}
INVARIANTS
    OnlyEntitledContent
    RefusalsShowNothing
SYMMETRY MCSymmetry
\* Every connection may end up stranded.
CHECK_DEADLOCK FALSE
