SPECIFICATION Spec
CONSTANTS
    Connection = {c1}
    Content = {d1}
INVARIANT ModificationsAnswerEmpty
\* Every connection may end up stranded.
CHECK_DEADLOCK FALSE
