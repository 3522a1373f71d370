SPECIFICATION Spec
CONSTANTS
    Dates = {1, 2}
    ReceiptQtys = {1, 3}
    DepletionQtys = {2}
    Costs = {1, 4}
    Standards = {none}
    NoStandard = none
    MaxLines = 3
INVARIANTS  BookValue PostedIsCorrection
PROPERTIES WritesOnlyCorrections
\* With its bound of lines used up the system has nothing left to do.
CHECK_DEADLOCK FALSE
