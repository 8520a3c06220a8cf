SPECIFICATION Spec

CONSTANTS
    d1 = d1
    d2 = d2
    NoBoard = NoBoard
    Dates <- MCDates
    DefaultDate = d1
    MaxRequests = 4
    MaxWaiting = 1

INVARIANTS
    PageTypeOK
    ScreenIsCurrent

PROPERTIES
    LoadsNeverRegress
    LateAnswersAreDropped
    LoadingEnds

CHECK_DEADLOCK FALSE
