SPECIFICATION FairSpec
CONSTANTS
    Messages <- Names
    Kind <- KindOf
    Clients <- ClientsOf
INVARIANT AnsweredOnce
PROPERTY Answered
PROPERTY Stops
PROPERTY RefreshOnlyWanted
PROPERTY RefreshComes
CHECK_DEADLOCK FALSE
