\* Three calls by three threads of two processes on two rows, one death.
SPECIFICATION Spec
CONSTANTS
    Thread <- MCThread
    Process <- MCProcess
    Home <- MCHome
    Key = {"k1", "k2"}
    MaxCalls = 3
    MaxKills = 1
INVARIANTS
    TypeOK
    EventsTellCommits
    ReadsOwnWrites
    NoUpdateDropped
PROPERTY
    ImplementsStore
CHECK_DEADLOCK FALSE
