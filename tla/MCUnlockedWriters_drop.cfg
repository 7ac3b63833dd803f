\* The engine's process also tracks the embedding quota and self-prompts.
SPECIFICATION UnlockedSpec
CONSTANTS
    Thread <- MCThread
    Process <- MCProcess
    Home <- MCHome
    Key = {"k1"}
    Dumper = {"engine"}
    MaxCalls = 2
    MaxKills = 0
INVARIANT
    NoUpdateDropped
CHECK_DEADLOCK FALSE
