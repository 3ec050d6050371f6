SPECIFICATION PathLiveSpec
CONSTANTS
    Calls = {"q1", "q2"}
    Chain <- MCChain
    Timeout = 2
    Ports = {"p1", "p2"}
    PortsRest = TRUE
    NameOf <- MCNameOf
    PhoneWait = 2
INVARIANTS
    PathTypeOK
    EndsOnTime
    AnswersAreOwn
    AnswersInTimeAreRelayed
PROPERTIES
    ImplementsContract
    CallsEnd
    RetriesAreAnswered
    ThreadsEnd
