SPECIFICATION Spec
CONSTANTS
    Octet = 16
    MaxJumps = 2
    LowerOctet <- MCLowerOctet
    NotUtf8 = {14}
    Replacement <- MCReplacement
    Frame = 20
    A = 1
    CNAME = 5
    MX = 6
    TXT = 7
    NS = 2
    Messages <- MCResponses
INVARIANTS
    CompressedMessagesSurvive
CHECK_DEADLOCK FALSE
