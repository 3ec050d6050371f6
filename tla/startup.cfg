SPECIFICATION Spec
CONSTANTS
    Labels <- MCLabels
    Names <- MCNames
    Lines <- MCLines
    Addresses <- MCAddresses
    Scenarios <- MCScenarios
INVARIANTS
    VerdictsFollowTheLists
    StartupTypeOK
    ConfigIsSound
    UpstreamsAreChosen
    AnswersKnowTheLists
    AllOrNothing
PROPERTIES
    ExceptionsStand
\* A server that ends has stopped.
CHECK_DEADLOCK FALSE
