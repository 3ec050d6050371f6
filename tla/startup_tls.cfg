SPECIFICATION Spec
CONSTANTS
    Labels <- MCLabels
    Names <- MCNames
    Lines <- MCLines
    Addresses <- MCAddresses
    Scenarios <- Starts
INVARIANTS
    EnvironmentEnablesTls
CHECK_DEADLOCK FALSE
