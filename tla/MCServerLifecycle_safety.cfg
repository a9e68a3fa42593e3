CONSTANTS
    Order <- MCOrder
    Raw = "raw"
    Optional = {"tls10"}
    NeedsCA = {"mtls"}
    MaxActive = 1
SPECIFICATION FairSpec
INVARIANTS OnlyRequiredFailuresAreFatal NoUnaskedStop
PROPERTIES SignalEndsProcess
CHECK_DEADLOCK FALSE
