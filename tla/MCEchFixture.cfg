SPECIFICATION FixtureSpec
CONSTANTS
    Bytes <- MCBytes
    TargetPort = 8443
    MaxBody = 34
    Requests <- MCRequests
INVARIANTS
    NoPanic
    AnswersAreSound
    OutcomePerName
    SecretNameHidden
PROPERTIES
    ParserAdvances
    CallEnds
