CONSTANTS
    Names <- MCNames
    FirstId <- MCFirstId
    NextId <- MCNextId
    SystemNames = {"cadvisor"}
    NeedsFirst <- MCNeedsFirst
    AcceptDown = {"job"}
    Tries = 1
    Polls = 1
    StartRetries = 2
    StartRounds = 3
    MaxDeaths = 2
    MaxTime = 3
    MaxCerts = 1
    MaxActs = 1
SPECIFICATION Spec
INVARIANTS
    TypeOK
    AnswerIsTrue
    ReleasedOnItsCertificate
    NoNeedlessRestart
    DependentsComeUp
PROPERTIES
    NothingRunsThroughTheRestart
