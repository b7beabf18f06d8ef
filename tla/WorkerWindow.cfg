SPECIFICATION WorkerSpec
CONSTANTS
    Requests <- Windows
    Line <- AllLines
    Name <- AllNames
    PrimaryAnswers <- Answers
    FormationBodies <- FocusedBodies
    FeedbackAnswers <- RecoveryAnswers
    RecollectionBodies <- FallbackBodies
    MaxTaggedLines = 27
    MaxModelInput = 20
    RulesSize = 8
    FormationSize = 16
    FeedbackSize = 5
    RecollectionSize = 18
    MaxPlainRecollections = 2
    MaxAttempts = 2
CHECK_DEADLOCK FALSE
INVARIANTS
    PromptsJustified
    LanesOwnSeeds
    AnswerSurvives
    FeedbackIsCausal
