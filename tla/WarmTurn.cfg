SPECIFICATION FairSpec
CONSTANTS
    Turns = {t1, t2}
    Nobody = Nobody
    MaxMishaps = 1
    MaxLines = 1
    MaxOutput = 2
INVARIANTS
    AnswerIsWhole
    ForeignLinesAreContinuations
    EndedOnce
    OneAttemptSpeaks
    KilledTurnIsSilent
PROPERTIES
    SentIsEnded
    ImplementsContract
CHECK_DEADLOCK FALSE
