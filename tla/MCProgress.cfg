SPECIFICATION MCFairSpec
CONSTANTS
    Replicas = {r1}
    Nobody = Nobody
    Nil = Nil
PROPERTIES
    SubmitReturns  SourceReleased EveryChangeHandled
    StopEnds EventuallyReported AnswersFollow
CHECK_DEADLOCK FALSE
