\* A short session with a cutoff, hanging handlers and a clock that is set back once.
SPECIFICATION FairSpec
CONSTANTS
    CloseAfter = 3
    InputCutoff = 2
    ConfigMessages = 2
    DefaultMessages = 3
    HandlerGrace = 1
    TimerMax = 4
    ReadsFail = TRUE
    MaxSteps = 1
    MaxTime = 4
    MaxInputs = 2
INVARIANTS
    AnsweredOnceInOrder
    AbandonedIsLast
    HandlersDoNotOverlap
    SummaryTruthful
PROPERTIES
    SessionEnds
