CONSTANTS
    nsautoprop = nsautoprop
    scheduler = scheduler
    override = override
    AllControllers <- Join
    Failing <- NotOverride
    NoRetry <- Override
    MaxSource = 3
    MaxResult = 1
    MaxStimuli = 1
    MaxFailures = 1
SPECIFICATION FairSpec
INVARIANTS QuietIsDone Settled
PROPERTIES PipelineRefined InOrder PipelineEnds
CHECK_DEADLOCK FALSE
