CONSTANTS
    EpochLength = 2
    MaxL1Block = 3
    Senders = {}
    InputBox = InputBox
    InputBoxDeploymentBlock = 1
    ShouldModifyIndex = FALSE
    MaxInputs = 2
    FailingCalls = {"RetrieveInputs", "StoreEpochAndInputs"}
    MaxFailures = 1
    MaxCrashes = 1
    MaxRetries = 1
    ReadyCapacity = 2
    MaxErrors = 2
    MaxLost = 1
SPECIFICATION FairServiceSpec
INVARIANTS ServiceTypeOK InputsMatchCursor ClosedEpochIsComplete ErrorsAreRetried
PROPERTIES ClosedEpochIsFrozen ServiceImplementsWatcher EveryInputIsStored
