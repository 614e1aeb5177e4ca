CONSTANTS
    EpochLength = 2
    MaxL1Block = 5
    Senders = {}
    InputBox = InputBox
    InputBoxDeploymentBlock = 1
    ShouldModifyIndex = FALSE
    MaxInputs = 3
    FailingCalls = {"RetrieveInputs", "GetInputIndex", "UpdateInputIndex", "StoreEpochAndInputs"}
    MaxFailures = 0
    MaxCrashes = 0
SPECIFICATION Spec
INVARIANT EarlierEpochsAreClosed
