CONSTANTS
    EpochLength = 2
    MaxL1Block = 3
    Alice = Alice
    Senders <- MCSenders
    InputBox = InputBox
    InputBoxDeploymentBlock = 2
    ShouldModifyIndex = TRUE
    MaxInputs = 2
    FailingCalls = {}
    MaxFailures = 0
    MaxHeight = 3
    MaxNonce = 1
    Foreign = Foreign
    TxLists <- MCFewTxLists
    StartingBlock = 1
    CatchUpThreshold = 100
    BatchLimit = 100
    Word = 1000
    MaxStale = 0
    MaxCrashes = 1
SPECIFICATION Spec
INVARIANT RecordedBlocksAreProcessed
