CONSTANTS
    EpochLength = 1
    MaxL1Block = 2
    Alice = Alice
    Senders <- MCSenders
    InputBox = InputBox
    InputBoxDeploymentBlock = 1
    ShouldModifyIndex = TRUE
    MaxInputs = 1
    FailingCalls = {"RetrieveInputs", "GetInputIndex", "UpdateInputIndex", "StoreEpochAndInputs", "NSTable", "UpdateLastProcessedEspressoBlock", "FetchTransactions", "StoreEspressoInput", "UpdateEspressoNonce"}
    MaxFailures = 2
    MaxHeight = 3
    MaxNonce = 1
    Foreign = Foreign
    TxLists <- MCFewTxLists
    StartingBlock = 1
    CatchUpThreshold = 1
    BatchLimit = 2
    Word = 1000
    MaxStale = 1
    MaxCrashes = 1
SPECIFICATION Spec
INVARIANTS TypeOK NoncesConsecutive NonceOrderIsIndexOrder IndexesAreBehindCounter
