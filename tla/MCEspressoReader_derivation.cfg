CONSTANTS
    EpochLength = 2
    MaxL1Block = 3
    Alice = Alice
    Senders <- MCSenders
    InputBox = InputBox
    InputBoxDeploymentBlock = 2
    ShouldModifyIndex = TRUE
    MaxInputs = 2
    FailingCalls = {}
    MaxFailures = 0
    MaxHeight = 3
    MaxNonce = 1
    Foreign = Foreign
    TxLists <- MCTxLists
    StartingBlock = 1
    CatchUpThreshold = 2
    BatchLimit = 2
    Word = 1000
    MaxStale = 0
    MaxCrashes = 0
SPECIFICATION FairSpec
INVARIANTS L1InputsAreComplete InputsAreAsDerived RecordedBlocksAreProcessed L1InputsAreStoredOnce
PROPERTY EveryDerivedInputIsStored
