CONSTANTS
    EpochLength = 2
    MaxL1Block = 4
    InputBoxDeploymentBlock = 1
    FailingCalls = {"GetEpochLength", "RetrieveInputs", "RetrieveClaimAcceptanceEvents", "GetPreviousEpochsWithOpenClaims", "GetEpoch", "UpdateEpochs", "RetrieveOutputExecutionEvents", "GetOutput", "UpdateOutputExecutionTransaction"}
    MaxFailures = 1
    Outputs = {o}
    MaxCrashes = 1
SPECIFICATION FairSpec
INVARIANTS TypeOK ClaimsAreNotSkipped OutputsMatchCursor
PROPERTIES ClaimsKeepLifecycle CursorsOnlyAdvance EveryEventIsRecorded
