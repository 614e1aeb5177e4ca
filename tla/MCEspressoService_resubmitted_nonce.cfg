CONSTANTS
    Configurations = {c1, c2}
    ValidationAttempts = 2
    FailingCalls = {"ValidateSchema", "GetNodeConfig", "InsertNodeConfig", "SetupEvmReader", "GetEspressoNonce", "SubmitTransaction", "StoreEspressoInput"}
    MaxFailures = 0
    MaxRestarts = 0
    Alice = Alice
    Bob = Bob
    First = c1
    Senders <- MCSenders
    MaxNonce <- MCMaxNonce
    Retrying <- MCRetrying
SPECIFICATION Spec
INVARIANT RetriesAreNotCounted
CHECK_DEADLOCK FALSE
