CONSTANTS
    Configurations = {c1, c2}
    ValidationAttempts = 2
    FailingCalls = {"ValidateSchema", "GetNodeConfig", "InsertNodeConfig", "SetupEvmReader", "GetEspressoNonce", "SubmitTransaction", "StoreEspressoInput"}
    MaxFailures = 1
    MaxRestarts = 1
    Alice = Alice
    Bob = Bob
    First = c1
    Senders <- MCSenders
    MaxNonce <- MCMaxNonce
    Retrying <- MCRetrying
SPECIFICATION FairSpec
INVARIANTS TypeOK AnswersAreNotAhead RunsOnPersistentConfiguration
PROPERTIES FirstConfigurationIsKept EverySenderGetsThrough
ACTION_CONSTRAINT FirstStart
CHECK_DEADLOCK FALSE
