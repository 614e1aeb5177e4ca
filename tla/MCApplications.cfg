CONSTANTS
    Apps = {A, B}
    Broken = {B}
    InputBoxDeploymentBlock = 2
    MaxL1Block = 3
    MaxInputs = 2
    MaxErrors = 1
    MaxCrashes = 1
    MaxOrders = 1
SPECIFICATION FairSpec
INVARIANT TypeOK
PROPERTIES EachApplicationHasItsLog NoApplicationIsHeldUp
