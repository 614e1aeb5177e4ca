SPECIFICATION Spec
CONSTANTS
    EpochLength = 2
    App = App
    Other = Other
    Apps <- MCApps
    MaxL1Block = 3
    InputBlocks <- MCInputBlocks
    InputBox = InputBox
    MaxRows = 1
    MaxEvents = 1
INVARIANTS TypeOK RowsAreConsistent EveryRowIsFoundOnce
PROPERTIES ApplicationsAreIsolated StatusIsTheOperators TablesAreTransactional
CHECK_DEADLOCK FALSE
