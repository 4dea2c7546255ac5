CONSTANTS
    k1 = k1
    k2 = k2
    Conns <- MCConns
    Drivers <- MCDrivers
    MaxOpenTries = 2
    r1 = r1
    col1 = col1
    ResourceNames <- MCResourceNames
    CollectionSlots <- MCCollectionSlots
    OnDeleteActions <- MCOnDeleteActions
SPECIFICATION Spec
INVARIANTS
    ConnectionsGoneBeforeClose
    SchemaKeepsColumns
PROPERTIES
    QuitCompletes
CHECK_DEADLOCK FALSE
