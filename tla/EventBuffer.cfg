SPECIFICATION FairSpec
CONSTANTS
    FlushSize = 2
    MaxRows = 10
INVARIANTS
    TypeOK
    EachRowOnce
    StoredInOrder
    BatchBound
PROPERTIES
    ImplementsSink
    DrainCompletes
    RowsSettle
