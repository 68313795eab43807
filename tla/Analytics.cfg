SPECIFICATION Spec
CONSTANTS
    Hits <- TwoHits
    Site = 1
    Values <- SomeValues
    Hour = 1
    Day = 2
    Span <- Spans
    Zones <- OneZone
    Panels <- OnePanel
    PanelLimit = 1
    Addresses <- OneAddress
    Stored <- ThreeStored
    Pointed <- LastPoint
    Start = 11
    MaxTime = 12
    MaxRows = 4
    MaxLoads = 2
CHECK_DEADLOCK FALSE
INVARIANTS
    TypeOK
    SeriesAddsUp
    DrillDownAgrees
