CONSTANTS
    Clicks = 2
    QueueBound = 2
    MaxRun = 2
SPECIFICATION FairSpec
INVARIANTS
    TypeOK
    NoBacklog
PROPERTIES
    ShownInTheEnd
