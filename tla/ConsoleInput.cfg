SPECIFICATION FairSpec
CONSTANTS
    N = 3
    KbdCap = 2
    MaxInput = 7
INVARIANTS
    TypeOK
    LossIsWholeLaps
PROPERTIES
    QueueSpec
    EveryCharDelivered
