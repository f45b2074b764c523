SPECIFICATION FairSpec
CONSTANTS
    MaxPid = 4
    MaxQueue = 2
    Name = {n1}
    MAX_MESSAGES = 1
    MaxWaiters = 1
INVARIANTS
    
    IndexInRange
    
    SleepersAreListed

    
CHECK_DEADLOCK FALSE
