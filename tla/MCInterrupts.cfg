SPECIFICATION FairSpec
CONSTANTS
    CharKeys = {2, 30}
    OtherKeys = {58, 72}
    MaxCodes = 4
    ControllerSize = 3
    LOAD_BALANCE_PERIOD = 2
    TickSpan = 2
INVARIANTS TimerNeverPreempts EachEoiItsOwn 
PROPERTY KeysAreRead
