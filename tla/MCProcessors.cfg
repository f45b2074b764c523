CONSTANTS
    Firmware <- MC_Firmware
    PAGE = 4
    BaseTop = 3
SPECIFICATION Spec
CHECK_DEADLOCK FALSE

    
    
PROPERTY
    BootEnds
