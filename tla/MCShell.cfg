SPECIFICATION Spec
CONSTANTS
    VGA_WIDTH = 3
    VGA_HEIGHT = 3
    NL = "\n"
    CR = "\r"
    Key <- MCKey
    PROMPT <- MCPrompt
    MaxInput = 4
    Entries <- MCEntries
    Directories = {2}
    CD <- MCCd
    MaxMatches = 2
    Output <- MCOutput
    MaxOutcomes = 2

    
PROPERTY
    ScreenComesBack
CHECK_DEADLOCK FALSE
