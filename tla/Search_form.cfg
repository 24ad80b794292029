SPECIFICATION PaneSpec
CONSTANTS
    Configs <- MCConfigs
    Texts <- MCTexts
    Numbers <- MCNumbers
    Spins <- MCSpins
    MaxActs = 6
    MaxEvents = 1
INVARIANTS ResultsOfLastSearch ResultsOfForm MenuIsHighlighted
CHECK_DEADLOCK FALSE
