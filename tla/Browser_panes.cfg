SPECIFICATION PanesSpec
CONSTANTS
    s1 = s1
    s2 = s2
    Tracks <- MCTracks
    Worlds <- MCWorlds
    MaxKeys = 3
    MaxChanges = 1
INVARIANTS PaneConverges AnswersSettle
PROPERTIES CursorStaysOnItem DeletesTheChosen
CHECK_DEADLOCK FALSE
