SPECIFICATION Spec
CONSTANTS
    s1 = s1
    s2 = s2
    s3 = s3
    s4 = s4
    Songs <- MCSongs
    Heights <- MCHeights
    Scrolloff = 1
    ScrollAmount = 2
    UsizeMax = 255
SYMMETRY MCSymmetry
INVARIANTS CursorStaysShown MarksKeepTheirSongs
PROPERTIES ScrolloffKept
