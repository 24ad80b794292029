SPECIFICATION Spec
CONSTANTS
    Songs = {a, b, c}
    Disabled = {c}
    NoSong = nosong
    Default = default
    Nothing = nothing
    MaxModals = 2
    MaxInFlight = 3
INVARIANTS
    HiddenIsBlank
    ScreenCatchesUp
PROPERTIES
    PlainArtIsOfTheSong
