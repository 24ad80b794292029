SPECIFICATION FairSpec
CONSTANTS
    Songs = {a, b}
    NoSong = nosong
    Only = a
    MaxInFlight = 2
    MaxWithCava = 1
    MaxModals = 1
INVARIANTS
    LoopsFollowStatus
    BarsFollowPlayback
PROPERTIES
    ScriptFollowsSong
    StatusConverges
