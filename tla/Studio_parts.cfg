SPECIFICATION MCSpec
CONSTANTS
    a = a
    b = b
    Chunk = 2
    Length = 6
    Lookahead = 3
    Idle = Idle
    LeadIn = 2
    Ahead = 1
    Plays <- MCPlays
    Lanes = {d, v, g}
    Drums = {d}
    MaxPitch = 1
    Nowhere = Nowhere
    MaxSwaps = 2
    Tracks = {a, b}
    MaxLoads = 2
    Nobody = Nobody
    Setups <- MCSetups
    GridTracks = {a, b}
    NoTrack = NoTrack
    Duration = 5
    Pulse <- MCPulse
    PointerTimes <- MCPointerTimes
    GridScenes <- MCGridScenes
    Songs = {a, b}
    SongLength = 6
    DefaultWidth = 1
    Analysed <- MCAnalysed
    SectionScenes <- MCSectionScenes
    Strips <- MCStrips
    Records <- MCRecords
    KeyEnd = 2
    DeskScenes <- MCDeskScenes
    Ballads = {a, b}
    Silence = Silence
    LyricScenes <- MCLyricScenes
    Verses = {a, b}
    TrackEnd = 4
    TimingScenes <- MCTimingScenes
INVARIANTS
    StudioTypesOK SoundFollowsTransport LanesAreRouted PlayersAreWhole HeardIsShown EditorsHold
    LyricsStayWithTheirTrack
PROPERTIES LoopStaysWarm OnlyStaleListsGoBack
CHECK_DEADLOCK FALSE
