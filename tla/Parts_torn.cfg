SPECIFICATION MCSpec
CONSTANTS
    a = a
    b = b
    c = c
    vocals = vocals
    drums = drums
    Cards = {a, b}
    NoCard = NoCard
    PhoneScenes <- MCPhoneScenes
    Records = {a, b}
    NoRecord = NoRecord
    ArtistScenes <- MCArtistScenes
    NoticeJobs = {a}
    NoNoticeJob = NoNoticeJob
    MaxFailures = 2
    MaxReported = 3
    MaxOnCards = 2
    Stems = {vocals, drums}
    Vocals = vocals
    FormScenes <- MCFormScenes
    Songs = {a, b}
    HasVideo = {a}
    HasGrid = {b}
    ExportScenes <- MCExportScenes
    SettingsScenes <- MCSettingsScenes
    UpdateScenes <- MCUpdateScenes
    MaxDownloads = 3
    QueueJobs = {a, b, c}
    NoQueueJob = NoQueueJob
    QueueScenes <- MCQueueScenes
    RepairTracks = {a, b, c}
    LocalTracks = {c}
    MaxRestores = 4
    RepairScenes <- MCRepairScenes
    SetupScenes <- MCSetupScenes
    MaxSetups = 4
    Streams = {s1, s2}
    MaxSse = 1
    JobRuns <- MCJobRuns
    Texts <- MCTexts
    SepJobs = {a, b}
    NoSepJob = NoSepJob
    Devices = {"cpu", "cuda"}
    MaxProcesses = 4
    LyricJobs = {a}
    NoLyricJob = NoLyricJob
    MaxAsks = 1
    MaxRuns = 3
    MaxStops = 2
    MaxEdits = 1
INVARIANT FramesAreWhole
CHECK_DEADLOCK FALSE
