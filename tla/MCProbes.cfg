SPECIFICATION ProbeSpec
CONSTANTS
    MaxPreBannerBytes = 10
    MaxPreBannerLines = 2
    MaxIdentificationBytes = 7
    MaxPacketLength = 34996
    MaxNameListBytes = 8192
    MaxAlgorithmNames = 128
    Preferences <- MCPreferences
    PacketLengths = {4, 11, 12, 84, 34996, 35004}
    Paddings = {0, 3, 4, 10, 11, 13, 14, 34991}
    KexInits <- MCKexInits
    MaxRedirects = 2
    MaxBodyBytes = 3
    Origins <- MCOrigins
    Home <- MCHome
    Paths = {"/", "/login"}
    InitialPath = "/"
    ChunkSizes = {1, 2, 3}
    MaxCertificates = 2
    MaxCertificateDerBytes = 3
    MaxSubjectAltNames = 2
    Chains <- MCChains
INVARIANTS ProbesAreBounded EvidenceIsEarned HttpIsOneStory
PROPERTY ProbeEnds
CHECK_DEADLOCK FALSE
