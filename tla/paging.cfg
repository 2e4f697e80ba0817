SPECIFICATION ServiceSpec
CONSTANTS
    a = a
    b = b
    Podcasts = {a, b}
    Count <- Counts
    podcastLimit = 2
    Requests = {1, 2}
    NoPodcast = NoPodcast
    Offline = FALSE
    Fails = TRUE
INVARIANTS
    NoGapNoRepeat
    EndedMeansComplete
    LoadingFlag
PROPERTIES
    EveryEpisodeArrives
    FeedsEpisodes
