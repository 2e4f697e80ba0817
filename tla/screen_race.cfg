SPECIFICATION Spec
CONSTANTS
    a = a
    b = b
    c = c
    Podcasts = {a, b, c}
    Count <- Counts
    podcastLimit = 1
    Requests = {1, 2}
    NoPodcast = NoPodcast
    Offline = TRUE
    Fails = TRUE
    NumberOfPages = 3
    MaxIndex = 4
CHECK_DEADLOCK FALSE
INVARIANTS
    TypeOK
    EveryEpisodePlacedOnce
    LoadMoreInRange
PROPERTY TrapFreeOnceShown
