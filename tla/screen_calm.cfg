SPECIFICATION CalmSpec
CONSTANTS
    a = a
    b = b
    c = c
    Podcasts = {a, b, c}
    Count <- Counts
    podcastLimit = 1
    Requests = {1}
    NoPodcast = NoPodcast
    Offline = FALSE
    Fails = FALSE
    NumberOfPages = 3
    MaxIndex = 4
INVARIANTS
    EverythingAgrees
    PageListsOwnPodcast
    NoTrap
