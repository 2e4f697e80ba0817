SPECIFICATION Spec
CONSTANTS
    a = a
    b = b
    c = c
    Podcasts = {a, b}
    Count <- CountsOfTwo
    podcastLimit = 1
    Requests = {1, 2}
    NoPodcast = NoPodcast
    Offline = FALSE
    Fails = FALSE
    NumberOfPages = 2
    MaxIndex = 3
CHECK_DEADLOCK FALSE
INVARIANT PageListsOwnPodcast
