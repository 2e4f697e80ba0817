SPECIFICATION CalmSpec
CONSTANTS
    Contexts = {p1}
    Tasks = {t1}
    Episodes = {e1, e2}
    RowIds = {r1, r2, r3}
    Names = {n1}
    n1 = n1
    Blank = Blank
    NoName = NoName
    NoPlayer = NoPlayer
    SaveFails = TRUE
    FetchFails = FALSE
    PodcastOf <- OnePodcastOf
INVARIANTS
    HeartMatchesContext
    NoDuplicateFavorite
    ListIsCurrent
PROPERTIES
    HeartGetsRight
    ActsLikeFavoriteSet
