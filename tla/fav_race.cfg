SPECIFICATION Spec
CONSTANTS
    Contexts = {p1, p2}
    Tasks = {t1, t2}
    Episodes = {e1}
    RowIds = {r1, r2, r3}
    Names = {n1}
    n1 = n1
    Blank = Blank
    NoName = NoName
    NoPlayer = NoPlayer
    SaveFails = FALSE
    FetchFails = TRUE
    PodcastOf <- OnePodcastOf
SYMMETRY Symmetry
INVARIANTS
    TypeOK
    NothingLeftUnsaved
PROPERTY OnlyOwnFavoriteRemoved
