SPECIFICATION Spec
CONSTANTS
    Contexts = {p1}
    Tasks = {t1, t2}
    Episodes = {e1}
    RowIds = {r1, r2, r3, r4}
    Names = {n1}
    n1 = n1
    Blank = Blank
    NoName = NoName
    NoPlayer = NoPlayer
    SaveFails = FALSE
    FetchFails = FALSE
    PodcastOf <- OnePodcastOf
SYMMETRY Symmetry
INVARIANT NoDuplicateFavorite
