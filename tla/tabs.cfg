SPECIFICATION Spec
CONSTANTS
    Episodes = {e1, e2, e3}
    NoEpisode = NoEpisode
    Tasks = {t1, t2}
    FetchFails = FALSE
    Scale = 2
    ScreenWidth = 786
    FavoriteBold = 158
    FavoriteRegular = 152
    SeeLaterBold = 211
    SeeLaterRegular = 206
    MaxRounds = 2
INVARIANTS
    TypeOK
    TitleAgrees
    PageMatchesList
    ListOnScreenIsCurrent
