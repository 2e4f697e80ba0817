SPECIFICATION Spec
CONSTANTS
    c1 = c1
    c2 = c2
    Cells = {c1, c2}
    Kind <- Kinds
    Urls = {u1, u2}
    Downloads = {d1, d2, d3}
    NoUrl = NoUrl
    Placeholder = Placeholder
    DownloadFails = {c2}
    Switches = {w1, w2}
    marginContainerImage = 1
    xEndingPoint = 5
    reach = 2
    Cancels = {w2}
    ListFails = TRUE
SYMMETRY Symmetry
INVARIANTS
    TypeOK
    HomeCellOwnImage
    CellComplete
    SwitchShowsState
    SwitchAtRest
