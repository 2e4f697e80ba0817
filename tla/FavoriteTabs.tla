---------------------------- MODULE FavoriteTabs ----------------------------
(***************************************************************************)
(* FavoriteViewController: two titles above a page controller that shows   *)
(* the list of favourites or the see-later page, and PageListFavorite, the *)
(* list itself.                                                            *)
(*                                                                         *)
(* The screen runs on the main thread.  A player that is presented over    *)
(* the list (style .custom) leaves it on the screen, so UIKit sends no     *)
(* viewWillAppear when the player goes; the list is read again in the      *)
(* dismissal's animation controller.  A press of the heart is a Task that  *)
(* reaches the file later, on the thread pool, and may outlive its player; *)
(* what goes on inside it is the subject of Favorites.                     *)
(***************************************************************************)
EXTENDS Integers

CONSTANTS
    Episodes,     \* the titled episodes that may be saved; the untitled rows of the
                  \* tab bar's player are left to Favorites
    NoEpisode,
    Tasks,        \* bound: the presses of the heart under way at one time
    FetchFails,   \* may context.fetch() throw?
    Scale,            \* pixels to the point
    ScreenWidth,      \* UIScreen.main.bounds.width, in pixels
    FavoriteBold,     \* the titles' intrinsic widths in either font, in pixels
    FavoriteRegular,
    SeeLaterBold,
    SeeLaterRegular,
    MaxRounds     \* bound: the ways back from the see-later title

ASSUME TabsAssumption ==
    /\ FetchFails \in BOOLEAN
    /\ NoEpisode \notin Episodes
    /\ {Scale, ScreenWidth, FavoriteBold, FavoriteRegular, SeeLaterBold,
        SeeLaterRegular, MaxRounds} \subseteq Nat

VARIABLES
    saved,          \* the episodes in the file
    selected,       \* is the favourites tab on the screen?
    player,         \* the episode of the player over the list, or NoEpisode
    task,           \* task[t]: the episode whose heart was pressed, or NoEpisode
    late,           \* history: the episodes with a press under way when the list
                    \* was last read
    currentIndex,
    line,           \* leftContainer.constant, in half pixels
    rounds,         \* history: how often the line has come back
    bold,           \* the title in bold: 0 favourites, 1 see later
    shown,          \* the status of the page the page controller shows
    podcastSaved,   \* PageListFavorite.podcastSaved of the list
    rows,           \* what the table view last loaded of it
    subviews        \* which of table and message are in the page's view

titleVars == <<currentIndex, line, rounds, bold>>
listVars == <<podcastSaved, rows, subviews, late>>
vars == <<saved, selected, player, task, titleVars, shown, listVars>>

Status == {"initialisation", "favorite", "seeLater"}

\* arrayPageListFavorite
PageAt(index) == IF index = 0 THEN "favorite" ELSE "seeLater"

TypeOK ==
    /\ saved \in SUBSET Episodes
    /\ selected \in BOOLEAN
    /\ player \in Episodes \cup {NoEpisode}
    /\ task \in [Tasks -> Episodes \cup {NoEpisode}]
    /\ late \in SUBSET Episodes
    /\ currentIndex \in {0, 1}
    /\ line \in Int
    /\ rounds \in 0..MaxRounds
    /\ bold \in {0, 1}
    /\ shown \in Status
    /\ podcastSaved \in SUBSET Episodes
    /\ rows \in SUBSET Episodes
    /\ subviews \in SUBSET {"table", "message"}

\* viewDidLoad: the placeholder page is shown, the list is not loaded.
Init ==
    /\ saved \in SUBSET Episodes
    /\ selected = FALSE
    /\ player = NoEpisode
    /\ task = [t \in Tasks |-> NoEpisode]
    /\ late = {}
    /\ currentIndex = 0
    /\ line = 80 * Scale
    /\ rounds = 0
    /\ bold = 0
    /\ shown = "initialisation"
    /\ podcastSaved = {}
    /\ rows = {}
    /\ subviews = {}

------------------------------------------------------------------------------
\* Mutant of CheckIfEmptyTableView: the message is laid over the table.
CheckIfEmptyTableViewOver(list) ==
    subviews' = IF list = {} THEN subviews \cup {"message"} ELSE {"table"}

\* checkIfEmptyTableView, with emptyViewMessage and initTableView, which each
\* take the other view away.
CheckIfEmptyTableView(list) ==
    subviews' = IF list = {} THEN {"message"} ELSE {"table"}

\* PageListFavorite.fetchFavoriteEpisode; a fetch that throws gives no episode.
FetchFavoriteEpisode ==
    \E list \in {saved} \cup (IF FetchFails THEN {{}} ELSE {}) :
        /\ podcastSaved' = list
        /\ rows' = list
        /\ late' = {task[t] : t \in Tasks} \ {NoEpisode}
        /\ CheckIfEmptyTableView(list)

\* viewWillAppear of FavoriteViewController puts the list on the screen and
\* leaves currentIndex alone; viewWillAppear of the list follows.
ViewWillAppear ==
    /\ ~selected
    /\ selected' = TRUE
    /\ shown' = "favorite"
    /\ FetchFavoriteEpisode
    /\ UNCHANGED <<saved, player, task, titleVars>>

\* Another tab is selected.
ViewWillDisappear ==
    /\ selected /\ player = NoEpisode
    /\ selected' = FALSE
    /\ UNCHANGED <<saved, player, task, titleVars, shown, listVars>>

\* Screen width minus half of both titles minus 80, in half pixels.
Distance(favoriteTitle, seeLaterTitle) ==
    2 * ScreenWidth - favoriteTitle - seeLaterTitle - 160 * Scale

\* Mutant of AnimationTransitionTitle: see later is selected once more.
AnimationTransitionTitleOnward ==
    /\ currentIndex' = currentIndex + 1
    /\ line' = line + Distance(FavoriteRegular, SeeLaterBold)
    /\ bold' = 1
    /\ UNCHANGED rounds

\* Mutant of AnimationTransitionTitle: the way back measures the titles before it
\* changes their fonts.
AnimationTransitionTitleMeasuredFirst ==
    \/ /\ currentIndex = 1 /\ currentIndex' = currentIndex - 1 /\ bold' = 0
       /\ line' = line - Distance(FavoriteRegular, SeeLaterBold)
       /\ rounds < MaxRounds /\ rounds' = rounds + 1
    \/ /\ currentIndex # 1 /\ currentIndex' = currentIndex + 1 /\ bold' = 1
       /\ line' = line + Distance(FavoriteRegular, SeeLaterBold)
       /\ UNCHANGED rounds

\* animationTransitionTitle turns to the other title, whichever was tapped.  The
\* fonts are set first, the line is moved by the widths the titles have then.
AnimationTransitionTitle ==
    \/ /\ currentIndex = 1
       /\ bold' = 0
       /\ line' = line - Distance(FavoriteBold, SeeLaterRegular)
       /\ currentIndex' = currentIndex - 1
       /\ rounds < MaxRounds /\ rounds' = rounds + 1
    \/ /\ currentIndex # 1
       /\ bold' = 1
       /\ line' = line + Distance(FavoriteRegular, SeeLaterBold)
       /\ currentIndex' = currentIndex + 1
       /\ UNCHANGED rounds

\* nextPageController and previousPageController, the taps on the two titles,
\* differ in the direction of the animation only.  UIKit sends viewWillAppear to
\* a page that was not on the screen; that of the see-later page starts an
\* animation and touches no state.
TapTitle ==
    /\ selected /\ player = NoEpisode
    /\ AnimationTransitionTitle
    /\ shown' = PageAt(currentIndex')
    /\ IF shown' = "favorite" /\ shown # "favorite" THEN FetchFavoriteEpisode
                                                    ELSE UNCHANGED listVars
    /\ UNCHANGED <<saved, selected, player, task>>

\* didSelectRowAt of the list: a player is presented over it.
DidSelectRowAt(e) ==
    /\ selected /\ player = NoEpisode
    /\ shown = "favorite"
    /\ "table" \in subviews
    /\ e \in rows
    /\ player' = e
    /\ UNCHANGED <<saved, selected, task, titleVars, shown, listVars>>

\* Mutant of Dismiss: the animation controller only animates.
DismissOnly ==
    /\ player # NoEpisode
    /\ player' = NoEpisode
    /\ UNCHANGED <<saved, selected, task, titleVars, shown, listVars>>

\* animationController(forDismissed:).
Dismiss ==
    /\ player # NoEpisode
    /\ player' = NoEpisode
    /\ FetchFavoriteEpisode
    /\ UNCHANGED <<saved, selected, task, titleVars, shown>>

\* actionPressFavoriteButton of the player over the list, or of one on another
\* tab: the Task begins.
PressFavorite(t, e) ==
    /\ player = e \/ ~selected
    /\ task[t] = NoEpisode
    /\ task' = [task EXCEPT ![t] = e]
    /\ UNCHANGED <<saved, selected, player, titleVars, shown, listVars>>

\* favoriteButtonClick reaches the file.  isFavorite decides whether the episode is
\* added or removed, and it may be right or wrong (Favorites); a save that is
\* refused and a removal whose fetch throws leave the file as it is.
FavoriteButtonClick(t) ==
    /\ task[t] # NoEpisode
    /\ saved' \in {saved, saved \cup {task[t]}, saved \ {task[t]}}
    /\ task' = [task EXCEPT ![t] = NoEpisode]
    /\ UNCHANGED <<selected, player, titleVars, shown, listVars>>

Next ==
    \/ ViewWillAppear
    \/ ViewWillDisappear
    \/ TapTitle
    \/ Dismiss
    \/ \E e \in Episodes : DidSelectRowAt(e) \/ \E t \in Tasks : PressFavorite(t, e)
    \/ \E t \in Tasks : FavoriteButtonClick(t)

Spec == Init /\ [][Next]_vars

------------------------------------------------------------------------------
\* Properties

\* Where setupTitlePageViewController's constraints on leftContainer and on the
\* titles put their centres, in half pixels: the line keeps the width that the
\* first title had in bold.  The constraint that centres the line under the first
\* title contradicts leftContainer once that has moved; which of the two UIKit then
\* drops is not the code's choice, and animationTransitionTitle means leftContainer.
LineCentre == line + FavoriteBold
TitleCentre == IF bold = 0 THEN 80 * Scale + FavoriteBold
                           ELSE 2 * ScreenWidth - 80 * Scale - SeeLaterBold

\* What bold type adds to a title's width.
FavoriteGain == FavoriteBold - FavoriteRegular
SeeLaterGain == SeeLaterBold - SeeLaterRegular

\* The bold title is the one of currentIndex, and the see-later page is shown under
\* no other.  The line follows it, but not exactly: under the see-later title it
\* stands off by half of what bold adds to the first title, and each round trip
\* moves it on by half the difference between the two titles' gains, as the two
\* ways measure different fonts (animationTransitionTitle).  The line is moved by +=
\* and -= and never set, so nothing else may ever be added to that, over any taps
\* and tab changes; titles that gain the same do not drift.
TitleAgrees ==
    /\ bold = currentIndex
    /\ shown = "seeLater" => currentIndex = 1
    /\ LineCentre - TitleCentre
         = currentIndex * FavoriteGain + rounds * (FavoriteGain - SeeLaterGain)

\* Once the list has appeared, its page holds the table exactly when there is an
\* episode to list and the message otherwise, never both, and the table has
\* loaded what podcastSaved holds (cellForRowAt indexes it without a check).
PageMatchesList ==
    shown # "initialisation" =>
        /\ rows = podcastSaved
        /\ subviews = IF podcastSaved = {} THEN {"message"} ELSE {"table"}

\* With the list on the screen and no player over it, list and file agree on every
\* episode, unless a fetch threw or a press of that episode was still under way when
\* the list was last read.  Such a press may save after the dismissal has read the
\* list, and nothing reads it again; but it leaves no other episode wrong, and one
\* that had saved by then is never missing, wherever the hearts were pressed and
\* whichever titles were tapped.
ListOnScreenIsCurrent ==
    selected /\ player = NoEpisode /\ shown = "favorite" /\ ~FetchFails
        => \A e \in Episodes \ late : e \in podcastSaved <=> e \in saved
==============================================================================
