-------------------------- MODULE FavoriteTabsProofs --------------------------
(***************************************************************************)
(* The favourites screen, for every set of episodes, any number of presses *)
(* under way, all widths of the titles and of the screen: titles, line and *)
(* page, table and message, and the list against the file.                 *)
(***************************************************************************)
EXTENDS FavoriteTabs, TLAPS

\* What a list that the user can see was read with: a press that is still under way
\* was so then.  The user cannot press a heart from the list itself.
PressesAreLate ==
    selected /\ player = NoEpisode /\ shown = "favorite"
        => \A t \in Tasks : task[t] # NoEpisode => task[t] \in late

\* The list has appeared before the screen can be tapped, so that the way to the
\* see-later page starts from a list that was loaded.
TabsInv ==
    /\ TypeOK
    /\ TitleAgrees
    /\ PageMatchesList
    /\ ListOnScreenIsCurrent
    /\ PressesAreLate
    /\ selected => shown # "initialisation"

\* viewDidLoad shows the placeholder page; the line starts below the first title.
LEMMA TabsInit == Init => TabsInv
<1> SUFFICES ASSUME Init PROVE TabsInv
  OBVIOUS
<1>1. TypeOK
  <2>1. /\ saved \in SUBSET Episodes /\ podcastSaved \in SUBSET Episodes
        /\ rows \in SUBSET Episodes /\ subviews \in SUBSET {"table", "message"}
        /\ late \in SUBSET Episodes
    <3>1. {} \in SUBSET Episodes /\ {} \in SUBSET {"table", "message"}
      BY Zenon
    <3> QED
      BY <3>1, Zenon DEF Init
  <2>2. /\ selected \in BOOLEAN /\ player \in Episodes \cup {NoEpisode}
        /\ currentIndex \in {0, 1} /\ bold \in {0, 1} /\ shown \in Status
        /\ task \in [Tasks -> Episodes \cup {NoEpisode}]
    BY Zenon DEF Init, Status
  <2>3. line \in Int /\ rounds \in 0..MaxRounds
    BY TabsAssumption, SMT DEF Init
  <2> QED
    BY <2>1, <2>2, <2>3 DEF TypeOK
<1>2. TitleAgrees
  BY TabsAssumption
     DEF Init, TitleAgrees, LineCentre, TitleCentre, FavoriteGain, SeeLaterGain
<1>3. PageMatchesList /\ ListOnScreenIsCurrent /\ PressesAreLate
  BY DEF Init, PageMatchesList, ListOnScreenIsCurrent, PressesAreLate
<1> QED
  BY <1>1, <1>2, <1>3 DEF Init, TabsInv

\* Reading the list again loads the table and leaves one of table and message; what
\* it reads is the file, unless the fetch throws, and who presses then is noted.
LEMMA Fetched ==
    ASSUME TabsInv, FetchFavoriteEpisode
    PROVE  /\ podcastSaved' \in SUBSET Episodes /\ rows' = podcastSaved'
           /\ subviews' = IF podcastSaved' = {} THEN {"message"} ELSE {"table"}
           /\ ~FetchFails => podcastSaved' = saved
           /\ late' \in SUBSET Episodes
           /\ \A t \in Tasks : task[t] # NoEpisode => task[t] \in late'
BY DEF TabsInv, TypeOK, FetchFavoriteEpisode, CheckIfEmptyTableView

\* The way on adds what bold gains the first title, the way back takes away what it
\* gains the second.
LEMMA Turned ==
    ASSUME TabsInv, AnimationTransitionTitle
    PROVE  /\ currentIndex' \in {0, 1} /\ bold' = currentIndex'
           /\ line' \in Int /\ rounds' \in 0..MaxRounds
           /\ (LineCentre - TitleCentre)'
                = currentIndex' * FavoriteGain + rounds' * (FavoriteGain - SeeLaterGain)
<1> DEFINE drift == FavoriteGain - SeeLaterGain
<1>1. /\ FavoriteBold \in Nat /\ FavoriteRegular \in Nat /\ SeeLaterBold \in Nat
      /\ SeeLaterRegular \in Nat /\ ScreenWidth \in Nat /\ Scale \in Nat /\ MaxRounds \in Nat
  BY TabsAssumption
<1>2. /\ currentIndex \in {0, 1} /\ bold = currentIndex /\ line \in Int
      /\ rounds \in 0..MaxRounds
  BY DEF TabsInv, TypeOK, TitleAgrees
<1>3. (line + FavoriteBold) - TitleCentre = currentIndex * FavoriteGain + rounds * drift
  BY Zenon DEF TabsInv, TitleAgrees, LineCentre
<1>4. drift \in Int /\ FavoriteGain \in Int /\ rounds \in Int
  BY <1>1, <1>2 DEF FavoriteGain, SeeLaterGain
<1>5. \A n, d \in Int : (n + 1) * d = n * d + d /\ n * d \in Int
  OBVIOUS
<1>6. rounds * drift \in Int /\ (rounds + 1) * drift = rounds * drift + drift
  BY <1>4, <1>5
<1>7. CASE currentIndex = 1
  <2>1. /\ currentIndex' = 0 /\ bold' = 0 /\ rounds' = rounds + 1 /\ rounds < MaxRounds
        /\ line' = line - (2 * ScreenWidth - FavoriteBold - SeeLaterRegular - 160 * Scale)
    BY <1>7 DEF AnimationTransitionTitle, Distance
  <2>2. (line + FavoriteBold) - (2 * ScreenWidth - 80 * Scale - SeeLaterBold)
          = FavoriteGain + rounds * drift
    BY <1>2, <1>3, <1>4, <1>7 DEF TitleCentre
  <2>3. (LineCentre - TitleCentre)' = (line' + FavoriteBold) - (80 * Scale + FavoriteBold)
    BY <2>1, Zenon DEF LineCentre, TitleCentre
  <2>4. line' - 80 * Scale = rounds * drift + drift
    <3> HIDE DEF drift
    <3>1. drift = FavoriteBold - FavoriteRegular - (SeeLaterBold - SeeLaterRegular)
      BY DEF drift, FavoriteGain, SeeLaterGain
    <3> QED
      BY <1>1, <1>2, <1>6, <2>1, <2>2, <3>1 DEF FavoriteGain
  <2>5. line' \in Int
    BY <1>1, <1>2, <2>1
  <2>6. (LineCentre - TitleCentre)' = line' - 80 * Scale
    BY <1>1, <2>3, <2>5
  <2>7. (LineCentre - TitleCentre)' = currentIndex' * FavoriteGain + rounds' * drift
    <3> HIDE DEF drift
    <3> QED
      BY <1>4, <1>6, <2>1, <2>4, <2>6
  <2> QED
    BY <1>1, <1>2, <2>1, <2>5, <2>7
<1>8. CASE currentIndex # 1
  <2>1. /\ currentIndex' = 1 /\ bold' = 1 /\ rounds' = rounds
        /\ line' = line + (2 * ScreenWidth - FavoriteRegular - SeeLaterBold - 160 * Scale)
    BY <1>2, <1>8 DEF AnimationTransitionTitle, Distance
  <2>2. (line + FavoriteBold) - (80 * Scale + FavoriteBold) = rounds * drift
    <3> HIDE DEF drift
    <3> QED
      BY <1>2, <1>3, <1>4, <1>6, <1>8 DEF TitleCentre
  <2>3. line' \in Int
    BY <1>1, <1>2, <2>1
  <2>4. (LineCentre - TitleCentre)'
          = (line' + FavoriteBold) - (2 * ScreenWidth - 80 * Scale - SeeLaterBold)
    <3>1. bold' # 0
      BY <2>1
    <3> QED
      BY <3>1, Zenon DEF LineCentre, TitleCentre
  <2>5. (line' + FavoriteBold) - (2 * ScreenWidth - 80 * Scale - SeeLaterBold)
          = FavoriteGain + rounds * drift
    <3> HIDE DEF drift
    <3> QED
      BY <1>1, <1>2, <1>6, <2>1, <2>2 DEF FavoriteGain
  <2>6. (LineCentre - TitleCentre)' = currentIndex' * FavoriteGain + rounds' * drift
    <3> HIDE DEF drift
    <3> QED
      BY <1>4, <1>6, <2>1, <2>4, <2>5
  <2> QED
    BY <1>2, <2>1, <2>3, <2>6
<1> QED
  BY <1>7, <1>8

\* What the steps that turn no title leave as it is.
LEMMA TitlesKept ==
    ASSUME TabsInv, UNCHANGED titleVars, shown' = "seeLater" => shown = "seeLater"
    PROVE  TitleAgrees'
<1>1. UNCHANGED <<currentIndex, line, rounds, bold>>
  BY DEF titleVars
<1>2. UNCHANGED <<LineCentre, TitleCentre>>
  BY <1>1 DEF LineCentre, TitleCentre
<1> QED
  BY <1>1, <1>2 DEF TabsInv, TitleAgrees, FavoriteGain, SeeLaterGain

\* Every step keeps the invariant.
LEMMA TabsStep == TabsInv /\ [Next]_vars => TabsInv'
<1> SUFFICES ASSUME TabsInv, [Next]_vars PROVE TabsInv'
  OBVIOUS
<1> USE DEF TypeOK, PageMatchesList, ListOnScreenIsCurrent, PressesAreLate
<1>1. CASE ViewWillAppear
  <2>1. /\ selected' = TRUE /\ shown' = "favorite"
        /\ UNCHANGED <<saved, player, task, currentIndex, line, rounds, bold>>
    BY <1>1 DEF ViewWillAppear, titleVars
  <2>2. TitleAgrees'
    BY <1>1, <2>1, TitlesKept DEF ViewWillAppear
  <2> QED
    BY <1>1, <2>1, <2>2, Fetched DEF TabsInv, Status, ViewWillAppear
<1>2. CASE ViewWillDisappear
  <2>1. TitleAgrees'
    BY <1>2, TitlesKept DEF ViewWillDisappear
  <2> QED
    BY <1>2, <2>1 DEF TabsInv, ViewWillDisappear, titleVars, listVars
<1>3. CASE TapTitle
  <2>1. /\ selected /\ player = NoEpisode /\ UNCHANGED <<saved, selected, player, task>>
        /\ shown # "initialisation"
    BY <1>3 DEF TapTitle, TabsInv
  <2>2. /\ currentIndex' \in {0, 1} /\ bold' = currentIndex'
        /\ line' \in Int /\ rounds' \in 0..MaxRounds
        /\ (LineCentre - TitleCentre)'
             = currentIndex' * FavoriteGain + rounds' * (FavoriteGain - SeeLaterGain)
    BY <1>3, Turned DEF TapTitle
  <2>3. /\ shown' \in {"favorite", "seeLater"}
        /\ shown' = "seeLater" => currentIndex' = 1
    BY <1>3, <2>2 DEF TapTitle, PageAt
  <2>4. TitleAgrees'
    BY <2>2, <2>3 DEF TitleAgrees, FavoriteGain, SeeLaterGain
  <2>5. CASE shown' = "favorite" /\ shown # "favorite"
    <3>1. FetchFavoriteEpisode
      BY <1>3, <2>5 DEF TapTitle
    <3> QED
      BY <2>1, <2>2, <2>3, <2>4, <3>1, Fetched DEF TabsInv, Status
  <2>6. CASE ~(shown' = "favorite" /\ shown # "favorite")
    <3>1. UNCHANGED <<podcastSaved, rows, subviews, late>>
      BY <1>3, <2>6 DEF TapTitle, listVars
    <3> QED
      BY <2>1, <2>2, <2>3, <2>4, <2>6, <3>1 DEF TabsInv, Status
  <2> QED
    BY <2>5, <2>6
<1>4. CASE Dismiss
  <2>1. /\ player' = NoEpisode
        /\ UNCHANGED <<saved, selected, task, currentIndex, line, rounds, bold, shown>>
    BY <1>4 DEF Dismiss, titleVars
  <2>2. TitleAgrees'
    BY <1>4, TitlesKept DEF Dismiss
  <2> QED
    BY <1>4, <2>1, <2>2, Fetched DEF TabsInv, Dismiss
<1>5. ASSUME NEW e \in Episodes, DidSelectRowAt(e) PROVE TabsInv'
  <2>1. TitleAgrees'
    BY <1>5, TitlesKept DEF DidSelectRowAt
  <2>2. player' # NoEpisode
    BY <1>5, TabsAssumption DEF DidSelectRowAt
  <2> QED
    BY <1>5, <2>1, <2>2 DEF TabsInv, DidSelectRowAt, titleVars, listVars
<1>6. ASSUME NEW t \in Tasks, NEW e \in Episodes, PressFavorite(t, e) PROVE TabsInv'
  <2>1. TitleAgrees'
    BY <1>6, TitlesKept DEF PressFavorite
  <2>2. ~selected \/ player # NoEpisode
    BY <1>6, TabsAssumption DEF PressFavorite
  <2>3. task' \in [Tasks -> Episodes \cup {NoEpisode}]
    BY <1>6 DEF PressFavorite, TabsInv
  <2> QED
    BY <1>6, <2>1, <2>2, <2>3 DEF TabsInv, PressFavorite, titleVars, listVars
\* A press that reaches the file changes one episode, which is late in a list that
\* is on the screen.
<1>7. ASSUME NEW t \in Tasks, FavoriteButtonClick(t) PROVE TabsInv'
  <2>1. TitleAgrees'
    BY <1>7, TitlesKept DEF FavoriteButtonClick
  <2>2. /\ task[t] \in Episodes /\ task[t] # NoEpisode
        /\ saved' \in {saved, saved \cup {task[t]}, saved \ {task[t]}}
        /\ UNCHANGED <<selected, player, currentIndex, line, rounds, bold, shown,
                       podcastSaved, rows, subviews, late>>
    BY <1>7 DEF FavoriteButtonClick, TabsInv, titleVars, listVars
  <2>3. /\ saved' \in SUBSET Episodes
        /\ \A e \in Episodes : e # task[t] => (e \in saved' <=> e \in saved)
    BY <2>2 DEF TabsInv
  <2>4. /\ task' \in [Tasks -> Episodes \cup {NoEpisode}]
        /\ \A u \in Tasks : task'[u] # NoEpisode => task'[u] = task[u]
    BY <1>7 DEF FavoriteButtonClick, TabsInv
  <2>5. ListOnScreenIsCurrent'
    BY <2>2, <2>3 DEF TabsInv
  <2>6. PressesAreLate'
    BY <2>2, <2>4 DEF TabsInv
  <2> QED
    BY <2>1, <2>2, <2>3, <2>4, <2>5, <2>6 DEF TabsInv
<1>8. CASE UNCHANGED vars
  <2>1. TitleAgrees'
    BY <1>8, TitlesKept DEF vars
  <2> QED
    BY <1>8, <2>1 DEF TabsInv, vars, titleVars, listVars
<1> QED
  BY <1>1, <1>2, <1>3, <1>4, <1>5, <1>6, <1>7, <1>8 DEF Next

\* Titles, page, table, message and list keep together.
LEMMA TabsKept == Spec => []TabsInv
BY TabsInit, TabsStep, PTL DEF Spec

\* Every variable of the favourites screen keeps its type: the two titles are the
\* only places of currentIndex.
THEOREM TabsTypeCorrect == Spec => []TypeOK
<1>1. TabsInv => TypeOK
  BY DEF TabsInv
<1> QED
  BY <1>1, TabsKept, PTL

\* After any number of taps and tab changes the bold title is that of currentIndex,
\* and the line is off its centre by what the fonts make of it and nothing else,
\* whatever the titles' widths.
THEOREM Titles == Spec => []TitleAgrees
<1>1. TabsInv => TitleAgrees
  BY DEF TabsInv
<1> QED
  BY <1>1, TabsKept, PTL

\* The page holds the table or the message, whichever fits, and the table has
\* loaded the episodes it is asked for.
THEOREM PageFits == Spec => []PageMatchesList
<1>1. TabsInv => PageMatchesList
  BY DEF TabsInv
<1> QED
  BY <1>1, TabsKept, PTL

\* As long as no fetch throws, the list on the screen agrees with the file on every
\* episode but those that had a press under way when the list was last read, however
\* many presses end before, between and after the readings.
THEOREM ListFits == Spec => []ListOnScreenIsCurrent
<1>1. TabsInv => ListOnScreenIsCurrent
  BY DEF TabsInv
<1> QED
  BY <1>1, TabsKept, PTL
===============================================================================
