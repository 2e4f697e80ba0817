------------------------------ MODULE Favorites ------------------------------
(***************************************************************************)
(* The heart button of the player and the list of the favourites screen,   *)
(* over the saved episodes of CoreDataStore.                               *)
(*                                                                         *)
(* PlayerViewController lives on the main actor.  Opening it and pressing  *)
(* the heart each start a Task; CoreDataManager's async methods are not    *)
(* isolated, so between the start of a task on the main actor and its      *)
(* continuation there the manager's calls run on the thread pool, beside   *)
(* the user and beside the other tasks.  A task is a program counter:      *)
(*                                                                         *)
(*   check:  "check" -fetch-> "checked" -main-> "idle"                     *)
(*   press:  "pressed" -main-> "add" | "remove" -pool-> "save"             *)
(*                     -pool-> "saved" -main-> "idle"                      *)
(***************************************************************************)
EXTENDS CoreDataStore

CONSTANTS
    Tasks,       \* bound: the Tasks that may be under way at one time
    NoPlayer,    \* no player is on the screen
    PodcastOf    \* the podcast name that the catalogue gives an episode

Players == Contexts

ASSUME FavoritesAssumption ==
    /\ NoPlayer \notin Players
    /\ PodcastOf \in [Episodes -> Names \cup {NoName}]

VARIABLES
    presented,        \* the player on the screen, or NoPlayer
    origin,           \* origin[p]: the screen that presented p
    episode,          \* episode[p]: titlePodcast.text and subtitlePodcast.text
    podcastTitle,     \* podcastTitle[p]
    isFavorite,       \* isFavorite[p], and with it the heart's image
    task,             \* task[t]: see above; `favorite' is the captured value
    favoritesShown,   \* is the favourites screen the selected tab?
    tabBarPlayerShow, \* is the tab bar's mini player unfolded?
    podcastSaved      \* the rows the favourites screen lists, in sections

playerVars == <<origin, episode, podcastTitle>>
screenVars == <<favoritesShown, tabBarPlayerShow>>
vars == <<storeVars, presented, playerVars, isFavorite, task, screenVars,
          podcastSaved>>

Origins == {"podcasts", "favorites", "tabbar"}
CheckPCs == {"check", "checked"}
PressPCs == {"pressed", "add", "remove", "save", "saved"}

Idle == [pc |-> "idle", player |-> NoPlayer, favorite |-> FALSE]
Task == {Idle} \cup
        [pc : CheckPCs \cup PressPCs, player : Players, favorite : BOOLEAN]

TypeOK ==
    /\ StoreTypeOK
    /\ presented \in Players \cup {NoPlayer}
    /\ origin \in [Players -> Origins]
    /\ episode \in [Players -> Keys]
    /\ podcastTitle \in [Players -> Names \cup {NoName}]
    /\ isFavorite \in [Players -> BOOLEAN]
    /\ task \in [Tasks -> Task]
    /\ favoritesShown \in BOOLEAN
    /\ tabBarPlayerShow \in BOOLEAN
    /\ podcastSaved \in [Names \cup {NoName} -> SUBSET Row]

Init ==
    /\ StoreInit({})
    /\ presented = NoPlayer
    /\ origin = [p \in Players |-> "podcasts"]
    /\ episode = [p \in Players |-> Blank]
    /\ podcastTitle = [p \in Players |-> NoName]
    /\ isFavorite = [p \in Players |-> FALSE]
    /\ task = [t \in Tasks |-> Idle]
    /\ favoritesShown = FALSE
    /\ tabBarPlayerShow = FALSE
    /\ podcastSaved = Sections({})

------------------------------------------------------------------------------
Busy(t) == task[t] # Idle
PlayerOf(t) == task[t].player
Outstanding(p) == {t \in Tasks : Busy(t) /\ PlayerOf(t) = p}
Quiet == \A t \in Tasks : ~Busy(t)
Listed == UNION {podcastSaved[n] : n \in Names \cup {NoName}}

\* Bound: every press under way may still need a row identity.
RoomForAnotherRow ==
    Cardinality(UsedIds) + Cardinality({t \in Tasks : Busy(t)}) < Cardinality(RowIds)

Goto(t, pc) == task' = [task EXCEPT ![t].pc = pc]
End(t) == task' = [task EXCEPT ![t] = Idle]

\* Task { ... } of a player.
StartTask(t, p, pc) ==
    /\ ~Busy(t)
    /\ task' = [task EXCEPT ![t] = [pc |-> pc, player |-> p, favorite |-> FALSE]]

------------------------------------------------------------------------------
\* What the user does.

\* A new PlayerViewController is presented: viewDidLoad, then viewWillAppear,
\* which starts the check.  A player whose tasks still run is kept alive by
\* them, so its identity is not free.
Present(p, t, from, k, name) ==
    /\ presented = NoPlayer
    /\ Outstanding(p) = {}
    /\ presented' = p
    /\ origin' = [origin EXCEPT ![p] = from]
    /\ episode' = [episode EXCEPT ![p] = k]
    /\ podcastTitle' = [podcastTitle EXCEPT ![p] = name]
    /\ isFavorite' = [isFavorite EXCEPT ![p] = FALSE]
    /\ FreshContext(p)
    /\ StartTask(t, p, "check")
    /\ UNCHANGED <<screenVars, podcastSaved>>

\* PageListPodcast, didSelectRowAt.
OpenFromPodcasts(p, t, e) ==
    /\ ~favoritesShown
    /\ Present(p, t, "podcasts", e, PodcastOf[e])

\* PageListFavorite, didSelectRowAt: podcastTitle keeps its default "".
OpenFromFavorites(p, t, r) ==
    /\ favoritesShown
    /\ r \in Listed
    /\ Present(p, t, "favorites", r.key, NoName)

\* FloatingTabBarViewController.openPlayer: no label is set.
OpenFromTabBar(p, t) ==
    /\ tabBarPlayerShow
    /\ Present(p, t, "tabbar", Blank, NoName)

\* Mutant of PressFavorite: a press that outlives its player.
PressFavoriteAnyTime(t) ==
    /\ RoomForAnotherRow
    /\ StartTask(t, presented, "pressed")
    /\ UNCHANGED <<storeVars, presented, playerVars, isFavorite, screenVars,
                   podcastSaved>>

\* actionPressFavoriteButton.
PressFavorite(t) ==
    /\ presented # NoPlayer
    /\ RoomForAnotherRow
    /\ StartTask(t, presented, "pressed")
    /\ UNCHANGED <<storeVars, presented, playerVars, isFavorite, screenVars,
                   podcastSaved>>

\* PageListFavorite.fetchFavoriteEpisode through the favourites screen's own
\* context, which never changes anything; a thrown error leaves the list empty.
RefreshList ==
    \E rows \in {store} \cup (IF FetchFails THEN {{}} ELSE {}) :
        podcastSaved' = Sections(rows)

\* Mutant of Dismiss: the dismissal does not read the list again.
DismissOnly ==
    /\ presented # NoPlayer
    /\ presented' = NoPlayer
    /\ UNCHANGED <<storeVars, playerVars, isFavorite, task, screenVars, podcastSaved>>

\* tapStackReturn, and animationController(forDismissed:) of the presenting
\* screen: the favourites list is read again as the dismissal starts.
Dismiss ==
    /\ presented # NoPlayer
    /\ presented' = NoPlayer
    /\ IF origin[presented] = "favorites" THEN RefreshList
                                          ELSE UNCHANGED podcastSaved
    /\ UNCHANGED <<storeVars, playerVars, isFavorite, task, screenVars>>

\* The favourites tab is selected: viewWillAppear.
ShowFavorites ==
    /\ presented = NoPlayer
    /\ ~favoritesShown
    /\ favoritesShown' = TRUE
    /\ RefreshList
    /\ UNCHANGED <<storeVars, presented, playerVars, isFavorite, task,
                   tabBarPlayerShow>>

\* Another tab is selected.
LeaveFavorites ==
    /\ presented = NoPlayer
    /\ favoritesShown
    /\ favoritesShown' = FALSE
    /\ UNCHANGED <<storeVars, presented, playerVars, isFavorite, task,
                   tabBarPlayerShow, podcastSaved>>

TopTabBarTap ==
    /\ presented = NoPlayer
    /\ tabBarPlayerShow' = ~tabBarPlayerShow
    /\ UNCHANGED <<storeVars, presented, playerVars, isFavorite, task,
                   favoritesShown, podcastSaved>>

\* The process is killed or crashes at any moment and is launched again: only
\* the file survives.
Terminate ==
    /\ LoseContexts
    /\ presented' = NoPlayer
    /\ origin' = [p \in Players |-> "podcasts"]
    /\ episode' = [p \in Players |-> Blank]
    /\ podcastTitle' = [p \in Players |-> NoName]
    /\ isFavorite' = [p \in Players |-> FALSE]
    /\ task' = [t \in Tasks |-> Idle]
    /\ favoritesShown' = FALSE
    /\ tabBarPlayerShow' = FALSE
    /\ podcastSaved' = Sections({})

------------------------------------------------------------------------------
\* What the tasks do.

TaskStep(t, from) ==
    /\ task[t].pc = from
    /\ UNCHANGED <<presented, playerVars, screenVars, podcastSaved>>

\* Mutant of CheckFetch: the check reads the labels before they are set.
CheckFetchTooEarly(t) ==
    /\ TaskStep(t, "check")
    /\ \E rows \in FetchResults(PlayerOf(t)) :
          task' = [task EXCEPT ![t].pc = "checked",
                               ![t].favorite = IsSaved(Blank, rows)]
    /\ UNCHANGED <<storeVars, isFavorite>>

\* checkIfEpisodeIsFavorite on the pool.
CheckFetch(t) ==
    /\ TaskStep(t, "check")
    /\ \E rows \in FetchResults(PlayerOf(t)) :
          task' = [task EXCEPT ![t].pc = "checked",
                               ![t].favorite = IsSaved(episode[PlayerOf(t)], rows)]
    /\ UNCHANGED <<storeVars, isFavorite>>

\* Mutant of CheckResume: the image is set, isFavorite is not.
CheckResumeForgets(t) ==
    /\ TaskStep(t, "checked")
    /\ End(t)
    /\ UNCHANGED <<storeVars, isFavorite>>

\* checkIfPodcastIsFavorite after its await.
CheckResume(t) ==
    /\ TaskStep(t, "checked")
    /\ isFavorite' = [isFavorite EXCEPT ![PlayerOf(t)] = task[t].favorite]
    /\ End(t)
    /\ UNCHANGED storeVars

\* favoriteButtonClick up to its await: isFavorite is read here.
ClickStart(t) ==
    /\ TaskStep(t, "pressed")
    /\ LET favorite == isFavorite[PlayerOf(t)]
       IN  task' = [task EXCEPT ![t].pc = IF favorite THEN "remove" ELSE "add",
                                ![t].favorite = favorite]
    /\ UNCHANGED <<storeVars, isFavorite>>

\* addEpisodeInFavorite on the pool, before saveContext.
AddEpisode(t) ==
    /\ TaskStep(t, "add")
    /\ InsertRow(PlayerOf(t), episode[PlayerOf(t)], podcastTitle[PlayerOf(t)])
    /\ Goto(t, "save")
    /\ UNCHANGED isFavorite

\* Mutant of RemoveEpisode: without the saveContext at its end.
RemoveEpisodeUnsaved(t) ==
    /\ TaskStep(t, "remove")
    /\ DeleteRows(PlayerOf(t), episode[PlayerOf(t)])
    /\ Goto(t, "saved")
    /\ UNCHANGED isFavorite

\* removeEpisodeFromFavorite on the pool, before saveContext.
RemoveEpisode(t) ==
    /\ TaskStep(t, "remove")
    /\ DeleteRows(PlayerOf(t), episode[PlayerOf(t)])
    /\ Goto(t, "save")
    /\ UNCHANGED isFavorite

\* saveContext, the last call of both.
SaveEpisode(t) ==
    /\ TaskStep(t, "save")
    /\ SaveContext(PlayerOf(t))
    /\ Goto(t, "saved")
    /\ UNCHANGED isFavorite

\* Mutant of ClickResume: without the negation.
ClickResumeUnturned(t) ==
    /\ TaskStep(t, "saved")
    /\ isFavorite' = [isFavorite EXCEPT ![PlayerOf(t)] = task[t].favorite]
    /\ End(t)
    /\ UNCHANGED storeVars

\* favoriteButtonClick after its await: isFavorite = !favorite.
ClickResume(t) ==
    /\ TaskStep(t, "saved")
    /\ isFavorite' = [isFavorite EXCEPT ![PlayerOf(t)] = ~task[t].favorite]
    /\ End(t)
    /\ UNCHANGED storeVars

------------------------------------------------------------------------------
UserStep ==
    \/ \E p \in Players, t \in Tasks :
          \/ \E e \in Episodes : OpenFromPodcasts(p, t, e)
          \/ \E r \in Listed : OpenFromFavorites(p, t, r)
          \/ OpenFromTabBar(p, t)
    \/ \E t \in Tasks : PressFavorite(t)
    \/ Dismiss
    \/ ShowFavorites
    \/ LeaveFavorites
    \/ TopTabBarTap

Run(t) ==
    \/ CheckFetch(t)
    \/ CheckResume(t)
    \/ ClickStart(t)
    \/ AddEpisode(t)
    \/ RemoveEpisode(t)
    \/ SaveEpisode(t)
    \/ ClickResume(t)

Next == UserStep \/ Terminate \/ \E t \in Tasks : Run(t)

\* The thread pool and the main queue run every task that is ready; nothing
\* obliges the user to act.
Fairness == \A t \in Tasks : WF_vars(Run(t))

Spec == Init /\ [][Next]_vars /\ Fairness

\* The same system with a user who waits: every task has ended before the next
\* gesture.  The process may still be killed at any moment.
CalmNext == (Quiet /\ UserStep) \/ Terminate \/ \E t \in Tasks : Run(t)
CalmSpec == Init /\ [][CalmNext]_vars /\ Fairness

------------------------------------------------------------------------------
\* Properties

\* Once nothing is under way, the heart on the screen tells whether the player's
\* own context finds the episode (checkIfEpisodeIsFavorite), a failed save
\* included: the next press then adds or removes, whichever is due.  Claimed for a
\* user who waits: overlapping tasks may leave the heart wrong.
HeartMatchesContext ==
    Quiet /\ presented # NoPlayer =>
        (isFavorite[presented] <=> IsSaved(episode[presented], Fetch(presented)))

\* The file never holds an episode twice: a press adds only what the check, or
\* the press before it, left out (addEpisodeInFavorite itself never looks).
NoDuplicateFavorite ==
    \A r, s \in store : r.key = s.key => r = s

\* With no player on the screen and nothing under way, the favourites screen
\* lists the titled episodes of the file, none missing and none left over, each
\* under the name it is saved with: the refreshes of viewWillAppear and of the
\* dismissal are enough for a user who waits.  What a press that is still under way
\* at the dismissal does to the list is in FavoriteTabs.
ListIsCurrent ==
    Quiet /\ favoritesShown /\ presented = NoPlayer =>
        \A n \in Names \cup {NoName} :
            {r \in podcastSaved[n] : r.key # Blank}
              = {r \in store : r.name = n /\ r.key # Blank}

\* A player that stays on the screen ends up showing the truth about its
\* episode: for a user who waits, neither a check nor a press leaves the heart wrong
\* for ever.  It is not claimed of a press that overtakes the check: there the
\* check's late answer may overwrite what the press has written, and nothing
\* corrects the heart while the player stays.
HeartGetsRight ==
    \A p \in Players :
        presented = p ~> (presented = p =>
                            (isFavorite[p] <=> IsSaved(episode[p], Fetch(p))))

\* Whatever is pressed, opened and dismissed meanwhile, a saved row leaves the
\* file only by the save of a player that shows that very episode, or because
\* its title is empty (the clause of removeEpisodeFromFavorite): one player's
\* tasks never take another episode's row with them.
RowsGoByTheirOwnPlayer ==
    \A r \in store \ store' :
        \E t \in Tasks :
            /\ task[t].pc = "save" /\ task'[t].pc = "saved"
            /\ r.key \in {episode[PlayerOf(t)], Blank}
OnlyOwnFavoriteRemoved == [][RowsGoByTheirOwnPlayer]_vars

\* As long as save() throws only for conflicts, a player whose tasks have ended
\* holds no unsaved change, unless it wants to delete a row that another player
\* has deleted already: overlapping presses of one context never strand a change.
NothingLeftUnsaved ==
    \A p \in Players :
        ~SaveFails /\ Outstanding(p) = {} /\ HasChanges(p) => Conflict(p)

\* For a user who waits, the rows, contexts and tasks amount to FavoriteSet: a
\* press changes nothing but the episode on the screen, a save writes all that
\* the player sees, and a new player starts from the file.
AsSet == INSTANCE FavoriteSet WITH
    saved <- {r.key : r \in store},
    shown <- IF presented = NoPlayer THEN {} ELSE {episode[presented]},
    seen <- IF presented = NoPlayer THEN {r.key : r \in store}
            ELSE {r.key : r \in Fetch(presented)}
ActsLikeFavoriteSet == AsSet!Spec
==============================================================================
