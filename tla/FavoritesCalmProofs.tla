------------------------- MODULE FavoritesCalmProofs -------------------------
(***************************************************************************)
(* The favourites under a user who waits for every task to end, when no    *)
(* fetch throws: the heart, the file and the list always agree.            *)
(***************************************************************************)
EXTENDS FavoritesProofs

Saved(p) == IsSaved(episode[p], Fetch(p))

\* One task at a time, and it belongs to the player on the screen.
OneTask ==
    /\ \A t, u \in Tasks : Busy(t) /\ Busy(u) => t = u
    /\ \A t \in Tasks : Busy(t) => PlayerOf(t) = presented /\ presented # NoPlayer

\* The context on the screen sees no episode twice, and neither does the file.
UniqueView ==
    /\ NoDuplicateFavorite
    /\ presented # NoPlayer =>
          \A r, s \in Fetch(presented) : r.key = s.key => r = s

\* What a task knows at each of its steps about its player's episode.
TaskKnows(t) ==
    LET p == PlayerOf(t)
    IN  /\ task[t].pc = "checked" => (task[t].favorite <=> Saved(p))
        /\ task[t].pc = "pressed" => (isFavorite[p] <=> Saved(p))
        /\ task[t].pc = "add" => ~task[t].favorite /\ ~Saved(p)
        /\ task[t].pc = "remove" => task[t].favorite /\ Saved(p)
        /\ task[t].pc \in {"save", "saved"} => (task[t].favorite <=> ~Saved(p))

TasksKnow == \A t \in Tasks : Busy(t) => TaskKnows(t)

CalmInv ==
    /\ ContextInv
    /\ OneTask
    /\ UniqueView
    /\ TasksKnow
    /\ HeartMatchesContext

\* Launch, with an empty file and nothing under way, satisfies the invariant.
LEMMA CalmInit == Init => CalmInv
<1> SUFFICES ASSUME Init PROVE CalmInv
  OBVIOUS
<1>1. \A t \in Tasks : ~Busy(t)
  BY DEF Init, Busy
<1>2. presented = NoPlayer /\ store = {}
  BY DEF Init, StoreInit
<1> QED
  BY <1>1, <1>2, ContextInit DEF CalmInv, OneTask, UniqueView, TasksKnow,
         NoDuplicateFavorite, HeartMatchesContext

\* A new player: its context is the file, its check is the only task.
LEMMA CalmPresent ==
    ASSUME CalmInv, Quiet, NEW p \in Players, NEW t \in Tasks, NEW from, NEW k,
           NEW n, Present(p, t, from, k, n)
    PROVE  OneTask' /\ UniqueView' /\ TasksKnow' /\ HeartMatchesContext'
<1>t. TypeOK /\ StoreTypeOK
  BY DEF CalmInv, ContextInv, TypeOK
<1>1. /\ store' = store /\ presented' = p
      /\ inserted' = [inserted EXCEPT ![p] = {}]
      /\ deleted' = [deleted EXCEPT ![p] = {}]
      /\ task' = [task EXCEPT ![t] = [pc |-> "check", player |-> p, favorite |-> FALSE]]
      /\ presented' # NoPlayer
  BY FavoritesAssumption DEF Present, FreshContext, StartTask
<1>2. \A u \in Tasks : u # t => task'[u] = Idle
  BY <1>1, <1>t DEF Quiet, Busy, TypeOK
<1>3. task'[t].pc = "check" /\ task'[t].player = p /\ task'[t] # Idle
  BY <1>1, <1>t DEF TypeOK, Idle
<1>4. OneTask'
  BY <1>1, <1>2, <1>3 DEF OneTask, Busy, PlayerOf
<1>5. Fetch(p)' = store
  BY <1>1, <1>t DEF Fetch, StoreTypeOK, Players
<1>6. UniqueView'
  BY <1>1, <1>5 DEF CalmInv, UniqueView, NoDuplicateFavorite, Fetch
<1>7. TasksKnow'
  BY <1>2, <1>3 DEF TasksKnow, TaskKnows, Busy
<1>8. HeartMatchesContext'
  BY <1>3 DEF HeartMatchesContext, Quiet, Busy
<1> QED
  BY <1>4, <1>6, <1>7, <1>8

\* A gesture that starts nothing and leaves the players alone.
LEMMA CalmFrame ==
    ASSUME CalmInv, Quiet, UNCHANGED <<storeVars, task>>,
           \/ presented' = NoPlayer
           \/ UNCHANGED <<presented, isFavorite, episode>>
    PROVE  OneTask' /\ UniqueView' /\ TasksKnow' /\ HeartMatchesContext'
<1>1. \A t \in Tasks : ~Busy(t)'
  BY DEF Quiet, Busy
<1>2. OneTask' /\ TasksKnow'
  BY <1>1 DEF OneTask, TasksKnow
<1>3. UniqueView'
  BY DEF CalmInv, UniqueView, NoDuplicateFavorite, Fetch, storeVars
<1>4. HeartMatchesContext'
  BY DEF CalmInv, HeartMatchesContext, Quiet, Busy, Fetch, IsSaved, storeVars
<1> QED
  BY <1>2, <1>3, <1>4

\* A press while nothing is under way becomes the only task.
LEMMA CalmPress ==
    ASSUME CalmInv, Quiet, NEW t \in Tasks, PressFavorite(t)
    PROVE  OneTask' /\ UniqueView' /\ TasksKnow' /\ HeartMatchesContext'
<1>t. TypeOK
  BY DEF CalmInv, ContextInv
<1>1. /\ UNCHANGED <<storeVars, presented, isFavorite, episode>>
      /\ presented # NoPlayer
      /\ task' = [task EXCEPT ![t] = [pc |-> "pressed", player |-> presented,
                                      favorite |-> FALSE]]
  BY DEF PressFavorite, StartTask, playerVars
<1>2. \A u \in Tasks : u # t => task'[u] = Idle
  BY <1>1, <1>t DEF Quiet, Busy, TypeOK
<1>3. task'[t].pc = "pressed" /\ task'[t].player = presented /\ task'[t] # Idle
  BY <1>1, <1>t DEF TypeOK, Idle
<1>4. OneTask'
  BY <1>1, <1>2, <1>3 DEF OneTask, Busy, PlayerOf
<1>5. UniqueView'
  BY <1>1 DEF CalmInv, UniqueView, NoDuplicateFavorite, Fetch, storeVars
<1>6. isFavorite[presented] <=> Saved(presented)
  BY <1>1 DEF CalmInv, HeartMatchesContext, Saved
<1>7. TasksKnow'
  <2>1. TaskKnows(t)'
    BY <1>1, <1>3, <1>6 DEF TaskKnows, PlayerOf, Saved, IsSaved, Fetch, storeVars
  <2> QED
    BY <1>2, <2>1 DEF TasksKnow, Busy
<1>8. HeartMatchesContext'
  BY <1>3 DEF HeartMatchesContext, Quiet, Busy
<1> QED
  BY <1>4, <1>5, <1>7, <1>8

\* Every gesture of a user who waits keeps the invariant.
LEMMA CalmUser == CalmInv /\ Quiet /\ UserStep => CalmInv'
<1> SUFFICES ASSUME CalmInv, Quiet, UserStep
             PROVE  OneTask' /\ UniqueView' /\ TasksKnow' /\ HeartMatchesContext'
  BY ContextUser DEF CalmInv
<1>1. ASSUME NEW p \in Players, NEW t \in Tasks,
             \/ \E e \in Episodes : OpenFromPodcasts(p, t, e)
             \/ \E r \in Listed : OpenFromFavorites(p, t, r)
             \/ OpenFromTabBar(p, t)
      PROVE  OneTask' /\ UniqueView' /\ TasksKnow' /\ HeartMatchesContext'
  BY <1>1, CalmPresent DEF OpenFromPodcasts, OpenFromFavorites, OpenFromTabBar
<1>2. ASSUME NEW t \in Tasks, PressFavorite(t)
      PROVE  OneTask' /\ UniqueView' /\ TasksKnow' /\ HeartMatchesContext'
  BY <1>2, CalmPress
<1>3. CASE Dismiss
  BY <1>3, CalmFrame DEF Dismiss
<1>4. CASE ShowFavorites \/ LeaveFavorites \/ TopTabBarTap
  BY <1>4, CalmFrame DEF ShowFavorites, LeaveFavorites, TopTabBarTap, playerVars
<1> QED
  BY <1>1, <1>2, <1>3, <1>4 DEF UserStep

\* The end of the process keeps it: the file has no episode twice.
LEMMA CalmTerminate == CalmInv /\ Terminate => CalmInv'
<1> SUFFICES ASSUME CalmInv, Terminate
             PROVE  OneTask' /\ UniqueView' /\ TasksKnow' /\ HeartMatchesContext'
  BY ContextTerminate DEF CalmInv
<1>1. (\A t \in Tasks : ~Busy(t)') /\ presented' = NoPlayer /\ store' = store
  BY DEF Terminate, LoseContexts, Busy
<1> QED
  BY <1>1 DEF CalmInv, OneTask, UniqueView, TasksKnow, NoDuplicateFavorite,
              HeartMatchesContext

------------------------------------------------------------------------------
\* The steps of the one task

\* Deleting from a context removes the episode from what it sees, and adds
\* nothing; saving changes nothing of what it sees.
LEMMA ViewAfterDelete ==
    ASSUME StoreTypeOK, NEW c \in Contexts, NEW k, DeleteRows(c, k),
           inserted[c] \cap store = {}, FetchFails = FALSE
    PROVE  Fetch(c)' = {r \in Fetch(c) : r.key \notin {k, Blank}}
<1>1. FetchResults(c) = {Fetch(c)}
  BY DEF FetchResults
<1> DEFINE doomed == {r \in Fetch(c) : r.key \in {k, Blank}}
<1>2. /\ store' = store
      /\ inserted'[c] = inserted[c] \ doomed
      /\ deleted'[c] = deleted[c] \cup (doomed \ inserted[c])
  BY <1>1 DEF DeleteRows, StoreTypeOK
<1>3. Fetch(c)' = (store' \ deleted'[c]) \cup inserted'[c]
  BY DEF Fetch
<1>4. Fetch(c)' = Fetch(c) \ doomed
  BY <1>2, <1>3 DEF Fetch
<1> QED
  BY <1>4

\* saveContext, done or refused, leaves what the context fetches as it is.
LEMMA ViewAfterSave ==
    ASSUME StoreTypeOK, NEW c \in Contexts, SaveContext(c)
    PROVE  Fetch(c)' = Fetch(c) /\ store' \in {store, Fetch(c)}
BY DEF SaveContext, Commit, Fetch, StoreTypeOK, storeVars

\* The one task that runs adds what the heart leaves out or removes what it shows.
LEMMA CalmRun ==
    ASSUME FetchFails = FALSE
    PROVE  \A t \in Tasks : CalmInv /\ Run(t) => CalmInv'
<1> SUFFICES ASSUME NEW t \in Tasks, CalmInv, Run(t)
             PROVE  OneTask' /\ UniqueView' /\ TasksKnow' /\ HeartMatchesContext'
  BY ContextRun DEF CalmInv
<1>t. TypeOK /\ StoreTypeOK
  BY DEF CalmInv, ContextInv, TypeOK
<1>b. /\ Busy(t)
      /\ task[t] \in [pc : CheckPCs \cup PressPCs, player : Players,
                      favorite : BOOLEAN]
  <2>1. Busy(t)
    BY PCBusy DEF Run, CheckFetch, CheckResume, ClickStart, AddEpisode,
                  RemoveEpisode, SaveEpisode, ClickResume, TaskStep, CheckPCs,
                  PressPCs
  <2> QED
    BY <2>1, <1>t, TaskTypeStep
<1>p. PICK p \in Players : p = PlayerOf(t)
  BY <1>b DEF PlayerOf
<1>o. /\ p = presented /\ presented # NoPlayer
      /\ \A u \in Tasks : u # t => task[u] = Idle
  BY <1>b, <1>p DEF CalmInv, OneTask, Busy
<1>s. UNCHANGED <<presented, episode>>
  BY DEF Run, CheckFetch, CheckResume, ClickStart, AddEpisode, RemoveEpisode,
         SaveEpisode, ClickResume, TaskStep, playerVars
<1>k. TaskKnows(t)
  BY <1>b DEF CalmInv, TasksKnow
<1>v. \A r, s \in Fetch(p) : r.key = s.key => r = s
  BY <1>o DEF CalmInv, UniqueView
<1>d. NoDuplicateFavorite
  BY DEF CalmInv, UniqueView
\* Only t moves, and its player stays.
<1>u. /\ \A u \in Tasks : u # t => task'[u] = Idle
      /\ task'[t] = Idle \/ task'[t].player = p
  BY <1>b, <1>o, <1>p, <1>t DEF Run, CheckFetch, CheckResume, ClickStart, AddEpisode,
       RemoveEpisode, SaveEpisode, ClickResume, Goto, End, TypeOK, PlayerOf
<1>1. OneTask'
  BY <1>u, <1>o, <1>s DEF OneTask, Busy, PlayerOf
\* While t is under way the heart may be wrong; a task that ends has set it.
<1>2. ASSUME task'[t].pc \in CheckPCs \cup PressPCs
      PROVE  HeartMatchesContext'
  <2>1. task'[t] # Idle
    BY <1>2 DEF Idle, CheckPCs, PressPCs
  <2> QED
    BY <2>1 DEF HeartMatchesContext, Quiet, Busy
<1>3. ASSUME task'[t] = Idle
      PROVE  TasksKnow'
  BY <1>3, <1>u DEF TasksKnow, Busy
<1>4. ASSUME task'[t].player = p, TaskKnows(t)'
      PROVE  TasksKnow'
  BY <1>4, <1>u DEF TasksKnow, Busy
<1>5. ASSUME UNCHANGED storeVars
      PROVE  UniqueView' /\ (Saved(p)' <=> Saved(p))
  BY <1>5, <1>v, <1>d, <1>o, <1>s
     DEF UniqueView, NoDuplicateFavorite, Fetch, storeVars, Saved, IsSaved
<1>6. CASE CheckFetch(t)
  <2>1. /\ UNCHANGED storeVars
        /\ task' = [task EXCEPT ![t].pc = "checked", ![t].favorite = Saved(p)]
    BY <1>6, <1>p DEF CheckFetch, FetchResults, Saved
  <2>2. task'[t].pc = "checked" /\ (task'[t].favorite <=> Saved(p)) /\ task'[t].player = p
    BY <2>1, <1>b, <1>p, <1>t DEF TypeOK, PlayerOf
  <2>3. TaskKnows(t)'
    BY <2>1, <2>2, <1>5 DEF TaskKnows, PlayerOf
  <2> QED
    BY <2>1, <2>2, <2>3, <1>1, <1>2, <1>4, <1>5 DEF CheckPCs
<1>7. CASE CheckResume(t) \/ ClickResume(t)
  <2>1. UNCHANGED storeVars /\ task'[t] = Idle
    BY <1>7, <1>t DEF CheckResume, ClickResume, End, TypeOK
  <2>2. isFavorite'[p] <=> Saved(p)
    <3>1. CASE CheckResume(t)
      BY <3>1, <1>k, <1>p, <1>t DEF CheckResume, TaskStep, TaskKnows, TypeOK
    <3>2. CASE ClickResume(t)
      BY <3>2, <1>k, <1>p, <1>t DEF ClickResume, TaskStep, TaskKnows, TypeOK
    <3> QED
      BY <1>7, <3>1, <3>2
  <2>3. HeartMatchesContext'
    BY <2>1, <2>2, <1>5, <1>o, <1>s DEF HeartMatchesContext, Saved
  <2> QED
    BY <2>1, <2>3, <1>1, <1>3, <1>5
<1>8. CASE ClickStart(t)
  <2>1. /\ UNCHANGED <<storeVars, isFavorite>> /\ task[t].pc = "pressed"
        /\ task' = [task EXCEPT ![t].pc = IF isFavorite[p] THEN "remove" ELSE "add",
                                ![t].favorite = isFavorite[p]]
    BY <1>8, <1>p DEF ClickStart, TaskStep
  <2>2. /\ task'[t].pc = IF isFavorite[p] THEN "remove" ELSE "add"
        /\ task'[t].favorite = isFavorite[p] /\ task'[t].player = p
    BY <2>1, <1>b, <1>p, <1>t DEF TypeOK, PlayerOf
  <2>3. isFavorite[p] <=> Saved(p)
    BY <2>1, <1>k, <1>p DEF TaskKnows
  <2>4. TaskKnows(t)'
    BY <2>1, <2>2, <2>3, <1>5 DEF TaskKnows, PlayerOf
  <2> QED
    BY <2>1, <2>2, <2>4, <1>1, <1>2, <1>4, <1>5 DEF PressPCs
<1>9. CASE AddEpisode(t)
  <2>1. PICK id \in RowIds :
           /\ inserted' = [inserted EXCEPT ![p] = @ \cup
                 {[id |-> id, key |-> episode[p], name |-> podcastTitle[p]]}]
           /\ UNCHANGED <<store, deleted>>
           /\ task[t].pc = "add" /\ task' = [task EXCEPT ![t].pc = "save"]
    BY <1>9, <1>p DEF AddEpisode, InsertRow, Goto, TaskStep
  <2> DEFINE new == [id |-> id, key |-> episode[p], name |-> podcastTitle[p]]
  <2>2. inserted'[p] = inserted[p] \cup {new} /\ new.key = episode[p]
    BY <2>1, <1>t DEF StoreTypeOK, Players
  <2> HIDE DEF new
  <2>3. Fetch(p)' = Fetch(p) \cup {new}
    BY <2>1, <2>2 DEF Fetch
  <2>4. task'[t].pc = "save" /\ task'[t].player = p /\ task'[t].favorite = task[t].favorite
    BY <2>1, <1>b, <1>p, <1>t DEF TypeOK, PlayerOf
  <2>5. ~task[t].favorite /\ ~Saved(p)
    BY <2>1, <1>k, <1>p DEF TaskKnows
  <2>6. Saved(p)'
    BY <2>2, <2>3, <1>s DEF Saved, IsSaved
  <2>7. TaskKnows(t)'
    BY <2>4, <2>5, <2>6 DEF TaskKnows, PlayerOf
  <2>8. \A r, s \in Fetch(p)' : r.key = s.key => r = s
    BY <2>2, <2>3, <2>5, <1>v DEF Saved, IsSaved
  <2>9. UniqueView'
    BY <2>1, <2>8, <1>o, <1>s, <1>d DEF UniqueView, NoDuplicateFavorite
  <2> QED
    BY <2>4, <2>7, <2>9, <1>1, <1>2, <1>4 DEF PressPCs
<1>10. CASE RemoveEpisode(t)
  <2>1. /\ DeleteRows(p, episode[p]) /\ store' = store
        /\ task[t].pc = "remove" /\ task' = [task EXCEPT ![t].pc = "save"]
    <3>1. DeleteRows(p, episode[p]) /\ task[t].pc = "remove"
          /\ task' = [task EXCEPT ![t].pc = "save"]
      BY <1>10, <1>p DEF RemoveEpisode, Goto, TaskStep
    <3> QED
      BY <3>1 DEF DeleteRows
  <2>2. Fetch(p)' = {r \in Fetch(p) : r.key \notin {episode[p], Blank}}
    BY <2>1, <1>t, ViewAfterDelete DEF Players, CalmInv, ContextInv, PendingApart
  <2>3. task'[t].pc = "save" /\ task'[t].player = p /\ task'[t].favorite = task[t].favorite
    BY <2>1, <1>b, <1>p, <1>t DEF TypeOK, PlayerOf
  <2>4. task[t].favorite
    BY <2>1, <1>k DEF TaskKnows
  <2>5. ~Saved(p)'
    BY <2>2, <1>s DEF Saved, IsSaved
  <2>6. TaskKnows(t)'
    BY <2>3, <2>4, <2>5 DEF TaskKnows, PlayerOf
  <2>7. UniqueView'
    BY <2>1, <2>2, <1>v, <1>o, <1>s, <1>d DEF UniqueView, NoDuplicateFavorite
  <2> QED
    BY <2>3, <2>6, <2>7, <1>1, <1>2, <1>4 DEF PressPCs
<1>11. CASE SaveEpisode(t)
  <2>1. /\ SaveContext(p)
        /\ task[t].pc = "save" /\ task' = [task EXCEPT ![t].pc = "saved"]
    BY <1>11, <1>p DEF SaveEpisode, Goto, TaskStep
  <2>2. Fetch(p)' = Fetch(p) /\ store' \in {store, Fetch(p)}
    BY <2>1, <1>t, ViewAfterSave DEF Players
  <2>3. task'[t].pc = "saved" /\ task'[t].player = p /\ task'[t].favorite = task[t].favorite
    BY <2>1, <1>b, <1>p, <1>t DEF TypeOK, PlayerOf
  <2>4. task[t].favorite <=> ~Saved(p)
    BY <2>1, <1>k, <1>p DEF TaskKnows
  <2>5. Saved(p)' <=> Saved(p)
    BY <2>2, <1>s DEF Saved, IsSaved
  <2>6. TaskKnows(t)'
    BY <2>3, <2>4, <2>5 DEF TaskKnows, PlayerOf
  <2>7. UniqueView'
    BY <2>2, <1>v, <1>o, <1>s, <1>d DEF UniqueView, NoDuplicateFavorite
  <2> QED
    BY <2>3, <2>6, <2>7, <1>1, <1>2, <1>4 DEF PressPCs
<1> QED
  BY <1>6, <1>7, <1>8, <1>9, <1>10, <1>11 DEF Run

\* Every step keeps the invariant.
LEMMA CalmStep ==
    ASSUME FetchFails = FALSE
    PROVE  CalmInv /\ [CalmNext]_vars => CalmInv'
<1>1. ASSUME CalmInv, UNCHANGED vars PROVE CalmInv'
  <2>1. ContextInv'
    BY <1>1, ContextNext DEF CalmInv
  <2>2. OneTask' /\ UniqueView' /\ TasksKnow' /\ HeartMatchesContext'
    BY <1>1 DEF CalmInv, OneTask, UniqueView, TasksKnow, TaskKnows, Saved,
                HeartMatchesContext, NoDuplicateFavorite, Busy, PlayerOf, Quiet,
                Fetch, IsSaved, vars, storeVars, playerVars
  <2> QED
    BY <2>1, <2>2 DEF CalmInv
<1> QED
  BY <1>1, CalmUser, CalmTerminate, CalmRun DEF CalmNext

\* A user who waits always sees a heart that tells what the player's context
\* finds, however saves fail and whenever the process dies.
THEOREM CalmHeart ==
    ASSUME FetchFails = FALSE
    PROVE  CalmSpec => []HeartMatchesContext
<1>1. CalmInv => HeartMatchesContext
  BY DEF CalmInv
<1> QED
  BY <1>1, CalmInit, CalmStep, PTL DEF CalmSpec

\* For a user who waits, the file never holds an episode twice.
THEOREM CalmFavorites ==
    ASSUME FetchFails = FALSE
    PROVE  CalmSpec => []NoDuplicateFavorite
<1>1. CalmInv => NoDuplicateFavorite
  BY DEF CalmInv, UniqueView
<1> QED
  BY <1>1, CalmInit, CalmStep, PTL DEF CalmSpec

------------------------------------------------------------------------------
\* The list of the favourites screen

TitledListed ==
    \A n \in Names \cup {NoName} :
        {r \in podcastSaved[n] : r.key # Blank}
          = {r \in store : r.name = n /\ r.key # Blank}

\* The list is right whenever it is on the screen, except under a player opened
\* from it, whose dismissal reads it again.  A player over the favourites screen
\* that does not refresh it is the tab bar's, which shows no title.
ListInv ==
    /\ favoritesShown /\ (presented = NoPlayer \/ origin[presented] # "favorites")
          => TitledListed
    /\ presented # NoPlayer =>
          /\ origin[presented] = "podcasts" => ~favoritesShown
          /\ origin[presented] = "tabbar" => episode[presented] = Blank

\* Reading the list again makes it right.
LEMMA RefreshedList ==
    ASSUME FetchFails = FALSE, RefreshList, store' = store
    PROVE  TitledListed'
<1>1. podcastSaved' = Sections(store)
  BY DEF RefreshList
<1> QED
  BY <1>1 DEF TitledListed, Sections

\* Presenting a player leaves the list as it was read last.
LEMMA ListPresent ==
    ASSUME TypeOK, ListInv, NEW p \in Players, NEW t \in Tasks, NEW from, NEW k,
           NEW n, Present(p, t, from, k, n),
           from = "podcasts" => ~favoritesShown, from = "tabbar" => k = Blank
    PROVE  ListInv'
<1>1. /\ presented = NoPlayer /\ presented' = p
      /\ origin'[p] = from /\ episode'[p] = k
      /\ UNCHANGED <<store, favoritesShown, podcastSaved>>
  BY DEF Present, FreshContext, screenVars, TypeOK
<1> QED
  BY <1>1 DEF ListInv, TitledListed

\* Every gesture leaves the list right or covered by a player that will refresh it.
LEMMA ListUser ==
    ASSUME FetchFails = FALSE
    PROVE  TypeOK /\ ListInv /\ UserStep => ListInv'
<1> SUFFICES ASSUME TypeOK, ListInv, UserStep PROVE ListInv'
  OBVIOUS
<1>1. ASSUME NEW p \in Players, NEW t \in Tasks,
             \/ \E e \in Episodes : OpenFromPodcasts(p, t, e)
             \/ \E r \in Listed : OpenFromFavorites(p, t, r)
             \/ OpenFromTabBar(p, t)
      PROVE  ListInv'
  BY <1>1, ListPresent DEF OpenFromPodcasts, OpenFromFavorites, OpenFromTabBar
<1>2. ASSUME NEW t \in Tasks, PressFavorite(t) PROVE ListInv'
  BY <1>2 DEF PressFavorite, ListInv, TitledListed, storeVars, playerVars, screenVars
<1>3. CASE Dismiss
  <2>1. /\ presented' = NoPlayer
        /\ UNCHANGED <<store, favoritesShown>>
    BY <1>3 DEF Dismiss, storeVars, screenVars
  <2>2. CASE origin[presented] = "favorites"
    BY <2>1, <2>2, <1>3, RefreshedList DEF Dismiss, ListInv
  <2>3. CASE origin[presented] # "favorites"
    BY <2>1, <2>3, <1>3 DEF Dismiss, ListInv, TitledListed
  <2> QED
    BY <2>2, <2>3
<1>4. CASE ShowFavorites
  <2>1. TitledListed'
    BY <1>4, RefreshedList DEF ShowFavorites, storeVars
  <2> QED
    BY <1>4, <2>1 DEF ShowFavorites, ListInv
<1>5. CASE LeaveFavorites
  BY <1>5 DEF LeaveFavorites, ListInv
<1>6. CASE TopTabBarTap
  BY <1>6 DEF TopTabBarTap, ListInv, TitledListed, storeVars
<1> QED
  BY <1>1, <1>2, <1>3, <1>4, <1>5, <1>6 DEF UserStep

\* A task changes the file only under a player, whose dismissal refreshes the list.
LEMMA ListRun == \A t \in Tasks : CalmInv /\ ListInv /\ Run(t) => ListInv'
<1> SUFFICES ASSUME NEW t \in Tasks, CalmInv, ListInv, Run(t) PROVE ListInv'
  OBVIOUS
<1>1. UNCHANGED <<presented, origin, episode, favoritesShown, podcastSaved>>
  BY DEF Run, CheckFetch, CheckResume, ClickStart, AddEpisode, RemoveEpisode,
         SaveEpisode, ClickResume, TaskStep, playerVars, screenVars
<1>2. CASE store' = store
  BY <1>1, <1>2 DEF ListInv, TitledListed
<1>3. CASE store' # store
  <2>1. SaveEpisode(t) /\ store' = Fetch(PlayerOf(t))
    BY <1>3 DEF Run, CheckFetch, CheckResume, ClickStart, AddEpisode, InsertRow,
                RemoveEpisode, DeleteRows, SaveEpisode, SaveContext, Commit,
                ClickResume, Fetch, storeVars
  <2>2. Busy(t)
    BY <2>1, PCBusy DEF SaveEpisode, TaskStep, PressPCs
  <2>3. PlayerOf(t) = presented /\ presented \in Players
    BY <2>2 DEF CalmInv, OneTask, ContextInv, TypeOK
  <2>4. CASE origin[presented] = "favorites"
    BY <2>3, <2>4, <1>1, FavoritesAssumption DEF ListInv
  <2>5. CASE origin[presented] = "podcasts"
    BY <2>3, <2>5, <1>1, FavoritesAssumption DEF ListInv
  <2>6. CASE origin[presented] = "tabbar"
    <3>1. episode[presented] = Blank
      BY <2>3, <2>6, FavoritesAssumption DEF ListInv
    <3>2. \A r \in deleted[presented] \cup inserted[presented] : r.key = Blank
      BY <3>1, <2>3 DEF CalmInv, ContextInv, OwnChanges
    <3>3. \A r : r.key # Blank => (r \in store' <=> r \in store)
      BY <3>2, <2>1, <2>3 DEF Fetch
    <3>4. favoritesShown => TitledListed'
      BY <3>3, <1>1, <2>3, <2>6 DEF ListInv, TitledListed
    <3> QED
      BY <3>4, <1>1 DEF ListInv
  <2> QED
    BY <2>3, <2>4, <2>5, <2>6 DEF CalmInv, ContextInv, TypeOK, Origins
<1> QED
  BY <1>2, <1>3

\* A user who waits finds in the favourites list exactly the titled episodes of
\* the file: the two places that read it again are enough.
THEOREM CalmList ==
    ASSUME FetchFails = FALSE
    PROVE  CalmSpec => []ListIsCurrent
<1>1. Init => ListInv
  BY DEF Init, ListInv
<1>2. CalmInv /\ ListInv /\ [CalmNext]_vars => ListInv'
  <2> SUFFICES ASSUME CalmInv, ListInv, [CalmNext]_vars PROVE ListInv'
    OBVIOUS
  <2>1. CASE UserStep
    BY <2>1, ListUser DEF CalmInv, ContextInv
  <2>2. CASE Terminate
    BY <2>2 DEF Terminate, ListInv
  <2>3. CASE \E t \in Tasks : Run(t)
    BY <2>3, ListRun
  <2>4. CASE UNCHANGED vars
    BY <2>4 DEF vars, storeVars, playerVars, screenVars, ListInv, TitledListed
  <2> QED
    BY <2>1, <2>2, <2>3, <2>4 DEF CalmNext
<1>3. ListInv => ListIsCurrent
  BY DEF ListInv, ListIsCurrent, TitledListed
<1> QED
  BY <1>1, <1>2, <1>3, CalmInit, CalmStep, PTL DEF CalmSpec

------------------------------------------------------------------------------
\* For a user who waits, the favourites are a set.

KeysOf(rows) == {r.key : r \in rows}

\* A step that touches neither rows nor player leaves the set alone.
LEMMA SetFrame ==
    UNCHANGED <<storeVars, presented, episode>> => UNCHANGED AsSet!setVars
BY DEF AsSet!setVars, Fetch, storeVars

\* A new player sees what the file holds.
LEMMA SetPresent ==
    ASSUME TypeOK, NEW p \in Players, NEW t \in Tasks, NEW from, NEW k \in Keys,
           NEW n, Present(p, t, from, k, n)
    PROVE  AsSet!Open(k)
<1>1. /\ presented = NoPlayer /\ presented' = p /\ presented' # NoPlayer
      /\ episode'[p] = k
      /\ store' = store /\ inserted'[p] = {} /\ deleted'[p] = {}
  BY FavoritesAssumption DEF Present, FreshContext, TypeOK, StoreTypeOK, Players
<1>2. Fetch(p)' = store
  BY <1>1 DEF Fetch
<1> QED
  BY <1>1, <1>2 DEF AsSet!Open

\* Every gesture opens a player, closes it or leaves the set alone.
LEMMA SetUser == CalmInv /\ UserStep => [AsSet!Next]_(AsSet!setVars)
<1> SUFFICES ASSUME CalmInv, UserStep PROVE [AsSet!Next]_(AsSet!setVars)
  OBVIOUS
<1>t. TypeOK
  BY DEF CalmInv, ContextInv
<1>1. ASSUME NEW p \in Players, NEW t \in Tasks,
             \/ \E e \in Episodes : OpenFromPodcasts(p, t, e)
             \/ \E r \in Listed : OpenFromFavorites(p, t, r)
             \/ OpenFromTabBar(p, t)
      PROVE  AsSet!Next
  <2>1. \A r \in Listed : r.key \in Keys
    BY <1>t DEF TypeOK, Listed, Row
  <2>2. \E k \in Keys : \E from, n : Present(p, t, from, k, n)
    BY <1>1, <2>1 DEF OpenFromPodcasts, OpenFromFavorites, OpenFromTabBar, Keys
  <2>3. \E k \in Keys : AsSet!Open(k)
    BY <1>t, <2>2, SetPresent
  <2> QED
    BY <2>3 DEF AsSet!Next
<1>2. ASSUME NEW t \in Tasks, PressFavorite(t)
      PROVE  UNCHANGED AsSet!setVars
  BY <1>2, SetFrame DEF PressFavorite, playerVars
<1>3. CASE Dismiss
  <2>1. presented' = NoPlayer /\ store' = store
    BY <1>3 DEF Dismiss, storeVars
  <2> QED
    BY <2>1 DEF AsSet!Next, AsSet!Close
<1>4. CASE ShowFavorites \/ LeaveFavorites \/ TopTabBarTap
  BY <1>4, SetFrame DEF ShowFavorites, LeaveFavorites, TopTabBarTap, playerVars
<1> QED
  BY <1>1, <1>2, <1>3, <1>4 DEF UserStep

\* The one task toggles the episode of the player on the screen, or saves.
LEMMA SetRun ==
    ASSUME FetchFails = FALSE
    PROVE  \A t \in Tasks : CalmInv /\ Run(t) => [AsSet!Next]_(AsSet!setVars)
<1> SUFFICES ASSUME NEW t \in Tasks, CalmInv, Run(t)
             PROVE  [AsSet!Next]_(AsSet!setVars)
  OBVIOUS
<1>t. TypeOK /\ StoreTypeOK
  BY DEF CalmInv, ContextInv, TypeOK
<1>b. /\ Busy(t)
      /\ task[t] \in [pc : CheckPCs \cup PressPCs, player : Players,
                      favorite : BOOLEAN]
  <2>1. Busy(t)
    BY PCBusy DEF Run, CheckFetch, CheckResume, ClickStart, AddEpisode,
                  RemoveEpisode, SaveEpisode, ClickResume, TaskStep, CheckPCs,
                  PressPCs
  <2> QED
    BY <2>1, <1>t, TaskTypeStep
<1>p. PICK p \in Players : p = PlayerOf(t)
  BY <1>b DEF PlayerOf
<1>o. p = presented /\ presented # NoPlayer
  BY <1>b, <1>p DEF CalmInv, OneTask
<1>s. UNCHANGED <<presented, episode>>
  BY DEF Run, CheckFetch, CheckResume, ClickStart, AddEpisode, RemoveEpisode,
         SaveEpisode, ClickResume, TaskStep, playerVars
<1>k. TaskKnows(t)
  BY <1>b DEF CalmInv, TasksKnow
<1>e. PICK e \in Keys : e = episode[p]
  BY <1>t DEF TypeOK
\* A task of the player on the screen that changes what its context sees.
<1>1. ASSUME store' = store,
             KeysOf(Fetch(p)') = IF episode[p] \in KeysOf(Fetch(p))
                                 THEN KeysOf(Fetch(p)) \ {episode[p], Blank}
                                 ELSE KeysOf(Fetch(p)) \cup {episode[p]}
      PROVE  AsSet!Next
  <2>1. AsSet!Toggle(e)
    BY <1>1, <1>e, <1>o, <1>s DEF AsSet!Toggle, KeysOf
  <2> QED
    BY <2>1 DEF AsSet!Next
<1>2. CASE CheckFetch(t) \/ CheckResume(t) \/ ClickStart(t) \/ ClickResume(t)
  BY <1>2, <1>s, SetFrame DEF CheckFetch, CheckResume, ClickStart, ClickResume
<1>3. CASE AddEpisode(t)
  <2>1. PICK id \in RowIds :
           /\ inserted' = [inserted EXCEPT ![p] = @ \cup
                 {[id |-> id, key |-> episode[p], name |-> podcastTitle[p]]}]
           /\ UNCHANGED <<store, deleted>>
           /\ task[t].pc = "add"
    BY <1>3, <1>p DEF AddEpisode, InsertRow, TaskStep
  <2> DEFINE new == [id |-> id, key |-> episode[p], name |-> podcastTitle[p]]
  <2>2. inserted'[p] = inserted[p] \cup {new} /\ new.key = episode[p]
    BY <2>1, <1>t DEF StoreTypeOK, Players
  <2> HIDE DEF new
  <2>3. Fetch(p)' = Fetch(p) \cup {new}
    BY <2>1, <2>2 DEF Fetch
  <2>4. KeysOf(Fetch(p)') = KeysOf(Fetch(p)) \cup {episode[p]}
    BY <2>2, <2>3 DEF KeysOf
  <2>5. episode[p] \notin KeysOf(Fetch(p))
    BY <2>1, <1>k, <1>p DEF TaskKnows, Saved, IsSaved, KeysOf
  <2> QED
    BY <2>1, <2>4, <2>5, <1>1
<1>4. CASE RemoveEpisode(t)
  <2>1. DeleteRows(p, episode[p]) /\ task[t].pc = "remove"
    BY <1>4, <1>p DEF RemoveEpisode, TaskStep
  <2>2. store' = store
    BY <2>1 DEF DeleteRows
  <2>3. Fetch(p)' = {r \in Fetch(p) : r.key \notin {episode[p], Blank}}
    BY <2>1, <1>t, ViewAfterDelete DEF Players, CalmInv, ContextInv, PendingApart
  <2>4. KeysOf(Fetch(p)') = KeysOf(Fetch(p)) \ {episode[p], Blank}
    BY <2>3 DEF KeysOf
  <2>5. episode[p] \in KeysOf(Fetch(p))
    BY <2>1, <1>k, <1>p DEF TaskKnows, Saved, IsSaved, KeysOf
  <2> QED
    BY <2>2, <2>4, <2>5, <1>1
<1>5. CASE SaveEpisode(t)
  <2>1. SaveContext(p)
    BY <1>5, <1>p DEF SaveEpisode
  <2>2. Fetch(p)' = Fetch(p) /\ store' \in {store, Fetch(p)}
    BY <2>1, <1>t, ViewAfterSave DEF Players
  <2>3. CASE store' = store
    BY <2>2, <2>3, <1>o, <1>s DEF AsSet!setVars
  <2>4. CASE store' = Fetch(p)
    <3>1. AsSet!Save
      BY <2>2, <2>4, <1>o, <1>s DEF AsSet!Save
    <3> QED
      BY <3>1 DEF AsSet!Next
  <2> QED
    BY <2>2, <2>3, <2>4
<1> QED
  BY <1>2, <1>3, <1>4, <1>5 DEF Run

\* For a user who waits, with saves that fail and a process that may end at any
\* step, CoreDataManager's rows, contexts and tasks implement FavoriteSet.
THEOREM CalmSet ==
    ASSUME FetchFails = FALSE
    PROVE  CalmSpec => ActsLikeFavoriteSet
<1>1. Init => AsSet!Init
  BY DEF Init, StoreInit, AsSet!Init
<1>2. CalmInv /\ [CalmNext]_vars => [AsSet!Next]_(AsSet!setVars)
  <2> SUFFICES ASSUME CalmInv, [CalmNext]_vars
               PROVE  [AsSet!Next]_(AsSet!setVars)
    OBVIOUS
  <2>1. CASE Terminate
    <3>1. presented' = NoPlayer /\ store' = store
      BY <2>1 DEF Terminate, LoseContexts
    <3> QED
      BY <3>1 DEF AsSet!Next, AsSet!Close
  <2>2. CASE UNCHANGED vars
    BY <2>2, SetFrame DEF vars, playerVars
  <2> QED
    BY <2>1, <2>2, SetUser, SetRun DEF CalmNext
<1> QED
  BY <1>1, <1>2, CalmInit, CalmStep, PTL DEF CalmSpec, ActsLikeFavoriteSet, AsSet!Spec
==============================================================================
