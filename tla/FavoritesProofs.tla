--------------------------- MODULE FavoritesProofs ---------------------------
(* Theorems about Favorites, for every set of players, tasks and episodes. *)
EXTENDS Favorites, TLAPS

\* Launch satisfies the type invariant.
LEMMA TypeInit == Init => TypeOK
<1> SUFFICES ASSUME Init PROVE TypeOK
  OBVIOUS
<1>1. StoreTypeOK
  BY DEF Init, StoreInit, StoreTypeOK
<1>2. podcastSaved \in [Names \cup {NoName} -> SUBSET Row]
  BY DEF Init, Sections
<1> QED
  BY <1>1, <1>2 DEF Init, TypeOK, Keys, Origins, Task

\* The operations of the store keep its type.
LEMMA StoreTypeStep ==
    ASSUME StoreTypeOK, NEW c \in Contexts, NEW k \in Keys,
           NEW n \in Names \cup {NoName},
           \/ UNCHANGED storeVars
           \/ InsertRow(c, k, n) \/ DeleteRows(c, k)
           \/ SaveContext(c) \/ FreshContext(c) \/ LoseContexts
    PROVE  StoreTypeOK'
<1>1. CASE UNCHANGED storeVars
  BY <1>1 DEF StoreTypeOK, storeVars
<1>2. CASE InsertRow(c, k, n)
  BY <1>2 DEF StoreTypeOK, InsertRow, Row
<1>3. CASE DeleteRows(c, k)
  <2>1. \A rows \in FetchResults(c) : rows \subseteq Row
    BY DEF FetchResults, Fetch, StoreTypeOK
  <2> QED
    BY <1>3, <2>1 DEF StoreTypeOK, DeleteRows
<1>4. CASE SaveContext(c)
  BY <1>4 DEF StoreTypeOK, SaveContext, Commit, storeVars
<1>5. CASE FreshContext(c) \/ LoseContexts
  BY <1>5 DEF StoreTypeOK, FreshContext, LoseContexts
<1> QED
  BY <1>1, <1>2, <1>3, <1>4, <1>5

\* Starting, advancing and ending a task keep the type of the tasks.
LEMMA TaskTypeStep ==
    ASSUME TypeOK, NEW t \in Tasks
    PROVE  /\ \A p \in Players : StartTask(t, p, "check") \/ StartTask(t, p, "pressed")
                 => task' \in [Tasks -> Task]
           /\ End(t) => task' \in [Tasks -> Task]
           /\ \A pc \in CheckPCs \cup PressPCs :
                 Busy(t) /\ Goto(t, pc) => task' \in [Tasks -> Task]
           /\ Busy(t) => /\ PlayerOf(t) \in Players
                         /\ task[t] \in [pc : CheckPCs \cup PressPCs,
                                         player : Players, favorite : BOOLEAN]
<1> USE DEF TypeOK, Task
<1>1. \A p \in Players : StartTask(t, p, "check") \/ StartTask(t, p, "pressed")
                 => task' \in [Tasks -> Task]
  <2>1. \A p \in Players, pc \in CheckPCs \cup PressPCs :
           [pc |-> pc, player |-> p, favorite |-> FALSE] \in Task
    OBVIOUS
  <2>2. \A p \in Players, pc \in CheckPCs \cup PressPCs :
           StartTask(t, p, pc) => task' \in [Tasks -> Task]
    BY <2>1 DEF StartTask
  <2> QED
    BY <2>2 DEF CheckPCs, PressPCs
<1>2. End(t) => task' \in [Tasks -> Task]
  BY DEF End
<1>3. Busy(t) => task[t] \in [pc : CheckPCs \cup PressPCs,
                              player : Players, favorite : BOOLEAN]
  BY DEF Busy
<1>4. \A pc \in CheckPCs \cup PressPCs :
                 Busy(t) /\ Goto(t, pc) => task' \in [Tasks -> Task]
  BY <1>3 DEF Goto
<1> QED
  BY <1>1, <1>2, <1>3, <1>4 DEF PlayerOf

\* A task at a program counter of its own is not idle.
LEMMA PCBusy ==
    ASSUME NEW t \in Tasks, NEW pc \in CheckPCs \cup PressPCs, task[t].pc = pc
    PROVE  Busy(t)
BY DEF Busy, Idle, CheckPCs, PressPCs

\* Reading the list again, in viewWillAppear or at a dismissal, keeps its type.
LEMMA ListTypeStep ==
    ASSUME TypeOK, RefreshList
    PROVE  podcastSaved' \in [Names \cup {NoName} -> SUBSET Row]
BY DEF TypeOK, StoreTypeOK, RefreshList, Sections

\* Presenting a player keeps the type invariant.
LEMMA TypePresent ==
    ASSUME TypeOK, NEW p \in Players, NEW t \in Tasks, NEW from \in Origins,
           NEW k \in Keys, NEW n \in Names \cup {NoName},
           Present(p, t, from, k, n)
    PROVE  TypeOK'
<1>1. StoreTypeOK'
  BY StoreTypeStep DEF Present, TypeOK, Players
<1>2. task' \in [Tasks -> Task]
  BY TaskTypeStep DEF Present
<1> QED
  BY <1>1, <1>2 DEF Present, TypeOK, screenVars

\* So does every gesture of the user.
LEMMA TypeUser == TypeOK /\ UserStep => TypeOK'
<1> SUFFICES ASSUME TypeOK, UserStep PROVE TypeOK'
  OBVIOUS
<1>1. ASSUME NEW p \in Players, NEW t \in Tasks, NEW e \in Episodes,
             OpenFromPodcasts(p, t, e)
      PROVE  TypeOK'
  <2>1. PodcastOf[e] \in Names \cup {NoName} /\ e \in Keys
    BY FavoritesAssumption DEF Keys
  <2> QED
    BY <1>1, <2>1, TypePresent DEF OpenFromPodcasts, Origins
<1>2. ASSUME NEW p \in Players, NEW t \in Tasks, NEW r \in Listed,
             OpenFromFavorites(p, t, r)
      PROVE  TypeOK'
  <2>1. r.key \in Keys
    BY DEF Listed, TypeOK, Row
  <2> QED
    BY <1>2, <2>1, TypePresent DEF OpenFromFavorites, Origins
<1>3. ASSUME NEW p \in Players, NEW t \in Tasks, OpenFromTabBar(p, t)
      PROVE  TypeOK'
  <2>1. Blank \in Keys
    BY DEF Keys
  <2> QED
    BY <1>3, <2>1, TypePresent DEF OpenFromTabBar, Origins
<1>4. ASSUME NEW t \in Tasks, PressFavorite(t)
      PROVE  TypeOK'
  <2>1. presented \in Players
    BY <1>4 DEF PressFavorite, TypeOK
  <2>2. task' \in [Tasks -> Task]
    BY <1>4, <2>1, TaskTypeStep DEF PressFavorite
  <2> QED
    BY <1>4, <2>2 DEF PressFavorite, TypeOK, StoreTypeOK, storeVars, playerVars,
                      screenVars
<1>5. CASE Dismiss
  <2>1. podcastSaved' \in [Names \cup {NoName} -> SUBSET Row]
    BY <1>5, ListTypeStep DEF Dismiss, TypeOK
  <2> QED
    BY <1>5, <2>1 DEF Dismiss, TypeOK, StoreTypeOK, storeVars, playerVars,
                      screenVars
<1>6. CASE ShowFavorites
  <2>1. podcastSaved' \in [Names \cup {NoName} -> SUBSET Row]
    BY <1>6, ListTypeStep DEF ShowFavorites
  <2> QED
    BY <1>6, <2>1 DEF ShowFavorites, TypeOK, StoreTypeOK, storeVars, playerVars
<1>7. CASE LeaveFavorites
  BY <1>7 DEF LeaveFavorites, TypeOK, StoreTypeOK, storeVars, playerVars
<1>8. CASE TopTabBarTap
  BY <1>8 DEF TopTabBarTap, TypeOK, StoreTypeOK, storeVars, playerVars
<1> QED
  BY <1>1, <1>2, <1>3, <1>4, <1>5, <1>6, <1>7, <1>8 DEF UserStep

\* So does the end of the process, which leaves only the file.
LEMMA TypeTerminate == TypeOK /\ Terminate => TypeOK'
<1> SUFFICES ASSUME TypeOK, Terminate PROVE TypeOK'
  OBVIOUS
<1>1. StoreTypeOK'
  BY DEF Terminate, LoseContexts, TypeOK, StoreTypeOK
<1>2. podcastSaved' \in [Names \cup {NoName} -> SUBSET Row]
  BY DEF Terminate, Sections
<1> QED
  BY <1>1, <1>2 DEF Terminate, TypeOK, Keys, Origins, Task

\* So does every step of a task, on the main actor or on the pool.
LEMMA TypeRun == \A t \in Tasks : TypeOK /\ Run(t) => TypeOK'
<1> SUFFICES ASSUME NEW t \in Tasks, TypeOK, Run(t) PROVE TypeOK'
  OBVIOUS
<1> DEFINE p == PlayerOf(t)
<1>b. /\ Busy(t)
      /\ p \in Players
      /\ task[t] \in [pc : CheckPCs \cup PressPCs, player : Players,
                      favorite : BOOLEAN]
  <2>1. Busy(t)
    BY PCBusy DEF Run, CheckFetch, CheckResume, ClickStart, AddEpisode,
                  RemoveEpisode, SaveEpisode, ClickResume, TaskStep, CheckPCs,
                  PressPCs
  <2> QED
    BY <2>1, TaskTypeStep
<1>k. episode[p] \in Keys /\ podcastTitle[p] \in Names \cup {NoName}
      /\ isFavorite[p] \in BOOLEAN
  BY <1>b DEF TypeOK
<1>1. CASE CheckFetch(t)
  <2>1. PICK rows \in FetchResults(p) :
          task' = [task EXCEPT ![t].pc = "checked",
                               ![t].favorite = IsSaved(episode[p], rows)]
    BY <1>1 DEF CheckFetch
  <2>2. IsSaved(episode[p], rows) \in BOOLEAN
    BY DEF IsSaved
  <2>3. task' \in [Tasks -> Task]
    BY <1>b, <2>1, <2>2 DEF TypeOK, Task, CheckPCs
  <2> QED
    BY <1>1, <2>3 DEF CheckFetch, TaskStep, TypeOK, StoreTypeOK, storeVars,
                      playerVars, screenVars
<1>2. CASE CheckResume(t)
  <2>1. task' \in [Tasks -> Task]
    BY <1>2, TaskTypeStep DEF CheckResume
  <2>2. isFavorite' \in [Players -> BOOLEAN]
    BY <1>2, <1>b DEF CheckResume, TypeOK
  <2> QED
    BY <1>2, <2>1, <2>2 DEF CheckResume, TaskStep, TypeOK, StoreTypeOK,
                            storeVars, playerVars, screenVars
<1>3. CASE ClickStart(t)
  <2>1. task' \in [Tasks -> Task]
    BY <1>3, <1>b, <1>k DEF ClickStart, TypeOK, Task, PressPCs
  <2> QED
    BY <1>3, <2>1 DEF ClickStart, TaskStep, TypeOK, StoreTypeOK, storeVars,
                      playerVars, screenVars
<1>4. CASE AddEpisode(t) \/ RemoveEpisode(t) \/ SaveEpisode(t)
  <2>1. StoreTypeOK'
    BY <1>4, <1>b, <1>k, StoreTypeStep
       DEF AddEpisode, RemoveEpisode, SaveEpisode, TypeOK, Players
  <2>2. task' \in [Tasks -> Task]
    BY <1>4, <1>b, TaskTypeStep
       DEF AddEpisode, RemoveEpisode, SaveEpisode, PressPCs
  <2> QED
    BY <1>4, <2>1, <2>2 DEF AddEpisode, RemoveEpisode, SaveEpisode, TaskStep,
                            TypeOK, playerVars, screenVars
<1>5. CASE ClickResume(t)
  <2>1. task' \in [Tasks -> Task]
    BY <1>5, TaskTypeStep DEF ClickResume
  <2>2. isFavorite' \in [Players -> BOOLEAN]
    BY <1>5, <1>b DEF ClickResume, TypeOK
  <2> QED
    BY <1>5, <2>1, <2>2 DEF ClickResume, TaskStep, TypeOK, StoreTypeOK,
                            storeVars, playerVars, screenVars
<1> QED
  BY <1>1, <1>2, <1>3, <1>4, <1>5 DEF Run

\* So does every step.
LEMMA TypeNext == TypeOK /\ [Next]_vars => TypeOK'
<1>1. TypeOK /\ UNCHANGED vars => TypeOK'
  BY DEF vars, storeVars, playerVars, screenVars, TypeOK, StoreTypeOK
<1> QED
  BY <1>1, TypeUser, TypeTerminate, TypeRun DEF Next

\* Every variable keeps its type, whatever the user and the tasks do.
THEOREM TypeCorrect == Spec => []TypeOK
BY TypeInit, TypeNext, PTL DEF Spec

------------------------------------------------------------------------------
\* What the contexts hold, and whose it is

\* A context deletes only rows of the episode its player shows, and untitled
\* ones; it inserts only rows of that episode.
OwnChanges ==
    \A p \in Players :
        /\ \A r \in deleted[p] : r.key \in {episode[p], Blank}
        /\ \A r \in inserted[p] : r.key = episode[p]

\* A row that waits to be saved is in one place: not in the file yet, not in
\* two contexts, and no context deletes it before it is saved.
PendingApart ==
    /\ \A p \in Players : inserted[p] \cap store = {}
    /\ \A p, q \in Players : inserted[p] \cap deleted[q] = {}
    /\ \A p, q \in Players : p # q => inserted[p] \cap inserted[q] = {}

\* A context with unsaved changes has a task about to save them, or a conflict
\* that refuses them.
ChangesHaveASaver ==
    ~SaveFails =>
        \A p \in Players :
            HasChanges(p) =>
                \/ Conflict(p)
                \/ \E t \in Tasks : task[t].pc = "save" /\ PlayerOf(t) = p

ContextInv == TypeOK /\ OwnChanges /\ PendingApart /\ ChangesHaveASaver

\* No context has changes and no task runs at launch.
LEMMA ContextInit == Init => ContextInv
<1> SUFFICES ASSUME Init PROVE ContextInv
  OBVIOUS
<1>1. \A p \in Players : inserted[p] = {} /\ deleted[p] = {}
  BY DEF Init, StoreInit, Players
<1> QED
  BY <1>1, TypeInit
     DEF ContextInv, OwnChanges, PendingApart, ChangesHaveASaver, HasChanges

\* A new player starts with a fresh context, so nothing of it waits for a save.
LEMMA ContextPresent ==
    ASSUME ContextInv, NEW p \in Players, NEW t \in Tasks, NEW from, NEW k, NEW n,
           Present(p, t, from, k, n)
    PROVE  OwnChanges' /\ PendingApart' /\ ChangesHaveASaver'
<1> USE DEF ContextInv, TypeOK, StoreTypeOK, Players
<1>1. /\ store' = store
      /\ inserted' = [inserted EXCEPT ![p] = {}]
      /\ deleted' = [deleted EXCEPT ![p] = {}]
      /\ episode' = [episode EXCEPT ![p] = k]
      /\ task' = [task EXCEPT ![t] = [pc |-> "check", player |-> p, favorite |-> FALSE]]
      /\ ~Busy(t) /\ Outstanding(p) = {}
  BY DEF Present, FreshContext, StartTask
<1>2. OwnChanges'
  BY <1>1 DEF OwnChanges
<1>3. PendingApart'
  BY <1>1 DEF PendingApart
<1>4. ChangesHaveASaver'
  <2> SUFFICES ASSUME ~SaveFails, NEW q \in Players, HasChanges(q)'
               PROVE  Conflict(q)' \/ \E u \in Tasks :
                                         (task[u].pc = "save" /\ PlayerOf(u) = q)'
    BY DEF ChangesHaveASaver
  <2>1. q # p /\ HasChanges(q)
    BY <1>1 DEF HasChanges
  <2>2. CASE Conflict(q)
    BY <2>1, <2>2, <1>1 DEF Conflict
  <2>3. ASSUME NEW u \in Tasks, task[u].pc = "save", PlayerOf(u) = q
        PROVE  (task[u].pc = "save" /\ PlayerOf(u) = q)'
    <3>1. u # t
      BY <2>3, <1>1 DEF Busy, Idle
    <3> QED
      BY <3>1, <2>3, <1>1 DEF PlayerOf
  <2> QED
    BY <2>1, <2>2, <2>3 DEF ChangesHaveASaver
<1> QED
  BY <1>2, <1>3, <1>4

\* A step that leaves the contexts alone and moves no task away from its save.
LEMMA ContextFrame ==
    ASSUME ContextInv, UNCHANGED storeVars, UNCHANGED episode,
           \A u \in Tasks : task[u].pc = "save" => task'[u] = task[u]
    PROVE  OwnChanges' /\ PendingApart' /\ ChangesHaveASaver'
BY DEF ContextInv, OwnChanges, PendingApart, ChangesHaveASaver, storeVars,
       HasChanges, Conflict, PlayerOf

\* A step of one player that leaves the file alone and ends before its save.
LEMMA ContextChanged ==
    ASSUME ContextInv, NEW p \in Players, NEW t \in Tasks,
           task[t].pc # "save", task'[t].pc = "save", task'[t].player = p,
           \A u \in Tasks : u # t => task'[u] = task[u],
           store' = store,
           \A q \in Players : q # p => /\ inserted'[q] = inserted[q]
                                       /\ deleted'[q] = deleted[q]
    PROVE  ChangesHaveASaver'
<1> SUFFICES ASSUME ~SaveFails, NEW q \in Players, HasChanges(q)'
             PROVE  Conflict(q)' \/ \E u \in Tasks :
                                       (task[u].pc = "save" /\ PlayerOf(u) = q)'
  BY DEF ChangesHaveASaver
<1>1. CASE q = p
  BY <1>1 DEF PlayerOf
<1>2. CASE q # p
  <2>1. HasChanges(q) /\ (Conflict(q) => Conflict(q)')
    BY <1>2 DEF HasChanges, Conflict
  <2> QED
    BY <2>1 DEF ContextInv, ChangesHaveASaver, PlayerOf
<1> QED
  BY <1>1, <1>2

\* No gesture gives a context changes that no task will save.
LEMMA ContextUser == ContextInv /\ UserStep => ContextInv'
<1> SUFFICES ASSUME ContextInv, UserStep
             PROVE  OwnChanges' /\ PendingApart' /\ ChangesHaveASaver'
  BY TypeUser DEF ContextInv
<1>1. ASSUME NEW p \in Players, NEW t \in Tasks,
             \/ \E e \in Episodes : OpenFromPodcasts(p, t, e)
             \/ \E r \in Listed : OpenFromFavorites(p, t, r)
             \/ OpenFromTabBar(p, t)
      PROVE  OwnChanges' /\ PendingApart' /\ ChangesHaveASaver'
  BY <1>1, ContextPresent DEF OpenFromPodcasts, OpenFromFavorites, OpenFromTabBar
<1>2. ASSUME NEW t \in Tasks, PressFavorite(t)
      PROVE  OwnChanges' /\ PendingApart' /\ ChangesHaveASaver'
  <2>1. \A u \in Tasks : task[u].pc = "save" => task'[u] = task[u]
    BY <1>2 DEF PressFavorite, StartTask, Busy, Idle, ContextInv, TypeOK
  <2> QED
    BY <1>2, <2>1, ContextFrame DEF PressFavorite, playerVars
<1>3. CASE Dismiss \/ ShowFavorites \/ LeaveFavorites \/ TopTabBarTap
  BY <1>3, ContextFrame
     DEF Dismiss, ShowFavorites, LeaveFavorites, TopTabBarTap, playerVars
<1> QED
  BY <1>1, <1>2, <1>3 DEF UserStep

\* The end of the process takes all contexts and tasks with it.
LEMMA ContextTerminate == ContextInv /\ Terminate => ContextInv'
<1> SUFFICES ASSUME ContextInv, Terminate
             PROVE  OwnChanges' /\ PendingApart' /\ ChangesHaveASaver'
  BY TypeTerminate DEF ContextInv
<1>1. \A p \in Players : inserted'[p] = {} /\ deleted'[p] = {}
  BY DEF Terminate, LoseContexts, Players
<1> QED
  BY <1>1 DEF OwnChanges, PendingApart, ChangesHaveASaver, HasChanges

\* A task that changes its player's context goes on to save it.
LEMMA ContextRun == \A t \in Tasks : ContextInv /\ Run(t) => ContextInv'
<1> SUFFICES ASSUME NEW t \in Tasks, ContextInv, Run(t)
             PROVE  OwnChanges' /\ PendingApart' /\ ChangesHaveASaver'
  BY TypeRun DEF ContextInv
<1> DEFINE p == PlayerOf(t)
<1>b. Busy(t) /\ p \in Players
  <2>1. Busy(t)
    BY PCBusy DEF Run, CheckFetch, CheckResume, ClickStart, AddEpisode,
                  RemoveEpisode, SaveEpisode, ClickResume, TaskStep, CheckPCs,
                  PressPCs
  <2> QED
    BY <2>1, TaskTypeStep DEF ContextInv
<1> HIDE DEF p
<1>t. task \in [Tasks -> Task] /\ StoreTypeOK
  BY DEF ContextInv, TypeOK
<1>1. CASE CheckFetch(t) \/ CheckResume(t) \/ ClickStart(t) \/ ClickResume(t)
  <2>1. \A u \in Tasks : task[u].pc = "save" => task'[u] = task[u]
    BY <1>1, <1>t DEF CheckFetch, CheckResume, ClickStart, ClickResume, TaskStep, End
  <2> QED
    BY <1>1, <2>1, ContextFrame
       DEF CheckFetch, CheckResume, ClickStart, ClickResume, TaskStep, playerVars
<1>2. CASE AddEpisode(t)
  <2>1. PICK id \in RowIds \ UsedIds :
           /\ inserted' = [inserted EXCEPT ![p] = @ \cup
                 {[id |-> id, key |-> episode[p], name |-> podcastTitle[p]]}]
           /\ UNCHANGED <<store, deleted, episode>>
           /\ task' = [task EXCEPT ![t].pc = "save"]
    BY <1>2 DEF AddEpisode, InsertRow, Goto, TaskStep, playerVars, p
  <2> DEFINE new == [id |-> id, key |-> episode[p], name |-> podcastTitle[p]]
  <2>2. new \notin LiveRows
    BY <2>1 DEF UsedIds
  <2>3. new \notin store /\ \A q \in Players : new \notin inserted[q] \cup deleted[q]
    BY <2>2 DEF LiveRows, Players
  <2>4. inserted' = [inserted EXCEPT ![p] = @ \cup {new}] /\ new.key = episode[p]
    BY <2>1
  <2> HIDE DEF new
  <2>5. OwnChanges'
    BY <2>1, <2>4, <1>b, <1>t DEF ContextInv, OwnChanges, StoreTypeOK, Players
  <2>6. PendingApart'
    BY <2>1, <2>3, <2>4, <1>b, <1>t DEF ContextInv, PendingApart, StoreTypeOK, Players
  <2>7. task'[t].pc = "save" /\ task'[t].player = p
        /\ \A u \in Tasks : u # t => task'[u] = task[u]
    BY <2>1, <1>t DEF PlayerOf, p, Task, Idle
  <2>8. ChangesHaveASaver'
    <3>1. \A q \in Players : q # p => /\ inserted'[q] = inserted[q]
                                      /\ deleted'[q] = deleted[q]
      BY <2>1, <2>4, <1>t DEF StoreTypeOK, Players
    <3>2. task[t].pc # "save" /\ task'[t].pc = "save" /\ task'[t].player = p
      BY <2>7, <1>2 DEF AddEpisode, TaskStep, PlayerOf
    <3> QED
      BY <3>1, <3>2, <2>1, <2>7, <1>b, ContextChanged
  <2> QED
    BY <2>5, <2>6, <2>8
<1>3. CASE RemoveEpisode(t)
  <2>1. PICK rows \in FetchResults(p) :
           /\ inserted' = [inserted EXCEPT
                 ![p] = @ \ {r \in rows : r.key \in {episode[p], Blank}}]
           /\ deleted' = [deleted EXCEPT
                 ![p] = @ \cup ({r \in rows : r.key \in {episode[p], Blank}} \ inserted[p])]
           /\ UNCHANGED <<store, episode>>
           /\ task' = [task EXCEPT ![t].pc = "save"]
    BY <1>3 DEF RemoveEpisode, DeleteRows, Goto, TaskStep, playerVars, p
  <2>2. rows \subseteq store \cup inserted[p]
    BY DEF FetchResults, Fetch
  <2>3. OwnChanges'
    BY <2>1, <1>b, <1>t DEF ContextInv, OwnChanges, StoreTypeOK, Players
  <2>4. PendingApart'
    BY <2>1, <2>2, <1>b, <1>t DEF ContextInv, PendingApart, StoreTypeOK, Players
  <2>5. task'[t].pc = "save" /\ task'[t].player = p
        /\ \A u \in Tasks : u # t => task'[u] = task[u]
    BY <2>1, <1>t DEF PlayerOf, p, Task, Idle
  <2>6. ChangesHaveASaver'
    <3>1. \A q \in Players : q # p => /\ inserted'[q] = inserted[q]
                                      /\ deleted'[q] = deleted[q]
      BY <2>1, <1>t DEF StoreTypeOK, Players
    <3>2. task[t].pc # "save" /\ task'[t].pc = "save" /\ task'[t].player = p
      BY <2>5, <1>3 DEF RemoveEpisode, TaskStep, PlayerOf
    <3> QED
      BY <3>1, <3>2, <2>1, <2>5, <1>b, ContextChanged
  <2> QED
    BY <2>3, <2>4, <2>6
<1>4. CASE SaveEpisode(t)
  <2>1. /\ UNCHANGED episode
        /\ \A u \in Tasks : u # t => task'[u] = task[u]
        /\ \/ ~HasChanges(p) /\ UNCHANGED storeVars
           \/ Commit(p)
           \/ (SaveFails \/ Conflict(p)) /\ UNCHANGED storeVars
    BY <1>4 DEF SaveEpisode, SaveContext, Goto, TaskStep, playerVars, p
  <2>2. CASE UNCHANGED storeVars
    <3>1. OwnChanges' /\ PendingApart'
      BY <2>1, <2>2 DEF ContextInv, OwnChanges, PendingApart, storeVars
    <3>2. ChangesHaveASaver'
      <4> SUFFICES ASSUME ~SaveFails, NEW q \in Players, HasChanges(q)'
                   PROVE  Conflict(q)' \/ \E u \in Tasks :
                                (task[u].pc = "save" /\ PlayerOf(u) = q)'
        BY DEF ChangesHaveASaver
      <4>1. HasChanges(q) /\ (Conflict(q) => Conflict(q)')
        BY <2>2 DEF HasChanges, Conflict, storeVars
      <4>2. CASE q = p
        <5>1. Conflict(p) \/ inserted' # inserted \/ deleted' # deleted
          BY <2>1, <2>2, <4>1, <4>2, <1>b, <1>t
             DEF Commit, HasChanges, StoreTypeOK, Players, storeVars
        <5> QED
          BY <5>1, <2>2, <4>1, <4>2 DEF storeVars
      <4>3. CASE q # p
        BY <2>1, <4>1, <4>3 DEF ContextInv, ChangesHaveASaver, PlayerOf, p
      <4> QED
        BY <4>2, <4>3
    <3> QED
      BY <3>1, <3>2
  <2>3. CASE Commit(p)
    <3>1. OwnChanges'
      BY <2>1, <2>3, <1>b, <1>t DEF Commit, ContextInv, OwnChanges, StoreTypeOK, Players
    <3>2. PendingApart'
      BY <2>3, <1>b, <1>t DEF Commit, ContextInv, PendingApart, StoreTypeOK, Players
    <3>3. ChangesHaveASaver'
      <4> SUFFICES ASSUME ~SaveFails, NEW q \in Players, HasChanges(q)'
                   PROVE  Conflict(q)' \/ \E u \in Tasks :
                                (task[u].pc = "save" /\ PlayerOf(u) = q)'
        BY DEF ChangesHaveASaver
      <4>1. q # p /\ HasChanges(q)
        BY <2>3, <1>b, <1>t DEF Commit, HasChanges, StoreTypeOK, Players
      <4>2. Conflict(q) => Conflict(q)'
        BY <2>3, <4>1, <1>b, <1>t
           DEF Commit, Conflict, ContextInv, PendingApart, StoreTypeOK, Players
      <4> QED
        BY <2>1, <4>1, <4>2 DEF ContextInv, ChangesHaveASaver, PlayerOf, p
    <3> QED
      BY <3>1, <3>2, <3>3
  <2> QED
    BY <2>1, <2>2, <2>3
<1> QED
  BY <1>1, <1>2, <1>3, <1>4 DEF Run

\* Every step keeps the invariant of the contexts.
LEMMA ContextNext == ContextInv /\ [Next]_vars => ContextInv'
<1>1. ContextInv /\ UNCHANGED vars => ContextInv'
  <2> SUFFICES ASSUME ContextInv, UNCHANGED vars PROVE ContextInv'
    OBVIOUS
  <2>1. TypeOK'
    BY TypeNext DEF ContextInv
  <2> QED
    BY <2>1, ContextFrame DEF ContextInv, vars, playerVars
<1> QED
  BY <1>1, ContextUser, ContextTerminate, ContextRun DEF Next

\* In every state, what a context holds unsaved belongs to its player's episode, and
\* a task is on the way to saveContext, or the save was refused.
THEOREM ContextsKept == Spec => []ContextInv
BY ContextInit, ContextNext, PTL DEF Spec

\* A row leaves the file only by the save of a player that shows its episode, or
\* because it is untitled: removeEpisodeFromFavorite deletes by key, and
\* saveContext writes one context only.
THEOREM OwnRemoval == Spec => OnlyOwnFavoriteRemoved
<1>1. ContextInv /\ [Next]_vars => [RowsGoByTheirOwnPlayer]_vars
  <2> SUFFICES ASSUME ContextInv, Next, NEW r \in store \ store'
               PROVE  \E t \in Tasks :
                         /\ task[t].pc = "save" /\ task'[t].pc = "saved"
                         /\ r.key \in {episode[PlayerOf(t)], Blank}
    BY DEF RowsGoByTheirOwnPlayer
  <2>1. ~UserStep /\ ~Terminate
    BY DEF UserStep, OpenFromPodcasts, OpenFromFavorites, OpenFromTabBar, Present,
           FreshContext, PressFavorite, Dismiss, ShowFavorites, LeaveFavorites,
           TopTabBarTap, Terminate, LoseContexts, storeVars
  <2>2. PICK t \in Tasks : SaveEpisode(t)
    BY <2>1 DEF Next, Run, CheckFetch, CheckResume, ClickStart, AddEpisode,
                InsertRow, RemoveEpisode, DeleteRows, ClickResume, storeVars
  <2>3. Busy(t) /\ PlayerOf(t) \in Players
    BY <2>2, PCBusy, TaskTypeStep DEF SaveEpisode, TaskStep, PressPCs, ContextInv
  <2>4. r \in deleted[PlayerOf(t)]
    BY <2>2 DEF SaveEpisode, SaveContext, Commit, storeVars
  <2>5. task[t].pc = "save" /\ task'[t].pc = "saved"
    BY <2>2 DEF SaveEpisode, TaskStep, Goto, ContextInv, TypeOK, Task
  <2> QED
    BY <2>3, <2>4, <2>5 DEF ContextInv, OwnChanges
<1> QED
  BY <1>1, ContextsKept, PTL DEF Spec, OnlyOwnFavoriteRemoved

\* As long as save() throws only for conflicts, a player whose tasks have ended
\* holds no unsaved change it could still save.
THEOREM AllSaved == Spec => []NothingLeftUnsaved
<1>1. ContextInv => NothingLeftUnsaved
  <2> SUFFICES ASSUME ContextInv, NEW p \in Players, ~SaveFails,
                      Outstanding(p) = {}, HasChanges(p)
               PROVE  Conflict(p)
    BY DEF NothingLeftUnsaved
  <2>1. \A t \in Tasks : ~(task[t].pc = "save" /\ PlayerOf(t) = p)
    BY PCBusy DEF Outstanding, PressPCs
  <2> QED
    BY <2>1 DEF ContextInv, ChangesHaveASaver
<1> QED
  BY <1>1, ContextsKept, PTL
==============================================================================
