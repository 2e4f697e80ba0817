# BingePodcast: a TLA+ development

BingePodcast is an iOS application in Swift/UIKit: it lists the podcasts and the
episodes of a Firestore database, shows their pictures, and keeps favourite
episodes in a Core Data file. The program's own logic is some 5,000 lines under
`src/BingePodcast/BingePodcast`; most is layout, and what is left is state shared
by gestures, tasks and callbacks that come in an order nobody controls. That state
is what is modelled. Everything under `src/BingePodcast/Pods` is third party, and
nearly all of the repository's lines: generated tables, cryptography, transport,
containers. One part of it decides what the application sees, the way from
`getDocuments` through the Firestore client to the server and back, and that part is
modelled too.

## 1. Inventory

| Part | State | Operations | Talks to |
|---|---|---|---|
| `CoreDataManager`, `CoreDataStack` | the SQLite file; per player a context with unsaved inserts and deletes | check, add, remove, fetch, save | everyone who touches favourites |
| `PlayerViewController` | `isFavorite`, the labels, `podcastTitle`, its Tasks | open, press the heart, dismiss | its own `CoreDataManager` |
| `PageListFavorite`, `FavoriteViewController` | `podcastSaved`, table or message, `currentIndex`, line, bold title | appear, tap a title, select a row, refresh at dismissal | `CoreDataManager`, the player |
| `FirebaseService`, `PodcastPageModel` | a cursor per podcast, one `isLoading`, the queries out | list, first page, next page | Firestore; delegates |
| `PodcastViewController`, `PageListPodcast` | `podcastEpisode`, `arrayPageListPodcast`, `currentIndex`, page control, carousel | swipe, touch a cell, scroll, receive pages | `PodcastPageModel` |
| `ImageCallURL` and the cells | the cell's address and picture, the downloads under way | set up, picture arrives | `URLSession` |
| `SwitchPlayer` | `isFinished`, the circle's constraint, the text's alpha | tap, drag | |
| `HomeViewController`, `HomePageModel` | `podcast`, the loader | list arrives, cell appears, cell touched | a `FirebaseService` of its own |
| Firestore's `Query::GetDocuments`, `EventManager`, `QueryListener`, `SyncEngine` | the listeners, the views, the events on the user executor | ask, add and remove a listener, raise an event | the application; `RemoteStore` |
| Firestore's `RemoteStore`, `WatchStream`, `OnlineStateTracker`, `WatchChangeAggregator` | the targets, the stream with its timers, Unknown/Online/Offline, the answers outstanding per target | listen, stop, open, fail, back off, idle, read a message, restart | the server over gRPC |
| `FloatingTabBarViewController` | `tabBarPlayerShow`, the selected tab | unfold, open the player, select | the player |

What is hard here:

* **Tasks beside the user.** `checkIfPodcastIsFavorite` and `favoriteButtonClick`
  read `isFavorite` before an `await` and write it after. `CoreDataManager`'s
  methods are not isolated to an actor, so they run on the pool, beside the main
  thread and beside each other, on one context per player and one file for all.
* **Answers out of order.** Firestore's callbacks come on the main thread, in any
  order, late, with an error, or out of the cache. One `isLoading` serves all
  podcasts. `currentIndex` first counts the pages that arrived and then names the
  selected one.
* **A stream that breaks.** The Firestore client serves every get by a listener on a
  long-lived stream. Requests, credentials, timers, refusals and lost connections
  cross each other, one query may be listened to again before the server has seen
  that it was dropped, and events are queued for the application while their
  listener is being taken off.
* **Reuse.** Cells are set up again while the picture of their last set-up is still
  coming.
* **Failure.** Errors are printed and swallowed. The process may end at any moment.

The properties that make each part correct are listed with the runs in section 4;
`PROJECT.json` lists the hazards at their lines.

## 2. Modules

    CoreDataStore <- Favorites <- MCFavorites
                              <- FavoritesProofs <- FavoritesCalmProofs
    FavoriteSet . . refined by Favorites (under CalmSpec)
    FirebaseService <- MCFirebaseService
                    <- FirebaseServiceProofs <--------+
                    <- PodcastScreen <- MCPodcastScreen
                                     <- PodcastScreenProofs
    EpisodeFeed . . refined by FirebaseService, and by PodcastScreen over it (without
                    answers from the cache)
    OnlineStateTracker, WatchStream <- FirestoreGet
                                           <- FirestoreGetProofs <- FirestoreAnswerProofs
    GetOnce . . refined by FirestoreGet
    ImageCell, SwitchPlayer <- HomeScreen <- MCHomeScreen
                                          <- HomeScreenProofs
    FavoriteTabs <- FavoriteTabsProofs

* **CoreDataStore**: `store` is the file, `inserted[c]` and `deleted[c]` a context's
  unsaved changes. A fetch is the file with the context's changes applied. A row has
  an identity, as two rows may hold the same episode. Only what the code compares is
  kept of a row: the pair of title and subtitle, and the podcast's name. A save may
  be refused for a reason of its own (`SaveFails`) or because a row it deletes is
  gone; the changes then stay in the context, as `saveContext` only prints the error.
* **Favorites** adds the players and the list. A Task is a program counter: the part
  up to the `await` on the main actor, the manager's call on the pool (its fetch or
  insert, then its save, two steps), and the part after the `await`. `Spec` lets the
  user act at any time; `CalmSpec` lets the user act only when no task is under way.
  The process may end at any step in both.
* **FirebaseService**: documents are numbers, a page is an interval, a cursor is the
  last document's number (0: no entry in `arrayLastDocument`). Each query is one step
  to ask and one to answer. With `Offline`, an answer may come from the cache, which
  holds some first part of the collection. An empty first page sets `trapped`: the
  forced cast in line 125 ends the process.
* **PodcastScreen** composes the service with the screen: an answer and what the
  delegate does with it are one step. The carousel's animation is a step per cell, so
  a touch can fall into it.
* **OnlineStateTracker**, **WatchStream**: the two classes as values; every method is an
  operator from the object before the call to the object after it.
* **FirestoreGet** composes them with the rest of the client. Three things run side by
  side: the application and the user executor (`GetDocuments`, `OnEvent`), the worker
  queue, where every operation is one action with all the calls it makes, and the
  server. `HandleOnlineStateChange` stands for the whole broadcast: the views lose
  their sync, listeners that wait are given the cache. The server answers the requests
  of one target in order, on the stream they were sent on, and what is on a stream is
  lost with it. `listens` is a history variable: it numbers the listens of a query, so
  that a property can ask which of them a view was synced by.
* **FavoriteSet**, **EpisodeFeed**, **GetOnce** are abstract: what the favourites, the paging
  and `getDocuments` promise, without saying how. The refinement mappings are at the end
  of the detailed modules: `saved` is the episodes of the file's rows and `seen` those the
  open player's context shows; `read` is how much was delivered and `ended` the podcasts whose
  cursor was removed; a get is `refused` if its query is.
* **ImageCell**, **SwitchPlayer**, **HomeScreen**: the cells of the home screen and of
  the podcast tab, two switches, the list query and the loader.
* **FavoriteTabs**: the titles, the line, the two pages and the list's table or
  message. A press of the heart is two steps here, the start of its Task and the end of
  its save (`PressFavorite`, `FavoriteButtonClick`), with the gestures, the dismissal and
  other presses between them; its inside is `Favorites`. Whether it adds, removes or
  leaves the file as it is is open. `late` and `rounds` are history variables: who had a
  press under way when the list was last read, and how often the line has come back.

## 3. Abstractions and bounds

* `Contexts`, `Tasks`, `RowIds`, `Requests`, `Downloads` bound what is under way at
  one time, not what may happen in a run: identities are used again. Two tasks and two
  players are the smallest number that can disagree; three rows let each of two tasks
  add one beside a saved one.
* `MaxIndex` stops the swipes in an empty carousel, where the code lets `currentIndex`
  grow without end; it is beyond the number of pages, so that running ahead happens.
* `NumberOfPages` is the 6 of the code, 2 or 3 in the runs, with as many podcasts;
  `podcastLimit` is the 5, 1 or 2 in the runs, with collections that end within and
  at the end of a page.
* The insert and its `setValue`s are one step, and the context's memory is taken to
  survive two threads in it; the code uses the view context off the main thread, which
  Core Data forbids, and what that does to its memory is not modelled.
* Podcasts have different titles; the server's documents do not change during a run.
* `FirestoreGet` has two gets and two queries, which may be the same (two listeners of one
  view, or a query listened to again while the answer to its removal is missing) or differ
  (one refused, one served). `MaxEvents` bounds the events of a get that the user executor
  is behind: with 2 there is one after the first, which is what the muting is for.
  `MaxDrops` bounds how often a stream is lost that had proved itself, and changes of
  connectivity; failures before the first message are not bounded. Failures are counted
  up to `kMaxWatchStreamFailures`, 1 as in the code, as it asks for no more.
* A view is `local` or `synced`; documents are left out but for the choice whether a
  snapshot changes some. Limbo documents, which can put off the sync, are left out with
  them. Durations are left out: a timer that runs may fire. That the server sends a
  snapshot only when all targets of the stream are current is an assumption about the
  server.
* Fonts, shadows, blur, frames and transitions are left out, except where one of them
  shows a state (`paused`, `dimmed`, `bold`, `line`).
* The widths of the two titles in both fonts are constants of `FavoriteTabs`, as the line is
  moved by them: whole pixels, as UIKit rounds them. The run takes a screen of 393 points
  with two pixels each and the advance widths of Proxima Nova at 24 points (kerning left
  out); bold adds 6 pixels to "Favoris" and 5 to "A écouter". `MaxRounds` bounds the way back
  to the first title; the drift is linear in the rounds, so two show it.

## 4. Runs

| Run | What it shows |
|---|---|
| `fav_calm` | A user who waits, saves that may fail, a process that may end: heart and context agree (`HeartMatchesContext`), no episode is saved twice (`NoDuplicateFavorite`), the list is the file (`ListIsCurrent`), a player left open comes to show the truth (`HeartGetsRight`), and all of it is a set that the heart toggles (`ActsLikeFavoriteSet`). |
| `fav_race` | Two players and two tasks in any order, fetches that may fail: no unsaved change is left behind (`NothingLeftUnsaved`), no task removes another episode's row (`OnlyOwnFavoriteRemoved`). 2.9 million states with symmetry. |
| `paging` | Two podcasts, one flag, errors: no gap, no repetition, the flag follows the query, a podcast without a cursor is complete, every episode arrives, and to the screen it is `EpisodeFeed` (`FeedsEpisodes`). |
| `screen_calm` | A user who waits for the answers: list, page control and carousel agree, every page lists its own podcast, no index is out of range. |
| `screen_race` | Gestures between late, failed and cached answers, three podcasts: every delivered episode is on the pages exactly once, `loadMoreEpisode` always finds a page, and from the first list on nothing but an empty first page can trap (`TrapFreeOnceShown`). |
| `home` | Reused cells show no foreign picture and end with their own; a switch shows its state and comes to rest at the right end. |
| `gets` | Two gets over a stream that fails, is restarted, idles and is refused. Timers and credentials act only on the start they belong to (`TimerWhileConnecting`, `CredentialsOfThisStart`, `IdleWithoutTarget`: the client's own assertions rest on them); three registries name the same queries (`RegistriesAgree`); the count of missing answers is exact and keeps an old listen's messages away (`OutstandingIsOwed`, `SyncedByThisListen`); a get is answered once, with an error only if refused (`AnsweredLikeGetOnce`), in the end (`EveryGetAnswered`), and leaves nothing behind (`NoListenerLeft`); until then a queue, a timer, the credentials or the server has something to do for it (`NoGetForgotten`). 140,000 states. |
| `tabs` | Bold title and `currentIndex` agree, and the line is off its title by what the fonts make of it and no more (`TitleAgrees`); table or message, never both (`PageMatchesList`); list and file agree on every episode that had no press under way when the list was read (`ListOnScreenIsCurrent`). |

Four runs end in a violation; each states what a comment, a label or a test of the
repository says:

| Run | Counterexample |
|---|---|
| `fav_double` | Two quick presses read `isFavorite = false`; both add. |
| `screen_owner` | Scroll to the bottom, swipe, answer: the episodes go to the other podcast's page. |
| `screen_first` | One first page fails: the sixth never comes, the placeholder stays. |
| `home_error` | The list query fails: the guard on the snapshot returns before the error is reported. |

Deadlock is checked except in the runs of the podcast screen with a trap (the process
has ended) and in `home_error`, which ends at its counterexample.

**Fairness.** `Favorites`: weak fairness of every task, as the pool and the main queue
run what is ready; none of the user. `FirebaseService`: the list and the first pages are
answered; a further page is answered without an error if it is asked for again and again;
the user keeps scrolling in every list. Strong fairness is needed for the latter two: the
shared flag disables a list's query again and again, and some answers are errors.
`FirestoreGet`: the queues run, timers that are not cancelled fire, credentials come or
are refused; a request on an open stream is answered or the stream ends, as the channel's
keep-alive (`GrpcConnection::CreateChannel`) notices a dead connection; what the server has
begun it completes or the stream ends. Neither the application nor the network is assumed
to do anything: a get may be answered from the cache. `GetOnce` and `EveryGetAnswered` are
what `FirebaseService` takes for granted of Firestore: one answer for every query, late or
not, from the server, the cache or as an error.

## 5. Proofs

All hold for every set of players, tasks, rows, podcasts and requests, every catalogue,
page size and number of pages, from the named assumptions of the modules
(`StoreAssumption`, `FavoritesAssumption`, `ServiceAssumption`, `ScreenAssumption`,
`GetAssumption`, `TrackerAssumption`, `TabsAssumption`, `HomeAssumption`,
`CellAssumption`, `SwitchAssumption`), which the runs evaluate.

* `FavoritesProofs`. `TypeCorrect`; then `ContextInv`: a context deletes only rows of its
  player's episode or untitled ones, inserts only that episode, no pending row is in two
  places, and whoever has changes has a task about to save them or a conflict. The first
  gives `OwnRemoval`, the last `AllSaved`; the middle part is needed because a save of one
  context could otherwise turn another's change into a conflict unnoticed.
* `FavoritesCalmProofs` (no fetch throws). `CalmInv` adds that one task runs at a time, for
  the player on the screen, what that task knows at each of its steps (`TaskKnows`: before
  an insert, the context does not see the episode; before a deletion, it does), and that the
  context's view has no episode twice even when a save was refused. It gives `CalmHeart` and
  `CalmFavorites`; with the invariant that the file changes only under a player whose
  dismissal refreshes the list, `CalmList`; and with one lemma per kind of step, `CalmSet`:
  under `CalmSpec`, `Favorites` implements `FavoriteSet`.
* `FirebaseServiceProofs`. `PagingInv`: what was delivered is an initial interval, a cursor
  is its length or gone, a query that is out starts at its podcast's cursor, and at most one
  is out. It gives `Paging` and `OneQuery`; with `CompleteInv` and no cache, `OnlineComplete`
  and `ServiceIsFeed`: the service implements `EpisodeFeed`.
* `PodcastScreenProofs`, in four parts.
  - `ScreenInv`: whoever sees a list has `currentIndex` inside the pages, and only who sees a
    list has a query out. `LoadMoreInRange` alone is not inductive: before the first list,
    `currentIndex` does run past the pages. It gives `AnswerInRange`, `ScreenPaging`, the
    type invariant, and `SafeOnceShown`: with a list on the screen, only an empty first page
    of another podcast can still trap. With `CompleteInv` and no cache it gives
    `ScreenComplete` and `ScreenIsFeed`: whenever the gestures make the screen ask, what it
    is handed is an `EpisodeFeed`.
  - `PlacedInv`: every place of a page holds a delivered episode, every delivered episode has
    a place, no two places hold the same. `EveryEpisodePlacedOnce` only counts; to keep the
    count through an answer one must know that the episodes it adds are on no page yet and
    that none leaves its place. `StepPlaces` says so of every step: it adds the episodes an
    answer hands over behind the last entry of one page (`Adds`), or it touches neither pages
    nor deliveries. This gives `PlacedOnce` under `Spec`, with late, failed and cached
    answers, and the action property `NothingMoves`.
  - `OwnerInv`: there are as many pages as podcasts that have arrived, each of one of them,
    and no two of the same (`OnePagePerPodcast`, under `Spec`). A finite set of podcasts is
    assumed: `Cardinality` says nothing of another.
  - `CalmInv` (a user who waits): while first pages are out, `currentIndex` counts them and the
    screen is as it came up (`Waiting`); once there is a page for each podcast, list, page
    control and carousel follow `currentIndex` and the query that is out is one of the list on
    the screen (`Agreeing`). `AgreesOnceThere` needs only `PageForEach`, as many podcasts as
    the screen counts before it shows the first (`currentIndex == 6` in the code): errors and
    the cache may come all along, but it speaks only of the time when all first pages are
    there. `AllArrive` adds what makes them all come, as in the run `screen_calm`: online, no
    errors, no empty podcast. Under it `EverythingAgrees` (`CalmScreen`),
    `PageListsOwnPodcast` (`CalmPages`) and `NoTrap` (`CalmSafe`) hold from the start, and so
    does `FirstPageShown` (`ListShown`), which `screen_first` refutes. None of the conditions
    can go: a first page that fails, is missing or is one too many leaves `currentIndex`
    beside the page that is shown, an empty one traps.
* `FirestoreGetProofs`. `GetTypeCorrect`; `ConnectionInv`, in which the three properties of
  stream and tracker need each other (a start that finds the timer running would be an
  error, and that it does not is what `IdleWithoutTarget` and the removal of the last target
  see to), gives `TrackerSafe`, `CredentialsSafe`, `IdleSafe`; `Registries` is inductive on
  its own.
* `FirestoreAnswerProofs`. `AnswerInv` says what a get has before and after its answer: it is
  muted and about to be taken off or off already, or an error was the last it heard; an error
  is always the last event. It gives `NoneLeft` and the refinement `ImplementsGetOnce`.
  `SyncInv` adds that the last request for a target on an open stream is that of its present
  listen: with the exact count of missing answers, what is read while none is missing
  belongs to that listen. It gives `CountExact` and `SyncedRight`. `NoneForgotten` proves
  `NoGetForgotten`, the safety half of `EveryGetAnswered`, from four more invariants: who
  listens has a stream that was started (`StartedInv`, by `IdleWithoutTarget`); who counts as
  told is registered, and offline everyone has been told (`OfflineInv`); a get without an
  answer is on its way in, or an event to it is, or it is registered and untold (`WaitInv`);
  on an open stream a refused target has its refusal to come, and a target the server has
  caught up with is marked current, so that the next snapshot syncs it (`AskedInv`).
* `HomeScreenProofs`. `SwitchInv`: a switch that is on stands at its end even while it is
  being dragged, as the gesture leaves it alone. `CellInv`: a cell without its picture has
  that picture's download under way, or it may have failed. They give the four properties.
* `FavoriteTabsProofs`. `TabsInv` adds that who is on the screen has seen the list appear,
  and `PressesAreLate`: a press that is under way while the list can be seen was so when the
  list was read, as the list itself has no heart. `ListOnScreenIsCurrent` needs it: without it
  a press could save under a list that does not know of it. `Turned` is the arithmetic of the
  two distances, for all widths.

Every invariant and every action property of the passing runs is a theorem, and so are the
refinements. Only model-checked are the three liveness properties (`HeartGetsRight`,
`EveryEpisodeArrives`, `EveryGetAnswered`), which are out of the prover's reach, as is all
that speaks of `ENABLED`: `NoGetForgotten` therefore spells out what its steps need. For
`EveryEpisodeArrives` the safety half is `OnlineComplete` with `OneQuery`: a podcast that is
not complete has its cursor, and the flag is up only while a query is out. For
`HeartGetsRight` it is `CalmHeart`: without a task the heart is right.

## 6. Not modelled

The description of the player, the player's views, transitions and loader (layout, no state
of their own); play, pause and seek (stubs); helpers on strings, images and colours,
generated code; `fetchOneEpisodeFirebase`, `PlayerObserver`, `EpisodeSaved`, `PodcastSaved`
and the page controller's data source (unused); the start of the application.

Two things the code does that no document speaks of, and that therefore no run refutes:
a press that overtakes the check of a player that has just opened may have its heart
overwritten by the check's answer (`Spec` of `Favorites` has the steps; `HeartMatchesContext`
and `HeartGetsRight` are claimed for `CalmSpec` only), and a press whose Task saves after the
dismissal has read the list is missing in it until the list is read again (in `FavoriteTabs`,
where `late` names these episodes and `ListOnScreenIsCurrent` says that no other is wrong).

The yellow line, which `animationTransitionTitle` calls "showing the selected element", is not
exactly under it: under the second title it is off by half of what bold adds to the first, and
each round trip adds half the difference of the two gains, a quarter of a point with the
widths above. `TitleAgrees` states this drift instead of denying it.

That the favourites page comes back under the see-later title when the tab is left and
entered again (`viewWillAppear` resets the page and not `currentIndex`) is in `FavoriteTabs`;
no document of the repository says which of the two should follow the other.

Of the Firestore client: writes and their stream, limbo documents, existence filters, the
local store and its garbage collection, the contents of documents, `disableNetwork`, shutdown
and change of user, a server that ends the stream with status OK. Two branches are left out
because they only take behaviour away or belong to what is left out: `OnWatchStreamChange`
raises no snapshot older than the last (the model's server sends none), and the target change
RESET, which drops the target's documents and its `current_` mark. The application writes
nothing, keeps no listener and never touches the network switch. The other Pods (gRPC,
BoringSSL, abseil, leveldb and the rest, by far the most lines of the repository) are
libraries below that client; what they do reaches the application only as the streams and
answers that `FirestoreGet` leaves open, and much of them is generated or tables. So the
modelled share of all lines under `src` stays small.

## 7. Plan

Done, in this order: favourites, paging, the podcast screen over it, the home screen, the
favourites screen; the Firestore client below the paging; three abstract specifications with
their refinements, checked and proved; inductive invariants for every module, and with them
every safety property of the passing runs. Next:

1. An abstract specification of the podcast screen for a user who waits (a selected podcast
   and lists that only grow), refined by `PodcastScreen` under `AllArrive`: `EverythingAgrees`,
   `NothingMoves` and `ScreenIsFeed` are its parts.
2. What a waiting user still sees agree after a first page has failed: carousel and page
   control, although not the list.
3. Limbo documents and existence filters, should the application begin to keep listeners.
