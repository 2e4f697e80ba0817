---------------------------- MODULE PodcastScreen ----------------------------
(***************************************************************************)
(* PodcastViewController: a carousel of podcasts above one list of         *)
(* episodes per podcast, fed by FirebaseService through PodcastPageModel.  *)
(*                                                                         *)
(* Everything runs on the main thread, but the gestures of the user fall   *)
(* between the answers.  currentIndex counts the first pages that have     *)
(* arrived and, from the sixth on, names the selected podcast; the same    *)
(* variable serves both, and the answers to loadMoreData are put where it  *)
(* points when they arrive.  Indexes of the code count from 0, sequences   *)
(* of TLA+ from 1.                                                         *)
(***************************************************************************)
EXTENDS FirebaseService

CONSTANTS
    NumberOfPages,   \* the 6 of showPodcastAndEpisode and setupPageControl
    MaxIndex         \* bound: swipes stop once currentIndex is here

ASSUME ScreenAssumption ==
    /\ NumberOfPages \in Nat \ {0}
    /\ MaxIndex \in Nat

VARIABLES
    pages,          \* podcastEpisode and arrayPageListPodcast, appended together
    currentIndex,
    shown,          \* the page the page controller shows, 0 for the placeholder
    currentPage,    \* pageControl.currentPage
    target,         \* the cell that the carousel is sent to
    centre          \* the cell that is in its centre, on the way there

screenVars == <<pages, currentIndex, shown, currentPage, target, centre>>
vars == <<serviceVars, screenVars>>

PodcastPage == [podcast : Podcasts, episodes : Seq(Podcasts \X Nat)]

ScreenTypeOK ==
    /\ pages \in Seq(PodcastPage)
    /\ currentIndex \in Nat
    /\ shown \in 0 .. Len(pages)
    /\ currentPage \in 0 .. NumberOfPages - 1
    /\ target \in Nat
    /\ centre \in Nat

\* The service below and the screen: a page that is shown is one of the pages, and
\* the page control stands on one of its dots.
TypeOK == ServiceTypeOK /\ ScreenTypeOK

\* viewDidLoad, with the placeholder page on the screen.
ScreenInit ==
    /\ pages = <<>>
    /\ currentIndex = 0
    /\ shown = 0
    /\ currentPage = 0
    /\ target = 0
    /\ centre = 0

------------------------------------------------------------------------------
\* The answers

Labelled(p, page) == [i \in 1 .. Len(page) |-> <<p, page[i]>>]

\* What an answer added to the episodes delivered for p.
Fresh(p) == SubSeq(delivered'[p], Len(delivered[p]) + 1, Len(delivered'[p]))

\* Mutant of ShowPodcastAndEpisode: currentIndex is not reset.
ShowPodcastAndEpisodeAtEnd(p) ==
    /\ pages' = Append(pages, [podcast |-> p, episodes |-> Labelled(p, Fresh(p))])
    /\ IF currentIndex + 1 = NumberOfPages THEN shown' = 1 ELSE UNCHANGED shown
    /\ currentIndex' = currentIndex + 1
    /\ UNCHANGED <<currentPage, target, centre>>

\* showPodcastAndEpisode, on the first page of p.  The guard and the reload of
\* the carousel change nothing here; the page control is not touched.
ShowPodcastAndEpisode(p) ==
    /\ pages' = Append(pages, [podcast |-> p, episodes |-> Labelled(p, Fresh(p))])
    /\ IF currentIndex + 1 = NumberOfPages
       THEN shown' = 1 /\ currentIndex' = 0
       ELSE currentIndex' = currentIndex + 1 /\ UNCHANGED shown
    /\ UNCHANGED <<currentPage, target, centre>>

\* Mutant of LoadMoreEpisode: the last page instead of the selected one.
LoadMoreEpisodeOfLast(p) ==
    /\ pages' = [pages EXCEPT ![Len(pages)].episodes = @ \o Labelled(p, Fresh(p))]
    /\ shown' = currentIndex + 1
    /\ UNCHANGED <<currentIndex, currentPage, target, centre>>

\* Mutant of LoadMoreEpisode: the new page replaces the old ones.
LoadMoreEpisodeOnly(p) ==
    /\ pages' = [pages EXCEPT ![currentIndex + 1].episodes = Labelled(p, Fresh(p))]
    /\ shown' = currentIndex + 1
    /\ UNCHANGED <<currentIndex, currentPage, target, centre>>

\* loadMoreEpisode, on a further page of p: it goes to the page at currentIndex,
\* which is then shown.  An index past the last page traps.
LoadMoreEpisode(p) ==
    /\ pages' = [pages EXCEPT ![currentIndex + 1].episodes =
                    @ \o Labelled(p, Fresh(p))]
    /\ shown' = currentIndex + 1
    /\ UNCHANGED <<currentIndex, currentPage, target, centre>>

FirstPageArrives(p) ==
    /\ FirstAnswer(p)
    /\ IF trapped' THEN UNCHANGED screenVars ELSE ShowPodcastAndEpisode(p)

\* After the trap of an index out of range nothing is left to say of the rest.
NextPageArrives(r) ==
    IF currentIndex < Len(pages)
    THEN LoadAnswer(r) /\ LoadMoreEpisode(request[r].podcast)
    ELSE /\ request[r] # Free
         /\ ~trapped
         /\ trapped' = TRUE
         /\ UNCHANGED <<list, first, arrayLastDocument, isLoading, request, delivered,
                        cached, screenVars>>

------------------------------------------------------------------------------
\* The gestures

Show(index) ==
    /\ shown' = index + 1
    /\ currentPage' = Least(index, NumberOfPages - 1)

\* positionCellWithIdexPath, with previous() and next() in it: the carousel goes
\* to the cell (or back to the start, if there is none), the page controller
\* moves by one page, and currentIndex becomes the cell's.
PositionCell(cell) ==
    /\ ~trapped
    /\ target' = IF cell < Len(pages) THEN cell ELSE 0
    /\ currentIndex' = cell
    /\ \/ cell < currentIndex /\ currentIndex <= Len(pages) /\ Show(currentIndex - 1)
       \/ cell > currentIndex /\ currentIndex + 1 < Len(pages) /\ Show(currentIndex + 1)
       \/ cell > currentIndex /\ currentIndex + 1 >= Len(pages)
             /\ UNCHANGED <<shown, currentPage>>
       \/ cell = currentIndex /\ UNCHANGED <<shown, currentPage>>
    /\ UNCHANGED <<pages, centre, serviceVars>>

\* previous() indexes arrayPageListPodcast past its end.
PositionCellTraps(cell) ==
    /\ ~trapped
    /\ cell < currentIndex
    /\ currentIndex > Len(pages)
    /\ trapped' = TRUE
    /\ UNCHANGED <<list, first, arrayLastDocument, isLoading, request, delivered,
                   cached, screenVars>>

\* Mutant of SwipeLeftToRight: no guard.
SwipeLeftToRightPastStart ==
    PositionCell(currentIndex - 1) \/ PositionCellTraps(currentIndex - 1)

SwipeLeftToRight ==
    /\ currentIndex # 0
    /\ PositionCell(currentIndex - 1) \/ PositionCellTraps(currentIndex - 1)

\* Mutant of SwipeRightToLeft: count in the place of count - 1.
SwipeRightToLeftPastEnd ==
    /\ currentIndex < MaxIndex
    /\ currentIndex # Len(pages)
    /\ PositionCell(currentIndex + 1)

SwipeRightToLeft ==
    /\ currentIndex < MaxIndex
    /\ currentIndex + 1 # Len(pages)
    /\ PositionCell(currentIndex + 1)

\* didSelectItemAt: the cell in the centre and its neighbours can be touched.
SelectItem(cell) ==
    /\ cell < Len(pages)
    /\ cell <= centre + 1 /\ centre <= cell + 1
    /\ PositionCell(cell) \/ PositionCellTraps(cell)

\* setContentOffset(animated: true) under way.
CarouselMoves ==
    /\ ~trapped
    /\ centre # target
    /\ centre' = IF centre < target THEN centre + 1 ELSE centre - 1
    /\ UNCHANGED <<serviceVars, pages, currentIndex, shown, currentPage, target>>

\* The list on the screen reaches its bottom and asks for its own podcast; the
\* placeholder asks for the podcast "", which has no cursor.
ScrollToBottom ==
    /\ shown # 0
    /\ LoadMoreData(pages[shown].podcast)
    /\ UNCHANGED screenVars

------------------------------------------------------------------------------
Answers ==
    \/ (FetchPodcastList \/ FetchPodcastListError) /\ UNCHANGED screenVars
    \/ \E p \in Podcasts :
          \/ FirstPageArrives(p)
          \/ FirstError(p) /\ UNCHANGED screenVars
    \/ \E r \in Requests :
          \/ NextPageArrives(r)
          \/ LoadError(r) /\ UNCHANGED screenVars

Gestures ==
    \/ SwipeLeftToRight
    \/ SwipeRightToLeft
    \/ \E cell \in 0 .. Len(pages) : SelectItem(cell)
    \/ ScrollToBottom

Init == ServiceInit /\ ScreenInit

Next == Answers \/ CarouselMoves \/ Gestures
Spec == Init /\ [][Next]_vars

\* A user who waits: no gesture before everything asked for has arrived and the
\* carousel stands still.
Settled ==
    /\ list = "done"
    /\ \A p \in Podcasts : first[p] # "asked"
    /\ \A r \in Requests : request[r] = Free
    /\ centre = target
CalmNext == Answers \/ CarouselMoves \/ (Settled /\ Gestures)
CalmSpec == Init /\ [][CalmNext]_vars

------------------------------------------------------------------------------
\* Properties

\* Every episode that was delivered stands on the screen's pages exactly once:
\* swipes, late answers and a wandering currentIndex may misplace episodes, but
\* they neither lose nor double one.
Places(e) ==
    UNION {{<<k, i>> : i \in {j \in DOMAIN pages[k].episodes : pages[k].episodes[j] = e}}
             : k \in DOMAIN pages}
EveryEpisodePlacedOnce ==
    \A p \in Podcasts : \A n \in 1 .. Len(delivered[p]) :
        Cardinality(Places(<<p, n>>)) = 1

\* The answer to loadMoreData, which uses currentIndex without a check, always
\* finds a page there: whoever swipes too far in the empty carousel cannot ask
\* for more, and no gesture leads from a list back out of range.
LoadMoreInRange ==
    \A r \in Requests : request[r] # Free => currentIndex < Len(pages)

\* Once a list is on the screen, nothing traps any more but an empty first page of
\* another podcast (documents.last! in fetchEpisode): from there on no swipe, touch
\* or answer, however they race, brings currentIndex out of the range in which
\* previous() and loadMoreEpisode use it.  Before the first list they may.
TrapsOnlyOnEmptyFirst ==
    shown # 0 /\ trapped' => trapped \/ \E p \in Podcasts : FirstAnswer(p)
TrapFreeOnceShown == [][TrapsOnlyOnEmptyFirst]_vars

\* A page lists episodes of its own podcast only, in the server's order.
PageListsOwnPodcast ==
    \A k \in 1 .. Len(pages) :
        LET p == pages[k].podcast
        IN  pages[k].episodes = Labelled(p, delivered[p])

\* Once all the first pages are there, the list on the screen, the page control
\* and the carousel all show the selected podcast.
EverythingAgrees ==
    Settled =>
        /\ shown = currentIndex + 1
        /\ currentPage = currentIndex
        /\ centre = currentIndex

\* When everything asked for has been answered, the episodes are on the screen.
FirstPageShown ==
    Settled /\ pages # <<>> => shown # 0

\* The screen never indexes its pages out of range.
NoTrap == ~trapped
==============================================================================
