------------------------- MODULE PodcastScreenProofs -------------------------
(***************************************************************************)
(* For every catalogue, page size, number of pages and number of requests: *)
(* how the podcast screen keeps the order of FirebaseService, where the    *)
(* episodes stand on its pages, and what a user who waits sees agree.      *)
(***************************************************************************)
EXTENDS PodcastScreen, FirebaseServiceProofs, FiniteSetTheorems

\* Whoever sees a list has currentIndex inside the pages, and only who sees a list
\* has asked for more.  Before the first list is shown, currentIndex may run
\* ahead of the pages: the guard of swipeRightToLeft only stops at the last one.
RangeInv ==
    /\ shown # 0 => currentIndex < Len(pages)
    /\ \A r \in Requests : request[r] # Free => shown # 0

ScreenInv == PagingInv /\ ScreenTypeOK /\ RangeInv

\* Labelled turns a page of documents into entries of a list.
LEMMA LabelledType ==
    ASSUME NEW p \in Podcasts, NEW page \in Seq(Nat)
    PROVE  Labelled(p, page) \in Seq(Podcasts \X Nat)
<1>1. Len(page) \in Nat /\ \A i \in 1 .. Len(page) : page[i] \in Nat
  BY LenProperties, ElementOfSeq
<1>2. Labelled(p, page) \in [1 .. Len(page) -> Podcasts \X Nat]
  BY <1>1 DEF Labelled
<1> QED
  BY <1>1, <1>2, SeqDef

\* The episodes an answer hands over are documents.
LEMMA FreshType ==
    ASSUME NEW p \in Podcasts, ServiceTypeOK, ServiceTypeOK'
    PROVE  Fresh(p) \in Seq(Nat)
<1>1. /\ delivered[p] \in Seq(Nat) /\ delivered'[p] \in Seq(Nat)
  BY DEF ServiceTypeOK
<1>2. \A i \in Len(delivered[p]) + 1 .. Len(delivered'[p]) : delivered'[p][i] \in Nat
  BY <1>1, LenProperties, ElementOfSeq
<1> QED
  BY <1>1, <1>2, SubSeqProperties, LenProperties DEF Fresh

\* The screen comes up with the placeholder and nothing asked for.
LEMMA ScreenStarts == Init => ScreenInv
<1> SUFFICES ASSUME Init PROVE ScreenInv
  OBVIOUS
<1>1. PagingInv
  BY PagingInit DEF Init
<1>2. ScreenTypeOK
  BY ScreenAssumption DEF Init, ScreenInit, ScreenTypeOK
<1>3. RangeInv
  BY DEF Init, ScreenInit, ServiceInit, RangeInv
<1> QED
  BY <1>1, <1>2, <1>3 DEF ScreenInv

\* showPodcastAndEpisode adds a page: the range grows, and currentIndex with it
\* by one at most.
LEMMA ScreenFirstPage ==
    ASSUME ScreenInv, NEW p \in Podcasts, FirstPageArrives(p)
    PROVE  ScreenInv'
<1>1. PagingInv'
  BY PagingFirst DEF ScreenInv, FirstPageArrives
<1>2. request' = request
  BY DEF FirstPageArrives, FirstAnswer
<1>3. CASE trapped'
  BY <1>1, <1>2, <1>3
     DEF FirstPageArrives, ScreenInv, ScreenTypeOK, RangeInv, screenVars
<1>4. CASE ~trapped'
  <2> DEFINE page == [podcast |-> p, episodes |-> Labelled(p, Fresh(p))]
  <2>1. page \in PodcastPage
    BY <1>1, FreshType, LabelledType DEF ScreenInv, PagingInv, PodcastPage
  <2>2. pages' = Append(pages, page) /\ pages \in Seq(PodcastPage)
    BY <1>4 DEF FirstPageArrives, ShowPodcastAndEpisode, ScreenInv, ScreenTypeOK
  <2> HIDE DEF page
  <2>3. pages' \in Seq(PodcastPage) /\ Len(pages') = Len(pages) + 1 /\ Len(pages) \in Nat
    BY <2>1, <2>2, AppendProperties, LenProperties
  <2>4. \/ shown' = 1 /\ currentIndex' = 0
        \/ shown' = shown /\ currentIndex' = currentIndex + 1
    BY <1>4 DEF FirstPageArrives, ShowPodcastAndEpisode
  <2>5. UNCHANGED <<currentPage, target, centre>>
    BY <1>4 DEF FirstPageArrives, ShowPodcastAndEpisode
  <2>6. ScreenTypeOK'
    BY <2>3, <2>4, <2>5 DEF ScreenInv, ScreenTypeOK
  <2>7. RangeInv'
    BY <2>3, <2>4, <1>2 DEF ScreenInv, ScreenTypeOK, RangeInv
  <2> QED
    BY <1>1, <2>6, <2>7 DEF ScreenInv
<1> QED
  BY <1>3, <1>4

\* loadMoreEpisode finds a page at currentIndex and shows it.
LEMMA ScreenNextPage ==
    ASSUME ScreenInv, NEW r \in Requests, NextPageArrives(r)
    PROVE  ScreenInv'
<1>1. /\ request[r] # Free /\ shown # 0 /\ currentIndex < Len(pages)
      /\ currentIndex \in Nat /\ pages \in Seq(PodcastPage)
  BY DEF ScreenInv, ScreenTypeOK, RangeInv, NextPageArrives, LoadAnswer
<1>2. LoadAnswer(r) /\ LoadMoreEpisode(request[r].podcast)
  BY <1>1 DEF NextPageArrives
<1>3. PagingInv'
  BY <1>2, PagingAnswer DEF ScreenInv
<1>p. PICK p \in Podcasts : p = request[r].podcast
  BY <1>1 DEF ScreenInv, PagingInv, RequestInv
<1> DEFINE more == Labelled(p, Fresh(p))
<1>4. more \in Seq(Podcasts \X Nat)
  BY <1>3, FreshType, LabelledType DEF ScreenInv, PagingInv
<1>5. /\ pages' = [pages EXCEPT ![currentIndex + 1].episodes = @ \o more]
      /\ shown' = currentIndex + 1
      /\ UNCHANGED <<currentIndex, currentPage, target, centre>>
  BY <1>2, <1>p DEF LoadMoreEpisode
<1> HIDE DEF more
<1>6. pages' \in Seq(PodcastPage) /\ Len(pages') = Len(pages)
  <2> DEFINE i == currentIndex + 1
             old == pages[i]
             new == [old EXCEPT !.episodes = @ \o more]
  <2>1. i \in 1 .. Len(pages) /\ Len(pages) \in Nat
    BY <1>1, LenProperties
  <2>2. old \in PodcastPage
    BY <1>1, <2>1, ElementOfSeq
  <2>3. old.episodes \o more \in Seq(Podcasts \X Nat)
    BY <1>4, <2>2, ConcatProperties DEF PodcastPage
  <2>4. new \in PodcastPage
    BY <2>2, <2>3 DEF PodcastPage
  <2>5. pages' = [pages EXCEPT ![i] = new]
    BY <1>5
  <2> HIDE DEF i, old, new
  <2> QED
    BY <1>1, <2>1, <2>4, <2>5, ExceptSeq
<1>7. ScreenTypeOK'
  BY <1>1, <1>5, <1>6, LenProperties DEF ScreenInv, ScreenTypeOK
<1>8. RangeInv'
  BY <1>1, <1>5, <1>6 DEF RangeInv
<1> QED
  BY <1>3, <1>7, <1>8 DEF ScreenInv

\* previous() and next() show a page that exists, and once a list is shown a cell
\* inside the pages is the only one a gesture can lead to.
LEMMA ScreenPosition ==
    ASSUME ScreenInv, NEW cell \in Nat, PositionCell(cell),
           shown # 0 => cell < Len(pages),
           cell < Len(pages) \/ cell <= currentIndex + 1
    PROVE  ScreenInv'
<1>1. /\ UNCHANGED serviceVars /\ pages' = pages /\ centre' = centre
      /\ currentIndex' = cell
      /\ target' \in {cell, 0}
  BY DEF PositionCell
<1>2. PagingInv'
  BY <1>1 DEF ScreenInv, PagingInv, ServiceTypeOK, CursorInv, RequestInv, LoadingFlag,
              serviceVars
<1>3. /\ Len(pages) \in Nat /\ currentIndex \in Nat /\ shown \in 0 .. Len(pages)
      /\ currentPage \in 0 .. NumberOfPages - 1
  BY LenProperties DEF ScreenInv, ScreenTypeOK
<1>4. \/ cell < currentIndex /\ currentIndex <= Len(pages) /\ Show(currentIndex - 1)
      \/ cell > currentIndex /\ currentIndex + 1 < Len(pages) /\ Show(currentIndex + 1)
      \/ UNCHANGED <<shown, currentPage>>
  BY DEF PositionCell
<1>5. shown' \in 0 .. Len(pages) /\ currentPage' \in 0 .. NumberOfPages - 1
  BY <1>3, <1>4, ScreenAssumption DEF Show, Least
<1>6. (shown' # 0 => cell < Len(pages)) /\ (shown # 0 => shown' # 0)
  BY <1>3, <1>4 DEF Show
<1>7. ScreenTypeOK'
  BY <1>1, <1>3, <1>5 DEF ScreenInv, ScreenTypeOK
<1>8. RangeInv'
  BY <1>1, <1>6 DEF ScreenInv, RangeInv, serviceVars
<1> QED
  BY <1>2, <1>7, <1>8 DEF ScreenInv

\* Every step of the screen keeps the invariant.
LEMMA ScreenStep == ScreenInv /\ [Next]_vars => ScreenInv'
<1> SUFFICES ASSUME ScreenInv, [Next]_vars PROVE ScreenInv'
  OBVIOUS
<1>0. /\ currentIndex \in Nat /\ Len(pages) \in Nat /\ centre \in Nat /\ target \in Nat
      /\ pages \in Seq(PodcastPage) /\ shown \in 0 .. Len(pages)
      /\ shown # 0 => currentIndex < Len(pages)
  BY LenProperties DEF ScreenInv, ScreenTypeOK, RangeInv
<1>1. ASSUME PagingInv', UNCHANGED screenVars,
             \A r \in Requests : request'[r] # Free => request[r] # Free \/ shown # 0
      PROVE  ScreenInv'
  BY <1>1 DEF ScreenInv, ScreenTypeOK, RangeInv, screenVars
<1>2. CASE (FetchPodcastList \/ FetchPodcastListError) /\ UNCHANGED screenVars
  BY <1>1, <1>2, PagingList DEF ScreenInv, FetchPodcastList, FetchPodcastListError
<1>3. ASSUME NEW p \in Podcasts, FirstError(p) /\ UNCHANGED screenVars PROVE ScreenInv'
  BY <1>1, <1>3, PagingFirst DEF ScreenInv, FirstError
<1>4. ASSUME NEW r \in Requests, LoadError(r) /\ UNCHANGED screenVars PROVE ScreenInv'
  <2>1. PagingInv'
    BY <1>4, PagingError DEF ScreenInv
  <2>2. request' = [request EXCEPT ![r] = Free] /\ request \in [Requests -> Request]
    BY <1>4 DEF LoadError, ScreenInv, PagingInv, ServiceTypeOK
  <2> QED
    BY <1>1, <1>4, <2>1, <2>2
<1>5. CASE ScrollToBottom
  <2>1. pages[shown] \in PodcastPage /\ shown # 0
    BY <1>0, <1>5, ElementOfSeq DEF ScrollToBottom
  <2>2. PagingInv'
    BY <1>5, <2>1, PagingLoad DEF ScreenInv, ScrollToBottom, PodcastPage
  <2> QED
    BY <1>1, <1>5, <2>1, <2>2 DEF ScrollToBottom
<1>6. ASSUME NEW cell \in Nat, PositionCellTraps(cell) PROVE ScreenInv'
  <2>1. PagingInv' /\ UNCHANGED <<request, screenVars>>
    BY <1>6 DEF PositionCellTraps, ScreenInv, PagingInv, ServiceTypeOK, CursorInv,
                RequestInv, LoadingFlag
  <2> QED
    BY <1>1, <2>1
<1>7. CASE SwipeLeftToRight
  <2>1. currentIndex - 1 \in Nat /\ currentIndex - 1 < currentIndex
    BY <1>0, <1>7 DEF SwipeLeftToRight
  <2> QED
    BY <1>0, <1>6, <1>7, <2>1, ScreenPosition DEF SwipeLeftToRight
<1>8. CASE SwipeRightToLeft
  <2>1. /\ currentIndex + 1 \in Nat /\ PositionCell(currentIndex + 1)
        /\ shown # 0 => currentIndex + 1 < Len(pages)
    BY <1>0, <1>8 DEF SwipeRightToLeft
  <2> QED
    BY <2>1, ScreenPosition
<1>9. ASSUME NEW cell \in 0 .. Len(pages), SelectItem(cell) PROVE ScreenInv'
  <2>1. cell \in Nat /\ cell < Len(pages)
    BY <1>0, <1>9 DEF SelectItem
  <2> QED
    BY <1>6, <1>9, <2>1, ScreenPosition DEF SelectItem
<1>10. CASE CarouselMoves
  <2>1. PagingInv'
    BY <1>10 DEF CarouselMoves, ScreenInv, PagingInv, ServiceTypeOK, CursorInv,
                 RequestInv, LoadingFlag, serviceVars
  <2>2. centre' \in Nat
    BY <1>0, <1>10 DEF CarouselMoves
  <2> QED
    BY <1>10, <2>1, <2>2
       DEF CarouselMoves, ScreenInv, ScreenTypeOK, RangeInv, serviceVars
<1>11. CASE UNCHANGED vars
  BY <1>11 DEF vars, serviceVars, screenVars, ScreenInv, PagingInv, ServiceTypeOK,
               CursorInv, RequestInv, LoadingFlag, ScreenTypeOK, RangeInv
<1> QED
  BY <1>2, <1>3, <1>4, <1>5, <1>7, <1>8, <1>9, <1>10, <1>11,
     ScreenFirstPage, ScreenNextPage DEF Next, Answers, Gestures

\* Every variable of the screen and of the service below it keeps its type: the
\* page on the screen is one of the pages, and the page control stands on one of
\* its dots.
THEOREM ScreenTypeCorrect == Spec => []TypeOK
<1>1. ScreenInv => TypeOK
  BY DEF ScreenInv, PagingInv, TypeOK
<1> QED
  BY <1>1, ScreenStarts, ScreenStep, PTL DEF Spec

\* An answer to loadMoreData that is still out will find a page at currentIndex,
\* whatever is swiped, touched and answered meanwhile.
THEOREM AnswerInRange == Spec => []LoadMoreInRange
<1>1. ScreenInv => LoadMoreInRange
  BY DEF ScreenInv, RangeInv, LoadMoreInRange
<1> QED
  BY <1>1, ScreenStarts, ScreenStep, PTL DEF Spec

\* Composed with the screen, whose scrolling decides which podcast is asked for,
\* FirebaseService still hands over every podcast's episodes in order.
THEOREM ScreenPaging == Spec => [](NoGapNoRepeat /\ LoadingFlag)
<1>1. ScreenInv => NoGapNoRepeat /\ LoadingFlag
  BY DEF ScreenInv, PagingInv, CursorInv, NoGapNoRepeat, Upto
<1> QED
  BY <1>1, ScreenStarts, ScreenStep, PTL DEF Spec

\* Once a list is on the screen, no gesture and no further page traps any more,
\* however the user races the answers: the trap of an index out of range is one of
\* the empty carousel.
THEOREM SafeOnceShown == Spec => TrapFreeOnceShown
<1>1. ScreenInv /\ [Next]_vars => [TrapsOnlyOnEmptyFirst]_vars
  <2> SUFFICES ASSUME ScreenInv, [Next]_vars, shown # 0, trapped', ~trapped
               PROVE  \E p \in Podcasts : FirstAnswer(p)
    BY DEF TrapsOnlyOnEmptyFirst
  <2>1. currentIndex \in Nat /\ Len(pages) \in Nat /\ currentIndex < Len(pages)
    BY LenProperties DEF ScreenInv, ScreenTypeOK, RangeInv
  <2>2. CASE Answers
    BY <2>1, <2>2
       DEF Answers, FetchPodcastList, FetchPodcastListError, FirstPageArrives, FirstError,
           NextPageArrives, LoadAnswer, LoadError
  <2>3. ASSUME NEW cell, PositionCell(cell) \/ PositionCellTraps(cell) PROVE FALSE
    <3>1. ~PositionCellTraps(cell)
      BY <2>1 DEF PositionCellTraps
    <3>2. ~PositionCell(cell)
      BY DEF PositionCell, serviceVars
    <3> QED
      BY <2>3, <3>1, <3>2
  <2>4. CASE CarouselMoves \/ ScrollToBottom
    BY <2>4 DEF CarouselMoves, ScrollToBottom, LoadMoreData, serviceVars
  <2>5. CASE Gestures
    BY <2>3, <2>4, <2>5 DEF Gestures, SwipeLeftToRight, SwipeRightToLeft, SelectItem
  <2>6. CASE UNCHANGED vars
    BY <2>6 DEF vars, serviceVars
  <2> QED
    BY <2>2, <2>4, <2>5, <2>6 DEF Next
<1> QED
  BY <1>1, ScreenStarts, ScreenStep, PTL DEF Spec, TrapFreeOnceShown

------------------------------------------------------------------------------
\* The screen over the feed

\* A step of the screen is one of the service, or it moves neither a cursor nor an
\* episode.
LEMMA ServiceStep ==
    [Next]_vars =>
        \/ [ServiceNext \/ AtRest]_serviceVars
        \/ UNCHANGED <<delivered, arrayLastDocument>>
<1> SUFFICES ASSUME [Next]_vars, ~UNCHANGED <<delivered, arrayLastDocument>>
             PROVE  ServiceNext
  OBVIOUS
<1>1. CASE Answers
  BY <1>1 DEF Answers, FirstPageArrives, NextPageArrives, ServiceNext, Callback
<1>2. ASSUME NEW cell, PositionCell(cell) \/ PositionCellTraps(cell) PROVE FALSE
  BY <1>2 DEF PositionCell, PositionCellTraps, serviceVars
<1>3. CASE CarouselMoves \/ ScrollToBottom
  BY <1>3 DEF CarouselMoves, ScrollToBottom, LoadMoreData, serviceVars
<1>4. CASE Gestures
  BY <1>2, <1>3, <1>4 DEF Gestures, SwipeLeftToRight, SwipeRightToLeft, SelectItem
<1>5. CASE UNCHANGED vars
  BY <1>5 DEF vars, serviceVars
<1> QED
  BY <1>1, <1>3, <1>4, <1>5 DEF Next

\* The screen's steps keep what the service's steps keep.
LEMMA ScreenCompleteStep ==
    ASSUME Offline = FALSE
    PROVE  ScreenInv /\ CompleteInv /\ [Next]_vars => CompleteInv'
<1> SUFFICES ASSUME ScreenInv, CompleteInv, [Next]_vars PROVE CompleteInv'
  OBVIOUS
<1>1. CASE UNCHANGED <<delivered, arrayLastDocument>>
  BY <1>1 DEF CompleteInv
<1> QED
  BY <1>1, ServiceStep, CompleteStep DEF ScreenInv

\* Online, a list of the screen that asks for no more shows its whole podcast.
THEOREM ScreenComplete ==
    ASSUME Offline = FALSE
    PROVE  Spec => []EndedMeansComplete
<1>1. CompleteInv => EndedMeansComplete
  BY DEF CompleteInv, EndedMeansComplete
<1>2. Init => CompleteInv
  BY CompleteInit DEF Init
<1> QED
  BY <1>1, <1>2, ScreenStarts, ScreenStep, ScreenCompleteStep, PTL DEF Spec

\* Online, whatever is swiped, touched and scrolled, the screen's own use of
\* FirebaseService implements EpisodeFeed: its lists grow by full pages up to the
\* end of each podcast.
THEOREM ScreenIsFeed ==
    ASSUME Offline = FALSE
    PROVE  Spec => FeedsEpisodes
<1>1. Init => CompleteInv
  BY CompleteInit DEF Init
<1>2. Init => Feed!Init
  <2> SUFFICES ASSUME Init PROVE Feed!Init
    OBVIOUS
  <2>1. \A p \in Podcasts : delivered[p] = <<>> /\ Len(delivered[p]) = 0
    BY UptoNothing DEF Init, ServiceInit
  <2> QED
    BY <2>1 DEF Feed!Init
<1>3. ScreenInv /\ CompleteInv /\ [Next]_vars => [Feed!Next]_(Feed!feedVars)
  <2> SUFFICES ASSUME ScreenInv, CompleteInv, [Next]_vars
               PROVE  [Feed!Next]_(Feed!feedVars)
    OBVIOUS
  <2>1. CASE UNCHANGED <<delivered, arrayLastDocument>>
    BY <2>1 DEF Feed!feedVars
  <2> QED
    BY <2>1, ServiceStep, FeedStep DEF ScreenInv
<1> QED
  BY <1>1, <1>2, <1>3, ScreenStarts, ScreenStep, ScreenCompleteStep, PTL
     DEF Spec, FeedsEpisodes, Feed!Spec

------------------------------------------------------------------------------
\* Where the episodes stand

\* The i-th entry of the k-th page.
Stands(k, i) == k \in 1 .. Len(pages) /\ i \in 1 .. Len(pages[k].episodes)
Entry(k, i) == pages[k].episodes[i]

\* Only delivered episodes stand on the pages, every delivered one does, and no
\* two places hold the same one.
PlacedInv ==
    /\ \A k, i \in Nat : Stands(k, i) =>
          \E p \in Podcasts : \E n \in 1 .. Len(delivered[p]) : Entry(k, i) = <<p, n>>
    /\ \A p \in Podcasts : \A n \in 1 .. Len(delivered[p]) :
          \E k, i \in Nat : Stands(k, i) /\ Entry(k, i) = <<p, n>>
    /\ \A k, i, l, j \in Nat :
          Stands(k, i) /\ Stands(l, j) /\ Entry(k, i) = Entry(l, j) => k = l /\ i = j

\* An answer hands over m more episodes of p after the first d: `more' are their
\* entries.
Hands(p, d, m, more) ==
    /\ d \in Nat /\ m \in Nat /\ d = Len(delivered[p])
    /\ more \in Seq(Podcasts \X Nat) /\ Len(more) = m
    /\ more = [i \in 1 .. m |-> <<p, d + i>>]
    /\ delivered'[p] = Upto(d + m) /\ Len(delivered'[p]) = d + m
    /\ \A q \in Podcasts : Len(delivered[q]) \in Nat
    /\ \A q \in Podcasts : q # p => delivered'[q] = delivered[q]

\* The places added are those after the o-th of the K-th page, and hold `more'.
Adds(K, o, more) ==
    /\ K \in Nat /\ o \in Nat
    /\ \A k, i \in Nat : Stands(k, i) => Stands(k, i)' /\ Entry(k, i)' = Entry(k, i)
    /\ \A i \in 1 .. Len(more) : Stands(K, o + i)' /\ Entry(K, o + i)' = more[i]
    /\ \A k, i \in Nat :
          Stands(k, i)' => Stands(k, i) \/ (k = K /\ i - o \in 1 .. Len(more))

\* A first page becomes the K-th page, behind the others.
Opens(p, K, more) ==
    /\ K = Len(pages) + 1 /\ Len(pages') = K
    /\ \A k \in 1 .. Len(pages) : pages'[k] = pages[k]
    /\ pages'[K] = [podcast |-> p, episodes |-> more]
    /\ delivered[p] = <<>> /\ delivered'[p] # <<>>

\* A further page goes to the end of the K-th page, the one at currentIndex.
Extends(p, K, more) ==
    /\ K \in 1 .. Len(pages) /\ K = currentIndex + 1 /\ Len(pages') = Len(pages)
    /\ \A k \in 1 .. Len(pages) : pages'[k].podcast = pages[k].podcast
    /\ \A k \in 1 .. Len(pages) : k # K => pages'[k] = pages[k]
    /\ pages'[K].episodes = pages[K].episodes \o more
    /\ delivered[p] # <<>> /\ delivered'[p] # <<>>

\* The episodes an answer hands over for p are placed.
PlacedFirst(p) ==
    \E d, m, K, o \in Nat : \E more \in Seq(Podcasts \X Nat) :
        d = 0 /\ Hands(p, d, m, more) /\ Adds(K, o, more) /\ Opens(p, K, more)
PlacedNext(p) ==
    \E d, m, K, o \in Nat : \E more \in Seq(Podcasts \X Nat) :
        Hands(p, d, m, more) /\ Adds(K, o, more) /\ Extends(p, K, more)
Placed(p) == PlacedFirst(p) \/ PlacedNext(p)

\* The end of an initial interval.
LEMMA UptoTail ==
    ASSUME NEW d \in Nat, NEW m \in Nat
    PROVE  /\ SubSeq(Upto(d + m), d + 1, d + m) \in Seq(Nat)
           /\ Len(SubSeq(Upto(d + m), d + 1, d + m)) = m
           /\ \A i \in 1 .. m : SubSeq(Upto(d + m), d + 1, d + m)[i] = d + i
<1> DEFINE u == Upto(d + m)
<1>1. \A i \in 1 .. d + m : u[i] = i
  BY DEF Upto
<1>2. \A i \in d + 1 .. d + m : u[i] \in Nat
  BY <1>1
<1> HIDE DEF u
<1> DEFINE t == SubSeq(u, d + 1, d + m)
<1>3. /\ t \in Seq(Nat)
      /\ Len(t) = IF d + 1 <= d + m THEN d + m - (d + 1) + 1 ELSE 0
      /\ \A i \in 1 .. d + m - (d + 1) + 1 : t[i] = u[d + 1 + i - 1]
  BY <1>2, SubSeqProperties
<1> HIDE DEF t
<1>4. Len(t) = m
  BY <1>3
<1>5. \A i \in 1 .. m : t[i] = d + i
  BY <1>1, <1>3
<1> QED
  BY <1>3, <1>4, <1>5 DEF t, u

\* An answer goes on where its podcast stands and leaves the others alone.
LEMMA FreshEntries ==
    ASSUME PagingInv, NEW p \in Podcasts, NEW d \in Nat, d = Len(delivered[p]),
           NEW upto \in Nat, NEW m, m = PageLength(d, upto),
           delivered' = [delivered EXCEPT ![p] = @ \o Page(d, upto)]
    PROVE  Hands(p, d, m, Labelled(p, Fresh(p)))
<1>1. /\ delivered \in [Podcasts -> Seq(Nat)] /\ delivered[p] = Upto(d)
  BY DEF PagingInv, ServiceTypeOK, CursorInv
<1>2. m \in Nat /\ Upto(d) \o Page(d, upto) = Upto(d + m)
  BY PageContinues
<1>3. delivered'[p] = Upto(d + m)
  BY <1>1, <1>2
<1>4. d + m \in Nat
  BY <1>2
<1>5. delivered'[p] \in Seq(Nat) /\ Len(delivered'[p]) = d + m
  BY <1>3, <1>4, PageContinues
<1> DEFINE f == Fresh(p)
<1>6. f \in Seq(Nat) /\ Len(f) = m /\ \A i \in 1 .. m : f[i] = d + i
  <2>1. f = SubSeq(Upto(d + m), d + 1, d + m)
    BY <1>3, <1>5 DEF Fresh
  <2> HIDE DEF f
  <2>2. m \in Nat
    BY <1>2
  <2>3. /\ SubSeq(Upto(d + m), d + 1, d + m) \in Seq(Nat)
        /\ Len(SubSeq(Upto(d + m), d + 1, d + m)) = m
        /\ \A i \in 1 .. m : SubSeq(Upto(d + m), d + 1, d + m)[i] = d + i
    BY <2>2, UptoTail
  <2> QED
    BY <2>1, <2>3
<1>7. /\ Labelled(p, Fresh(p)) \in Seq(Podcasts \X Nat)
      /\ Labelled(p, Fresh(p)) = [i \in 1 .. m |-> <<p, d + i>>]
  BY <1>6, LabelledType DEF Labelled
<1>8. Len(Labelled(p, Fresh(p))) = m
  BY <1>2, <1>7
<1>9. \A q \in Podcasts : Len(delivered[q]) \in Nat
  BY <1>1, LenProperties
<1>10. \A q \in Podcasts : q # p => delivered'[q] = delivered[q]
  BY <1>1
<1> QED
  BY <1>2, <1>3, <1>5, <1>7, <1>8, <1>9, <1>10 DEF Hands

\* Adding the next m episodes of p at free places keeps the places in order.
LEMMA PlacedGrows ==
    ASSUME PlacedInv, NEW p \in Podcasts, NEW d \in Nat, NEW m \in Nat, NEW more,
           NEW K \in Nat, NEW o \in Nat,
           Hands(p, d, m, more), Adds(K, o, more)
    PROVE  PlacedInv'
<1>h. /\ Len(delivered[p]) = d /\ Len(delivered'[p]) = d + m
      /\ \A q \in Podcasts : Len(delivered[q]) \in Nat
      /\ \A q \in Podcasts : q # p => delivered'[q] = delivered[q]
  BY DEF Hands
<1>a. /\ \A k, i \in Nat : Stands(k, i) => Stands(k, i)' /\ Entry(k, i)' = Entry(k, i)
      /\ \A i \in 1 .. m : Stands(K, o + i)' /\ Entry(K, o + i)' = <<p, d + i>>
      /\ \A k, i \in Nat :
            Stands(k, i)' => Stands(k, i) \/ (k = K /\ i - o \in 1 .. m)
  <2>1. Len(more) = m /\ \A i \in 1 .. m : more[i] = <<p, d + i>>
    BY DEF Hands
  <2> QED
    BY <2>1 DEF Adds
<1> USE <1>h, <1>a
<1>1. \A q \in Podcasts : \A n \in 1 .. Len(delivered'[q]) :
         n \in 1 .. Len(delivered[q]) \/ (q = p /\ n - d \in 1 .. m)
  <2> SUFFICES ASSUME NEW q \in Podcasts, NEW n \in 1 .. Len(delivered'[q])
               PROVE  n \in 1 .. Len(delivered[q]) \/ (q = p /\ n - d \in 1 .. m)
    OBVIOUS
  <2>1. CASE q = p
    BY <2>1
  <2>2. CASE q # p
    BY <2>2
  <2> QED
    BY <2>1, <2>2
<1>2. \A q \in Podcasts : \A n \in 1 .. Len(delivered[q]) : n \in 1 .. Len(delivered'[q])
  <2> SUFFICES ASSUME NEW q \in Podcasts, NEW n \in 1 .. Len(delivered[q])
               PROVE  n \in 1 .. Len(delivered'[q])
    OBVIOUS
  <2>1. CASE q = p
    BY <2>1
  <2>2. CASE q # p
    BY <2>2
  <2> QED
    BY <2>1, <2>2
\* A new place holds a new episode.
<1>3. ASSUME NEW k \in Nat, NEW i \in Nat, Stands(k, i)'
      PROVE  \/ Stands(k, i) /\ Entry(k, i)' = Entry(k, i)
             \/ /\ ~Stands(k, i) /\ k = K
                /\ i - o \in 1 .. m /\ Entry(k, i)' = <<p, d + (i - o)>>
  <2>1. CASE Stands(k, i)
    BY <2>1
  <2>2. CASE ~Stands(k, i)
    <3>1. k = K /\ i - o \in 1 .. m
      BY <1>3, <2>2
    <3>2. o + (i - o) = i
      OBVIOUS
    <3>3. Entry(K, o + (i - o))' = <<p, d + (i - o)>>
      BY <3>1
    <3> QED
      BY <2>2, <3>1, <3>2, <3>3
  <2> QED
    BY <2>1, <2>2
<1>4. \A k, i \in Nat : Stands(k, i) =>
         \A x \in 1 .. m : Entry(k, i) # <<p, d + x>>
  <2> SUFFICES ASSUME NEW k \in Nat, NEW i \in Nat, Stands(k, i), NEW x \in 1 .. m
               PROVE  Entry(k, i) # <<p, d + x>>
    OBVIOUS
  <2>0. PICK q \in Podcasts :
           \E n \in 1 .. Len(delivered[q]) : Entry(k, i) = <<q, n>>
    BY DEF PlacedInv
  <2>1. PICK n \in 1 .. Len(delivered[q]) : Entry(k, i) = <<q, n>>
    BY <2>0
  <2>2. q = p => n # d + x
    OBVIOUS
  <2> QED
    BY <2>1, <2>2
<1>5. \A k, i \in Nat : Stands(k, i)' =>
         \E q \in Podcasts : \E n \in 1 .. Len(delivered'[q]) : Entry(k, i)' = <<q, n>>
  <2> SUFFICES ASSUME NEW k \in Nat, NEW i \in Nat, Stands(k, i)'
               PROVE  \E q \in Podcasts : \E n \in 1 .. Len(delivered'[q]) :
                         Entry(k, i)' = <<q, n>>
    OBVIOUS
  <2>1. CASE Stands(k, i) /\ Entry(k, i)' = Entry(k, i)
    BY <2>1, <1>2 DEF PlacedInv
  <2>2. CASE i - o \in 1 .. m /\ Entry(k, i)' = <<p, d + (i - o)>>
    <3>1. d + (i - o) \in 1 .. Len(delivered'[p])
      BY <2>2
    <3> QED
      BY <2>2, <3>1
  <2> QED
    BY <1>3, <2>1, <2>2
<1>6. \A q \in Podcasts : \A n \in 1 .. Len(delivered'[q]) :
         \E k, i \in Nat : Stands(k, i)' /\ Entry(k, i)' = <<q, n>>
  <2> SUFFICES ASSUME NEW q \in Podcasts, NEW n \in 1 .. Len(delivered'[q])
               PROVE  \E k, i \in Nat : Stands(k, i)' /\ Entry(k, i)' = <<q, n>>
    OBVIOUS
  <2>1. CASE n \in 1 .. Len(delivered[q])
    <3>1. PICK k \in Nat, i \in Nat : Stands(k, i) /\ Entry(k, i) = <<q, n>>
      BY <2>1 DEF PlacedInv
    <3> QED
      BY <3>1
  <2>2. CASE q = p /\ n - d \in 1 .. m
    <3>1. d + (n - d) = n /\ o + (n - d) \in Nat
      BY <2>2
    <3>2. Stands(K, o + (n - d))' /\ Entry(K, o + (n - d))' = <<p, d + (n - d)>>
      BY <2>2
    <3> QED
      BY <2>2, <3>1, <3>2
  <2> QED
    BY <1>1, <2>1, <2>2
<1> HIDE <1>h, <1>a
<1>7. \A k, i, l, j \in Nat :
         Stands(k, i)' /\ Stands(l, j)' /\ Entry(k, i)' = Entry(l, j)' => k = l /\ i = j
  <2> SUFFICES ASSUME NEW k \in Nat, NEW i \in Nat, NEW l \in Nat, NEW j \in Nat,
                      Stands(k, i)', Stands(l, j)', Entry(k, i)' = Entry(l, j)'
               PROVE  k = l /\ i = j
    OBVIOUS
  <2>1. CASE Stands(k, i) /\ Stands(l, j)
    BY <2>1, <1>a DEF PlacedInv
  <2>2. ASSUME NEW k1 \in Nat, NEW i1 \in Nat, NEW k2 \in Nat, NEW i2 \in Nat,
               Stands(k1, i1), ~Stands(k2, i2), Stands(k2, i2)'
        PROVE  Entry(k1, i1)' # Entry(k2, i2)'
    <3>1. i2 - o \in 1 .. m /\ Entry(k2, i2)' = <<p, d + (i2 - o)>>
      BY <1>3, <2>2
    <3>2. Entry(k1, i1)' = Entry(k1, i1)
      BY <2>2, <1>a
    <3>x. PICK x \in 1 .. m : x = i2 - o
      BY <3>1
    <3>3. Entry(k1, i1) # <<p, d + x>>
      BY <1>4, <2>2
    <3> QED
      BY <3>1, <3>2, <3>x, <3>3
  <2>3. Stands(k, i) <=> Stands(l, j)
    BY <2>2
  <2>4. CASE ~Stands(k, i) /\ ~Stands(l, j)
    <3>1. /\ k = K /\ l = K /\ i - o \in Nat /\ j - o \in Nat
          /\ <<p, d + (i - o)>> = <<p, d + (j - o)>>
      BY <2>4, <1>3
    <3> QED
      BY <3>1
  <2> QED
    BY <2>1, <2>2, <2>3, <2>4
<1> QED
  BY <1>5, <1>6, <1>7 DEF PlacedInv
\* A first page of its podcast has documents, or it traps.
LEMMA FirstDelivers ==
    ASSUME PagingInv, NEW p \in Podcasts, FirstAnswer(p), ~trapped'
    PROVE  \E d, m \in Nat : d = 0 /\ m > 0 /\ Hands(p, d, m, Labelled(p, Fresh(p)))
<1>1. PICK d \in Nat : d = 0
  OBVIOUS
<1>2. d = Len(delivered[p])
  BY <1>1, UptoNothing DEF PagingInv, CursorInv, FirstAnswer
<1>3. \A upto \in Sources(p) : upto \in Nat
  BY ServiceAssumption DEF Sources, PagingInv, ServiceTypeOK
<1>4. PICK upto \in Nat :
         /\ PageLength(d, upto) > 0
         /\ delivered' = [delivered EXCEPT ![p] = @ \o Page(d, upto)]
  BY <1>1, <1>3 DEF FirstAnswer
<1>5. PICK m : m = PageLength(d, upto)
  OBVIOUS
<1>6. Hands(p, d, m, Labelled(p, Fresh(p)))
  BY <1>2, <1>4, <1>5, FreshEntries
<1> QED
  BY <1>1, <1>4, <1>5, <1>6 DEF Hands

\* A further page continues its podcast.
LEMMA NextDelivers ==
    ASSUME PagingInv, NEW r \in Requests, LoadAnswer(r)
    PROVE  \E p \in Podcasts :
              /\ p = request[r].podcast
              /\ \E d, m \in Nat : Hands(p, d, m, Labelled(p, Fresh(p)))
<1>1. PICK p \in Podcasts : p = request[r].podcast
  BY DEF LoadAnswer, PagingInv, RequestInv
<1>2. PICK d \in Nat : d = Len(delivered[p]) /\ d = request[r].after
  BY <1>1, LenProperties DEF LoadAnswer, PagingInv, RequestInv, ServiceTypeOK
<1>3. \A upto \in Sources(p) : upto \in Nat
  BY ServiceAssumption DEF Sources, PagingInv, ServiceTypeOK
<1>4. PICK upto \in Nat : delivered' = [delivered EXCEPT ![p] = @ \o Page(d, upto)]
  BY <1>1, <1>2, <1>3 DEF LoadAnswer
<1>5. PICK m : m = PageLength(d, upto)
  OBVIOUS
<1>6. Hands(p, d, m, Labelled(p, Fresh(p)))
  BY <1>2, <1>4, <1>5, FreshEntries
<1> QED
  BY <1>1, <1>6 DEF Hands

\* A page put at the end adds its places and leaves the others.
LEMMA PageAdded ==
    ASSUME pages \in Seq(PodcastPage), NEW p \in Podcasts,
           NEW more \in Seq(Podcasts \X Nat),
           pages' = Append(pages, [podcast |-> p, episodes |-> more]),
           NEW K, K = Len(pages) + 1, NEW o, o = 0
    PROVE  /\ Len(pages') = K
           /\ \A k \in 1 .. Len(pages) : pages'[k] = pages[k]
           /\ pages'[K] = [podcast |-> p, episodes |-> more]
           /\ Adds(K, o, more)
<1> DEFINE page == [podcast |-> p, episodes |-> more]
<1>1. page \in PodcastPage /\ page.episodes = more
  BY DEF PodcastPage
<1> HIDE DEF page
<1>2. /\ Len(pages) \in Nat /\ Len(pages') = K
      /\ \A k \in 1 .. Len(pages) : pages'[k] = pages[k]
      /\ pages'[K] = page
  BY <1>1, AppendProperties, LenProperties DEF page
<1>3. \A k, i \in Nat : Stands(k, i) => Stands(k, i)' /\ Entry(k, i)' = Entry(k, i)
  BY <1>2 DEF Stands, Entry
<1>4. \A i \in 1 .. Len(more) : Stands(K, i)' /\ Entry(K, i)' = more[i]
  <2>1. K \in 1 .. Len(pages') /\ pages'[K].episodes = more
    BY <1>1, <1>2
  <2> QED
    BY <2>1 DEF Stands, Entry
<1>5. \A k, i \in Nat : Stands(k, i)' => Stands(k, i) \/ (k = K /\ i \in 1 .. Len(more))
  BY <1>1, <1>2 DEF Stands
<1>6. K \in Nat /\ o \in Nat
  BY <1>2
<1>7. /\ \A i \in 1 .. Len(more) : Stands(K, o + i)' /\ Entry(K, o + i)' = more[i]
      /\ \A k, i \in Nat :
            Stands(k, i)' => Stands(k, i) \/ (k = K /\ i - o \in 1 .. Len(more))
  <2>1. \A i \in Nat : o + i = i /\ i - o = i
    OBVIOUS
  <2>2. Len(more) \in Nat
    BY LenProperties
  <2> QED
    BY <2>1, <2>2, <1>4, <1>5
<1> QED
  BY <1>2, <1>3, <1>6, <1>7 DEF page, Adds

\* The entries of two lists, one after the other.
LEMMA ConcatEntries ==
    ASSUME NEW S, NEW s \in Seq(S), NEW t \in Seq(S)
    PROVE  /\ \A i \in 1 .. Len(s) : i \in 1 .. Len(s \o t) /\ (s \o t)[i] = s[i]
           /\ \A i \in 1 .. Len(t) :
                 Len(s) + i \in 1 .. Len(s \o t) /\ (s \o t)[Len(s) + i] = t[i]
           /\ \A i \in 1 .. Len(s \o t) : i \in 1 .. Len(s) \/ i - Len(s) \in 1 .. Len(t)
<1> DEFINE m == Len(s)
           n == Len(t)
           u == s \o t
<1>1. m \in Nat /\ n \in Nat
  BY LenProperties
<1>2. /\ Len(u) = m + n
      /\ \A i \in 1 .. m + n : u[i] = IF i <= m THEN s[i] ELSE t[i - m]
  BY ConcatProperties
<1> HIDE DEF m, n, u
<1>3. \A i \in 1 .. m : i \in 1 .. m + n /\ u[i] = s[i]
  BY <1>1, <1>2
<1>4. \A i \in 1 .. n : m + i \in 1 .. m + n /\ ~(m + i <= m) /\ (m + i) - m = i
  BY <1>1
<1>5. \A i \in 1 .. n : u[m + i] = t[i]
  BY <1>2, <1>4
<1>6. \A i \in 1 .. m + n : i \in 1 .. m \/ i - m \in 1 .. n
  BY <1>1
<1> QED
  BY <1>2, <1>3, <1>4, <1>5, <1>6 DEF m, n, u

\* Entries put at the end of a page add their places and leave the others.
LEMMA PageExtended ==
    ASSUME pages \in Seq(PodcastPage), NEW K \in 1 .. Len(pages),
           NEW more \in Seq(Podcasts \X Nat),
           pages' = [pages EXCEPT ![K].episodes = @ \o more],
           NEW o, o = Len(pages[K].episodes)
    PROVE  /\ Len(pages') = Len(pages)
           /\ \A k \in 1 .. Len(pages) : pages'[k].podcast = pages[k].podcast
           /\ \A k \in 1 .. Len(pages) : k # K => pages'[k] = pages[k]
           /\ pages'[K].episodes = pages[K].episodes \o more
           /\ Adds(K, o, more)
<1> DEFINE old == pages[K].episodes
           both == old \o more
           new == [pages[K] EXCEPT !.episodes = both]
<1>1. /\ pages[K] \in PodcastPage /\ old \in Seq(Podcasts \X Nat)
      /\ both \in Seq(Podcasts \X Nat) /\ Len(pages) \in Nat
  <2>1. pages[K] \in PodcastPage /\ Len(pages) \in Nat
    BY ElementOfSeq, LenProperties
  <2>2. old \in Seq(Podcasts \X Nat)
    BY <2>1 DEF PodcastPage
  <2> HIDE DEF old
  <2> QED
    BY <2>1, <2>2, ConcatProperties
<1>2. pages' = [pages EXCEPT ![K] = new]
  OBVIOUS
<1>3. /\ \A i \in 1 .. Len(old) : i \in 1 .. Len(both) /\ both[i] = old[i]
      /\ \A i \in 1 .. Len(more) :
            Len(old) + i \in 1 .. Len(both) /\ both[Len(old) + i] = more[i]
      /\ \A i \in 1 .. Len(both) : i \in 1 .. Len(old) \/ i - Len(old) \in 1 .. Len(more)
  <2> HIDE DEF old
  <2> QED
    BY <1>1, ConcatEntries
<1> HIDE DEF both
<1>4. new \in PodcastPage /\ new.podcast = pages[K].podcast /\ new.episodes = both
  BY <1>1 DEF PodcastPage
<1> HIDE DEF new
<1>5. /\ Len(pages') = Len(pages) /\ pages'[K] = new
      /\ \A k \in 1 .. Len(pages) : k # K => pages'[k] = pages[k]
  BY <1>2, <1>4, ExceptSeq
<1>6. \A k \in 1 .. Len(pages) : pages'[k].podcast = pages[k].podcast
  BY <1>4, <1>5
<1>7. \A k, i \in Nat : Stands(k, i) => Stands(k, i)' /\ Entry(k, i)' = Entry(k, i)
  <2> SUFFICES ASSUME NEW k \in Nat, NEW i \in Nat, Stands(k, i)
               PROVE  Stands(k, i)' /\ Entry(k, i)' = Entry(k, i)
    OBVIOUS
  <2>1. CASE k # K
    BY <2>1, <1>5 DEF Stands, Entry
  <2>2. CASE k = K
    <3>1. i \in 1 .. Len(old)
      BY <2>2 DEF Stands
    <3> QED
      BY <3>1, <2>2, <1>3, <1>4, <1>5 DEF Stands, Entry
  <2> QED
    BY <2>1, <2>2
<1>8. \A i \in 1 .. Len(more) : Stands(K, o + i)' /\ Entry(K, o + i)' = more[i]
  BY <1>3, <1>4, <1>5 DEF Stands, Entry
<1>9. \A k, i \in Nat :
         Stands(k, i)' => Stands(k, i) \/ (k = K /\ i - o \in 1 .. Len(more))
  <2> SUFFICES ASSUME NEW k \in Nat, NEW i \in Nat, Stands(k, i)', ~Stands(k, i)
               PROVE  k = K /\ i - o \in 1 .. Len(more)
    OBVIOUS
  <2>1. k = K
    BY <1>5 DEF Stands
  <2>2. i \in 1 .. Len(both) /\ i \notin 1 .. Len(old)
    BY <2>1, <1>4, <1>5 DEF Stands
  <2> QED
    BY <2>1, <2>2, <1>3
<1>10. K \in Nat /\ o \in Nat
  BY <1>1, LenProperties
<1>11. Adds(K, o, more)
  BY <1>7, <1>8, <1>9, <1>10 DEF Adds, old
<1> QED
  BY <1>4, <1>5, <1>6, <1>11 DEF old, both

\* Before the first page there is neither an episode nor a place.
LEMMA PlacedStarts == Init => PlacedInv
<1> SUFFICES ASSUME Init PROVE PlacedInv
  OBVIOUS
<1>1. Len(pages) = 0 /\ \A p \in Podcasts : Len(delivered[p]) = 0
  BY UptoNothing DEF Init, ScreenInit, ServiceInit
<1>2. \A k, i \in Nat : ~Stands(k, i)
  BY <1>1 DEF Stands
<1>3. \A p \in Podcasts : 1 .. Len(delivered[p]) = {}
  BY <1>1
<1> QED
  BY <1>2, <1>3 DEF PlacedInv

\* While pages and deliveries stay, so do the places.
LEMMA PlacedStays ==
    ASSUME PlacedInv, pages' = pages, delivered' = delivered
    PROVE  PlacedInv'
<1>1. \A k, i \in Nat : (Stands(k, i)' <=> Stands(k, i)) /\ Entry(k, i)' = Entry(k, i)
  BY DEF Stands, Entry
<1> QED
  BY <1>1 DEF PlacedInv

\* A first page goes to a page of its own.
LEMMA FirstPlaces ==
    ASSUME ScreenInv, NEW p \in Podcasts, FirstPageArrives(p)
    PROVE  /\ trapped' => UNCHANGED <<pages, delivered>>
           /\ ~trapped' => PlacedFirst(p)
<1>1. PagingInv /\ pages \in Seq(PodcastPage) /\ Len(pages) \in Nat
  BY LenProperties DEF ScreenInv, ScreenTypeOK
<1>2. CASE trapped'
  <2>1. pages' = pages
    BY <1>2 DEF FirstPageArrives, screenVars
  <2>2. delivered' = delivered
    BY <1>2 DEF FirstPageArrives, FirstAnswer
  <2> QED
    BY <1>2, <2>1, <2>2
<1>3. CASE ~trapped'
  <2>e. PICK more : more = Labelled(p, Fresh(p))
    OBVIOUS
  <2>1. PICK d \in Nat, m \in Nat : d = 0 /\ m > 0 /\ Hands(p, d, m, more)
    BY <1>1, <1>3, <2>e, FirstDelivers DEF FirstPageArrives
  <2>2. pages' = Append(pages, [podcast |-> p, episodes |-> more])
    BY <1>3, <2>e DEF FirstPageArrives, ShowPodcastAndEpisode
  <2>3. PICK K \in Nat, o \in Nat : K = Len(pages) + 1 /\ o = 0
    BY <1>1
  <2>4. more \in Seq(Podcasts \X Nat)
    BY <2>1 DEF Hands
  <2>5. /\ Adds(K, o, more)
        /\ Len(pages') = K
        /\ \A k \in 1 .. Len(pages) : pages'[k] = pages[k]
        /\ pages'[K] = [podcast |-> p, episodes |-> more]
    BY <1>1, <2>2, <2>3, <2>4, PageAdded
  <2>6. delivered[p] = <<>>
    BY <1>1 DEF FirstPageArrives, FirstAnswer, PagingInv, CursorInv
  <2>7. delivered'[p] # <<>>
    BY <2>1, UptoNothing DEF Hands
  <2>8. Opens(p, K, more)
    BY <2>3, <2>5, <2>6, <2>7 DEF Opens
  <2>9. PlacedFirst(p)
    BY <2>1, <2>3, <2>4, <2>5, <2>8 DEF PlacedFirst
  <2> QED
    BY <1>3, <2>9
<1> QED
  BY <1>2, <1>3

\* A further page goes to the end of the page at currentIndex, whichever that is.
LEMMA NextPlaces ==
    ASSUME ScreenInv, NEW r \in Requests, NextPageArrives(r)
    PROVE  \E p \in Podcasts : p = request[r].podcast /\ PlacedNext(p)
<1>1. /\ PagingInv /\ pages \in Seq(PodcastPage) /\ Len(pages) \in Nat
      /\ currentIndex \in Nat
  BY LenProperties DEF ScreenInv, ScreenTypeOK
<1>2. currentIndex < Len(pages)
  BY <1>1 DEF ScreenInv, ScreenTypeOK, RangeInv, NextPageArrives, LoadAnswer
<1>3. LoadAnswer(r) /\ LoadMoreEpisode(request[r].podcast)
  BY <1>2 DEF NextPageArrives
<1>4. PICK p \in Podcasts :
         /\ p = request[r].podcast
         /\ \E d, m \in Nat : Hands(p, d, m, Labelled(p, Fresh(p)))
  BY <1>1, <1>3, NextDelivers
<1>e. PICK more : more = Labelled(p, Fresh(p))
  OBVIOUS
<1>5. PICK d \in Nat, m \in Nat : Hands(p, d, m, more)
  BY <1>4, <1>e
<1>6. PICK K \in 1 .. Len(pages) : K = currentIndex + 1
  BY <1>1, <1>2
<1>7. pages' = [pages EXCEPT ![K].episodes = @ \o more]
  BY <1>3, <1>4, <1>e, <1>6 DEF LoadMoreEpisode
<1>8. PICK o : o = Len(pages[K].episodes)
  OBVIOUS
<1>9. more \in Seq(Podcasts \X Nat)
  BY <1>5 DEF Hands
<1>10. /\ Adds(K, o, more)
       /\ Len(pages') = Len(pages)
       /\ \A k \in 1 .. Len(pages) : pages'[k].podcast = pages[k].podcast
       /\ \A k \in 1 .. Len(pages) : k # K => pages'[k] = pages[k]
       /\ pages'[K].episodes = pages[K].episodes \o more
  BY <1>1, <1>7, <1>8, <1>9, PageExtended
<1>11. K \in Nat /\ o \in Nat
  BY <1>10 DEF Adds
<1>12. delivered[p] # <<>> /\ delivered'[p] # <<>>
  <2>1. Len(delivered[p]) = d /\ d # 0 /\ Len(delivered'[p]) = d + m
    BY <1>1, <1>3, <1>4, <1>5 DEF LoadAnswer, PagingInv, RequestInv, Hands
  <2> QED
    BY <2>1, UptoNothing
<1>13. Extends(p, K, more)
  BY <1>6, <1>10, <1>12 DEF Extends
<1> QED
  BY <1>4, <1>5, <1>9, <1>10, <1>11, <1>13 DEF PlacedNext

\* A step of the screen places the episodes an answer hands over, or it touches
\* neither pages nor deliveries: so do gestures, errors and traps.
LEMMA StepPlaces ==
    ScreenInv /\ [Next]_vars =>
        UNCHANGED <<pages, delivered>> \/ \E p \in Podcasts : Placed(p)
<1> SUFFICES ASSUME ScreenInv, [Next]_vars,
                    ~UNCHANGED <<pages, delivered>>
             PROVE  \E p \in Podcasts : Placed(p)
  OBVIOUS
<1>1. CASE Answers
  BY <1>1, FirstPlaces, NextPlaces
     DEF Placed, Answers, FetchPodcastList, FetchPodcastListError, FirstError, LoadError, screenVars
<1>2. ASSUME NEW cell, PositionCell(cell) \/ PositionCellTraps(cell) PROVE FALSE
  BY <1>2 DEF PositionCell, PositionCellTraps, serviceVars, screenVars
<1>3. CASE CarouselMoves \/ ScrollToBottom
  BY <1>3 DEF CarouselMoves, ScrollToBottom, LoadMoreData, serviceVars, screenVars
<1>4. CASE Gestures
  BY <1>2, <1>3, <1>4 DEF Gestures, SwipeLeftToRight, SwipeRightToLeft, SelectItem
<1>5. CASE UNCHANGED vars
  BY <1>5 DEF vars, serviceVars, screenVars
<1> QED
  BY <1>1, <1>3, <1>4, <1>5 DEF Next

\* Every step keeps the places in order.
LEMMA PlacedStep == ScreenInv /\ PlacedInv /\ [Next]_vars => PlacedInv'
<1> SUFFICES ASSUME ScreenInv, PlacedInv, [Next]_vars PROVE PlacedInv'
  OBVIOUS
<1>1. CASE UNCHANGED <<pages, delivered>>
  BY <1>1, PlacedStays
<1>2. ASSUME NEW p \in Podcasts, Placed(p) PROVE PlacedInv'
  BY <1>2, PlacedGrows DEF Placed, PlacedFirst, PlacedNext
<1> QED
  BY <1>1, <1>2, StepPlaces

\* One place for each delivered episode.
LEMMA OnePlace == ScreenInv /\ PlacedInv => EveryEpisodePlacedOnce
<1> SUFFICES ASSUME ScreenInv, PlacedInv,
                    NEW p \in Podcasts, NEW n \in 1 .. Len(delivered[p])
             PROVE  Cardinality(Places(<<p, n>>)) = 1
  BY DEF EveryEpisodePlacedOnce
<1>1. /\ Len(pages) \in Nat /\ DOMAIN pages = 1 .. Len(pages)
      /\ \A k \in 1 .. Len(pages) :
            /\ DOMAIN pages[k].episodes = 1 .. Len(pages[k].episodes)
            /\ Len(pages[k].episodes) \in Nat
  <2>1. pages \in Seq(PodcastPage)
    BY DEF ScreenInv, ScreenTypeOK
  <2>2. ASSUME NEW k \in 1 .. Len(pages) PROVE pages[k].episodes \in Seq(Podcasts \X Nat)
    <3>1. pages[k] \in PodcastPage
      BY <2>1, ElementOfSeq
    <3> QED
      BY <3>1 DEF PodcastPage
  <2> QED
    BY <2>1, <2>2, LenProperties
<1>2. PICK k \in Nat, i \in Nat : Stands(k, i) /\ Entry(k, i) = <<p, n>>
  BY DEF PlacedInv
<1>3. ASSUME NEW x \in Places(<<p, n>>) PROVE x = <<k, i>>
  <2>1. PICK l \in DOMAIN pages :
           x \in {<<l, j>> : j \in {j \in DOMAIN pages[l].episodes :
                                       pages[l].episodes[j] = <<p, n>>}}
    BY <1>3 DEF Places
  <2>2. PICK j \in DOMAIN pages[l].episodes :
           x = <<l, j>> /\ pages[l].episodes[j] = <<p, n>>
    BY <2>1
  <2>3. l \in Nat /\ j \in Nat /\ Stands(l, j) /\ Entry(l, j) = <<p, n>>
    BY <1>1, <2>2 DEF Stands, Entry
  <2> QED
    BY <1>2, <2>2, <2>3 DEF PlacedInv
<1>4. <<k, i>> \in Places(<<p, n>>)
  <2>1. /\ k \in DOMAIN pages /\ i \in DOMAIN pages[k].episodes
        /\ pages[k].episodes[i] = <<p, n>>
    BY <1>1, <1>2 DEF Stands, Entry
  <2> QED
    BY <2>1 DEF Places
<1>5. Places(<<p, n>>) = {<<k, i>>}
  BY <1>3, <1>4
<1> QED
  BY <1>5, FS_Singleton

\* Whatever is swiped and touched between the answers, and however they fail, every
\* episode handed over stands at exactly one place of the screen's pages.
THEOREM PlacedOnce == Spec => []EveryEpisodePlacedOnce
BY ScreenStarts, ScreenStep, PlacedStarts, PlacedStep, OnePlace, PTL DEF Spec

\* An entry of a page stays where it is.
EntriesStay ==
    \A k, i \in Nat : Stands(k, i) => Stands(k, i)' /\ Entry(k, i)' = Entry(k, i)

\* No answer, gesture or error ever takes an episode off a page of the screen or
\* moves it: pages are added at the end, and entries at the end of a page.
THEOREM NothingMoves == Spec => [][EntriesStay]_vars
<1>1. ScreenInv /\ [Next]_vars => [EntriesStay]_vars
  <2> SUFFICES ASSUME ScreenInv, [Next]_vars PROVE EntriesStay
    OBVIOUS
  <2>1. CASE UNCHANGED <<pages, delivered>>
    BY <2>1 DEF EntriesStay, Stands, Entry
  <2>2. ASSUME NEW p \in Podcasts, Placed(p) PROVE EntriesStay
    BY <2>2 DEF Placed, PlacedFirst, PlacedNext, Adds, EntriesStay
  <2> QED
    BY <2>1, <2>2, StepPlaces
<1> QED
  BY <1>1, ScreenStarts, ScreenStep, PTL DEF Spec
------------------------------------------------------------------------------
\* One page for each podcast

Arrived == {p \in Podcasts : delivered[p] # <<>>}

\* Every podcast that arrived has one page, and nothing else has.
OwnerInv ==
    /\ Len(pages) = Cardinality(Arrived)
    /\ \A k \in 1 .. Len(pages) : pages[k].podcast \in Arrived
    /\ \A k, l \in 1 .. Len(pages) : pages[k].podcast = pages[l].podcast => k = l

\* While pages and deliveries stay, so do the owners of the pages.
LEMMA OwnersStay ==
    ASSUME pages' = pages, delivered' = delivered
    PROVE  /\ OwnerInv => OwnerInv'
           /\ PageListsOwnPodcast => PageListsOwnPodcast'
<1>1. Arrived' = Arrived
  BY DEF Arrived
<1>2. OwnerInv => OwnerInv'
  BY <1>1 DEF OwnerInv
<1>3. PageListsOwnPodcast => PageListsOwnPodcast'
  BY DEF PageListsOwnPodcast, Labelled
<1> QED
  BY <1>2, <1>3

\* A first page makes its podcast one of those that arrived.
LEMMA OwnerFirst ==
    ASSUME IsFiniteSet(Podcasts), OwnerInv, Len(pages) \in Nat,
           NEW p \in Podcasts, PlacedFirst(p)
    PROVE  OwnerInv'
<1>1. PICK d \in Nat, m \in Nat, K \in Nat, o \in Nat, more \in Seq(Podcasts \X Nat) :
         d = 0 /\ Hands(p, d, m, more) /\ Adds(K, o, more) /\ Opens(p, K, more)
  BY DEF PlacedFirst
<1>2. /\ K = Len(pages) + 1 /\ Len(pages') = K
      /\ \A k \in 1 .. Len(pages) : pages'[k] = pages[k]
      /\ pages'[K].podcast = p
  BY <1>1 DEF Opens
<1>3. p \notin Arrived /\ Arrived' = Arrived \cup {p} /\ Arrived \subseteq Podcasts
  BY <1>1 DEF Arrived, Hands, Opens
<1>4. Cardinality(Arrived') = Cardinality(Arrived) + 1
  BY <1>3, FS_Subset, FS_AddElement
<1>5. Len(pages') = Cardinality(Arrived')
  BY <1>2, <1>4 DEF OwnerInv
<1>6. \A k \in 1 .. K : k \in 1 .. Len(pages) \/ k = K
  BY <1>2
<1>7. \A k \in 1 .. Len(pages) : pages'[k].podcast \in Arrived
  BY <1>2 DEF OwnerInv
<1>8. \A k \in 1 .. K : pages'[k].podcast \in Arrived'
  BY <1>2, <1>3, <1>6, <1>7
<1>9. \A k, l \in 1 .. Len(pages) : pages'[k].podcast = pages'[l].podcast => k = l
  BY <1>2 DEF OwnerInv
<1>10. \A k, l \in 1 .. K : pages'[k].podcast = pages'[l].podcast => k = l
  BY <1>2, <1>3, <1>6, <1>7, <1>9
<1> QED
  BY <1>2, <1>5, <1>8, <1>10 DEF OwnerInv

\* A further page is one of a podcast that has arrived.
LEMMA OwnerNext ==
    ASSUME OwnerInv, NEW p \in Podcasts, PlacedNext(p)
    PROVE  OwnerInv'
<1>1. PICK d \in Nat, m \in Nat, K \in Nat, o \in Nat, more \in Seq(Podcasts \X Nat) :
         Hands(p, d, m, more) /\ Adds(K, o, more) /\ Extends(p, K, more)
  BY DEF PlacedNext
<1>2. Arrived' = Arrived
  BY <1>1 DEF Arrived, Hands, Extends
<1> QED
  BY <1>1, <1>2 DEF OwnerInv, Extends

\* Every step keeps the owners of the pages in order.
LEMMA OwnerStep ==
    ASSUME IsFiniteSet(Podcasts)
    PROVE  ScreenInv /\ OwnerInv /\ [Next]_vars => OwnerInv'
<1> SUFFICES ASSUME ScreenInv, OwnerInv, [Next]_vars PROVE OwnerInv'
  OBVIOUS
<1>1. Len(pages) \in Nat
  BY LenProperties DEF ScreenInv, ScreenTypeOK
<1> QED
  BY <1>1, StepPlaces, OwnersStay, OwnerFirst, OwnerNext DEF Placed

\* At launch there is neither a page nor a podcast that arrived.
LEMMA OwnerStarts == Init => OwnerInv
<1> SUFFICES ASSUME Init PROVE OwnerInv
  OBVIOUS
<1>1. Len(pages) = 0
  BY UptoNothing DEF Init, ScreenInit
<1>2. Arrived = {}
  BY DEF Arrived, Init, ServiceInit
<1> QED
  BY <1>1, <1>2, FS_EmptySet DEF OwnerInv

\* Whatever is swiped and touched and however the answers race and fail, the screen
\* has exactly one page for each podcast whose first page came.
THEOREM OnePagePerPodcast ==
    ASSUME IsFiniteSet(Podcasts)
    PROVE  Spec => []OwnerInv
BY ScreenStarts, ScreenStep, OwnerStarts, OwnerStep, PTL DEF Spec

------------------------------------------------------------------------------
\* A user who waits

\* As many podcasts as the screen counts before it shows the first: the six of the
\* code.
PageForEach == IsFiniteSet(Podcasts) /\ Cardinality(Podcasts) = NumberOfPages

FirstsOut == list = "asked" \/ \E p \in Podcasts : first[p] = "asked"

\* While first pages are out, currentIndex counts those that came and the screen is
\* as viewDidLoad left it.
Waiting ==
    /\ currentIndex = Len(pages) /\ Len(pages) < NumberOfPages
    /\ shown = 0 /\ currentPage = 0 /\ target = 0 /\ centre = 0
    /\ PageListsOwnPodcast

\* Once they are all there, list, page control and carousel follow currentIndex,
\* and a query that is out is one of the list on the screen.
Agreeing ==
    /\ ~trapped
    /\ shown = currentIndex + 1 /\ currentPage = currentIndex /\ target = currentIndex
    /\ PageListsOwnPodcast
    /\ \A r \in Requests : request[r] # Free => request[r].podcast = pages[shown].podcast

CalmInv ==
    /\ ScreenInv /\ OwnerInv
    /\ FirstsOut => Waiting
    /\ Len(pages) = NumberOfPages => Agreeing

\* A podcast whose first page is out has not arrived.
LEMMA SomeMissing ==
    ASSUME PageForEach
    PROVE  PagingInv /\ FirstsOut => Cardinality(Arrived) < NumberOfPages
<1> SUFFICES ASSUME PagingInv, FirstsOut PROVE Cardinality(Arrived) < NumberOfPages
  OBVIOUS
<1>1. IsFiniteSet(Podcasts) /\ Cardinality(Podcasts) = NumberOfPages /\ Arrived \subseteq Podcasts
  BY DEF PageForEach, Arrived
<1>2. CASE list = "asked"
  <2>1. Arrived = {}
    BY <1>2 DEF PagingInv, CursorInv, Arrived
  <2> QED
    BY <2>1, FS_EmptySet, ScreenAssumption
<1>3. ASSUME NEW p \in Podcasts, first[p] = "asked" PROVE Cardinality(Arrived) < NumberOfPages
  <2>1. p \notin Arrived
    BY <1>3 DEF PagingInv, CursorInv, Arrived
  <2>2. Arrived # Podcasts
    BY <2>1
  <2>3. /\ Cardinality(Arrived) <= Cardinality(Podcasts)
        /\ Cardinality(Arrived) = Cardinality(Podcasts) => Arrived = Podcasts
    BY <1>1, FS_Subset
  <2>4. Cardinality(Arrived) \in Nat
    BY <1>1, FS_Subset, FS_CardinalityType
  <2> QED
    BY <1>1, <2>2, <2>3, <2>4, ScreenAssumption
<1> QED
  BY <1>2, <1>3 DEF FirstsOut

\* At launch the list is out.
LEMMA CalmStarts == PageForEach /\ Init => CalmInv
<1> SUFFICES ASSUME PageForEach, Init PROVE CalmInv
  OBVIOUS
<1>1. ScreenInv
  BY ScreenStarts
<1>2. Len(pages) = 0
  BY UptoNothing DEF Init, ScreenInit
<1>4. OwnerInv
  BY OwnerStarts
<1>5. Waiting
  BY <1>2, ScreenAssumption DEF Waiting, PageListsOwnPodcast, Init, ScreenInit
<1>6. Len(pages) # NumberOfPages
  BY <1>2, ScreenAssumption
<1> QED
  BY <1>1, <1>4, <1>5, <1>6 DEF CalmInv

\* An answer without episodes and an error leave the screen and the queries that
\* are still out as they are.
LEMMA CalmQuiet ==
    ASSUME CalmInv, ScreenInv', UNCHANGED <<screenVars, delivered>>,
           FirstsOut' => FirstsOut,
           (trapped' = trapped) \/ FirstsOut,
           \A r \in Requests : request'[r] # Free => request'[r] = request[r]
    PROVE  CalmInv'
<1>1. /\ pages' = pages /\ delivered' = delivered /\ currentIndex' = currentIndex
      /\ shown' = shown /\ currentPage' = currentPage /\ target' = target /\ centre' = centre
  BY DEF screenVars
<1>2. OwnerInv'
  BY <1>1, OwnersStay DEF CalmInv
<1>3. FirstsOut' => Waiting'
  BY <1>1, OwnersStay DEF CalmInv, Waiting
<1>4. ASSUME Len(pages)' = NumberOfPages PROVE Agreeing'
  <2>1. Agreeing /\ ~Waiting
    BY <1>1, <1>4, ScreenAssumption DEF CalmInv, Waiting
  <2>2. trapped' = trapped
    BY <2>1 DEF CalmInv
  <2> QED
    BY <1>1, <2>1, <2>2, OwnersStay DEF Agreeing
<1> QED
  BY <1>2, <1>3, <1>4 DEF CalmInv

\* The first page of a podcast opens its page: the last of them shows the first
\* list, all others only count.
LEMMA CalmFirst ==
    ASSUME PageForEach, CalmInv, NEW p \in Podcasts, FirstPageArrives(p), ScreenInv'
    PROVE  CalmInv'
<1>1. /\ PagingInv /\ PagingInv' /\ pages \in Seq(PodcastPage) /\ Len(pages) \in Nat
  BY LenProperties DEF CalmInv, ScreenInv, ScreenTypeOK
<1>2. FirstAnswer(p) /\ first[p] = "asked" /\ request' = request
  BY DEF FirstPageArrives, FirstAnswer
<1>3. Waiting /\ \A r \in Requests : request[r] = Free
  BY <1>2 DEF CalmInv, FirstsOut, Waiting, ScreenInv, RangeInv
<1>4. CASE trapped'
  <2>1. UNCHANGED <<screenVars, delivered>>
    BY <1>4 DEF FirstPageArrives, FirstAnswer
  <2> QED
    BY <1>2, <2>1, CalmQuiet DEF FirstsOut
<1>5. CASE ~trapped'
  <2>1. PlacedFirst(p)
    BY <1>5, FirstPlaces DEF CalmInv
  <2>2. PICK d \in Nat, m \in Nat, K \in Nat, o \in Nat, more \in Seq(Podcasts \X Nat) :
           d = 0 /\ Hands(p, d, m, more) /\ Adds(K, o, more) /\ Opens(p, K, more)
    BY <2>1 DEF PlacedFirst
  <2>3. /\ K = Len(pages) + 1 /\ Len(pages') = K
        /\ \A k \in 1 .. Len(pages) : pages'[k] = pages[k]
        /\ pages'[K] = [podcast |-> p, episodes |-> more]
    BY <2>2 DEF Opens
  <2>6. \A q \in Podcasts : q # p => delivered'[q] = delivered[q]
    BY <2>2 DEF Hands
  <2>7. p \notin Arrived
    BY <2>2 DEF Arrived, Opens
  <2>8. OwnerInv'
    BY <1>1, <2>1, OwnerFirst DEF CalmInv, PageForEach
  <2>9. PageListsOwnPodcast'
    <3>1. \A k \in 1 .. K : k \in 1 .. Len(pages) \/ k = K
      BY <1>1, <2>3
    <3>2. ASSUME NEW k \in 1 .. Len(pages)
          PROVE  pages'[k].episodes = Labelled(pages'[k].podcast, delivered'[pages'[k].podcast])
      <4>1. pages[k].podcast \in Podcasts /\ pages[k].podcast # p
        BY <2>7 DEF CalmInv, OwnerInv, Arrived
      <4>2. pages[k].episodes = Labelled(pages[k].podcast, delivered[pages[k].podcast])
        BY <1>3 DEF Waiting, PageListsOwnPodcast
      <4> QED
        BY <4>1, <4>2, <2>3, <2>6 DEF Labelled
    <3>3. more = Labelled(p, delivered'[p])
      <4>1. /\ more = [i \in 1 .. m |-> <<p, d + i>>]
            /\ delivered'[p] = Upto(d + m) /\ Len(delivered'[p]) = d + m
        BY <2>2 DEF Hands
      <4>2. delivered'[p] = Upto(m) /\ Len(delivered'[p]) = m
        BY <4>1, <2>2
      <4>3. \A i \in 1 .. m : d + i = i /\ Upto(m)[i] = i
        BY <2>2 DEF Upto
      <4> QED
        BY <4>1, <4>2, <4>3 DEF Labelled
    <3> QED
      BY <3>1, <3>2, <3>3, <2>3 DEF PageListsOwnPodcast
  <2>10. /\ IF K = NumberOfPages THEN shown' = 1 /\ currentIndex' = 0
            ELSE currentIndex' = K /\ shown' = shown
         /\ UNCHANGED <<currentPage, target, centre>>
    BY <1>3, <1>5, <2>3 DEF FirstPageArrives, ShowPodcastAndEpisode, Waiting
  <2>11. ASSUME FirstsOut' PROVE Waiting'
    <3>1. (Cardinality(Arrived) < NumberOfPages)'
      BY <1>1, <2>11, SomeMissing, PTL
    <3>2. K < NumberOfPages
      BY <3>1, <2>3, <2>8 DEF OwnerInv
    <3> QED
      BY <3>2, <1>3, <2>3, <2>9, <2>10, ScreenAssumption DEF Waiting
  <2>12. ASSUME Len(pages)' = NumberOfPages PROVE Agreeing'
    BY <1>2, <1>3, <1>5, <2>3, <2>9, <2>10, <2>12 DEF Agreeing, Waiting
  <2> QED
    BY <2>8, <2>11, <2>12 DEF CalmInv
<1> QED
  BY <1>4, <1>5
\* Labelled pages, one after the other.
LEMMA LabelledContinues ==
    ASSUME NEW p \in Podcasts, NEW d \in Nat, NEW m \in Nat
    PROVE  Labelled(p, Upto(d)) \o [i \in 1 .. m |-> <<p, d + i>>] = Labelled(p, Upto(d + m))
<1> DEFINE more == [i \in 1 .. m |-> <<p, d + i>>]
           both == [i \in 1 .. d + m |-> <<p, i>>]
           old == [i \in 1 .. d |-> <<p, i>>]
           S == Podcasts \X Nat
<1>1. /\ \A n \in Nat : Len(Upto(n)) = n
      /\ \A n \in Nat : \A i \in 1 .. n : Upto(n)[i] = i
  BY DEF Upto
<1>2. Labelled(p, Upto(d)) = old /\ Labelled(p, Upto(d + m)) = both
  BY <1>1 DEF Labelled
<1>3. /\ more \in Seq(S) /\ old \in Seq(S) /\ both \in Seq(S)
      /\ Len(more) = m /\ Len(old) = d /\ Len(both) = d + m
  OBVIOUS
<1>4. /\ \A i \in 1 .. d : old[i] = <<p, i>>
      /\ \A i \in 1 .. d + m : both[i] = <<p, i>>
      /\ \A i \in 1 .. m : more[i] = <<p, d + i>>
  OBVIOUS
<1> HIDE DEF more, old, both, S
<1> DEFINE sum == old \o more
<1>5. /\ sum \in Seq(S) /\ Len(sum) = d + m
      /\ \A i \in 1 .. d + m : sum[i] = IF i <= d THEN old[i] ELSE more[i - d]
  BY <1>3, ConcatProperties
<1> HIDE DEF sum
<1>6. ASSUME NEW i \in 1 .. d + m PROVE sum[i] = both[i]
  <2>1. CASE i <= d
    BY <2>1, <1>4, <1>5
  <2>2. CASE ~(i <= d)
    <3>1. i - d \in 1 .. m /\ d + (i - d) = i
      BY <2>2
    <3> QED
      BY <2>2, <3>1, <1>4, <1>5
  <2> QED
    BY <2>1, <2>2
<1>7. sum = both
  BY <1>3, <1>5, <1>6, SeqEqual
<1> QED
  BY <1>2, <1>7 DEF sum, more

\* A further page goes to the page on the screen, which is its podcast's own.
LEMMA CalmNextPage ==
    ASSUME CalmInv, NEW r \in Requests, NextPageArrives(r), ScreenInv'
    PROVE  CalmInv'
<1>1. /\ PagingInv /\ pages \in Seq(PodcastPage) /\ Len(pages) \in Nat
      /\ currentIndex \in Nat
  BY LenProperties DEF CalmInv, ScreenInv, ScreenTypeOK
<1>2. request[r] # Free /\ shown # 0 /\ currentIndex < Len(pages)
  BY <1>1 DEF CalmInv, ScreenInv, RangeInv, NextPageArrives, LoadAnswer
<1>3. LoadAnswer(r) /\ LoadMoreEpisode(request[r].podcast)
  BY <1>2 DEF NextPageArrives
<1>4. ~FirstsOut /\ ~FirstsOut'
  BY <1>2, <1>3 DEF CalmInv, Waiting, FirstsOut, LoadAnswer
<1>5. PICK p \in Podcasts : p = request[r].podcast /\ PlacedNext(p)
  BY NextPlaces DEF CalmInv
<1>6. PICK d \in Nat, m \in Nat, K \in Nat, o \in Nat, more \in Seq(Podcasts \X Nat) :
         Hands(p, d, m, more) /\ Adds(K, o, more) /\ Extends(p, K, more)
  BY <1>5 DEF PlacedNext
<1>7. K \in 1 .. Len(pages) /\ K = currentIndex + 1
  BY <1>6 DEF Extends
<1>11. /\ Len(pages') = Len(pages)
       /\ \A k \in 1 .. Len(pages) : pages'[k].podcast = pages[k].podcast
       /\ \A k \in 1 .. Len(pages) : k # K => pages'[k] = pages[k]
       /\ pages'[K].episodes = pages[K].episodes \o more
  BY <1>6 DEF Extends
<1>12. /\ delivered[p] = Upto(d) /\ delivered'[p] = Upto(d + m)
       /\ \A q \in Podcasts : q # p => delivered'[q] = delivered[q]
  BY <1>1, <1>6 DEF PagingInv, CursorInv, Hands
<1>14. OwnerInv'
  BY <1>5, OwnerNext DEF CalmInv
<1>15. ASSUME Len(pages') = NumberOfPages PROVE Agreeing'
  <2>1. Agreeing
    BY <1>11, <1>15 DEF CalmInv
  <2>2. shown = K /\ pages[K].podcast = p
    BY <1>2, <1>5, <1>7, <2>1 DEF Agreeing
  <2>3. /\ trapped' = trapped /\ shown' = shown
        /\ UNCHANGED <<currentIndex, currentPage, target>>
    BY <1>3, <1>7, <2>2 DEF LoadAnswer, LoadMoreEpisode
  <2>4. \A s \in Requests : request'[s] = Free
    BY <1>1, <1>2, <1>3 DEF LoadAnswer, PagingInv, ServiceTypeOK, LoadingFlag
  <2>5. ASSUME NEW k \in 1 .. Len(pages)
        PROVE  pages'[k].episodes = Labelled(pages'[k].podcast, delivered'[pages'[k].podcast])
    <3>1. pages[k].episodes = Labelled(pages[k].podcast, delivered[pages[k].podcast])
      BY <2>1 DEF Agreeing, PageListsOwnPodcast
    <3>2. CASE k # K
      <4>1. pages[k].podcast \in Podcasts /\ pages[k].podcast # p
        BY <1>7, <2>2, <3>2 DEF CalmInv, OwnerInv, Arrived
      <4> QED
        BY <3>1, <3>2, <4>1, <1>11, <1>12 DEF Labelled
    <3>3. CASE k = K
      <4>1. pages[k].episodes = Labelled(p, Upto(d))
        BY <2>2, <3>1, <3>3, <1>12
      <4>2. more = [i \in 1 .. m |-> <<p, d + i>>]
        BY <1>6 DEF Hands
      <4>3. Labelled(p, Upto(d)) \o more = Labelled(p, Upto(d + m))
        BY <4>2, LabelledContinues
      <4> QED
        BY <2>2, <3>3, <4>1, <4>3, <1>11, <1>12
    <3> QED
      BY <3>2, <3>3
  <2>6. PageListsOwnPodcast'
    BY <2>5, <1>11 DEF PageListsOwnPodcast
  <2> QED
    BY <2>1, <2>3, <2>4, <2>6 DEF Agreeing
<1> QED
  BY <1>4, <1>14, <1>15 DEF CalmInv

\* One step of the carousel, with the list and the page control that follow it.
LEMMA CalmPosition ==
    ASSUME CalmInv, Settled, NEW cell \in Nat, PositionCell(cell), ScreenInv',
           Len(pages) = NumberOfPages =>
              cell < Len(pages) /\ cell <= currentIndex + 1 /\ currentIndex <= cell + 1
    PROVE  CalmInv'
<1>1. /\ pages' = pages /\ UNCHANGED serviceVars /\ centre' = centre
      /\ currentIndex' = cell
      /\ target' = IF cell < Len(pages) THEN cell ELSE 0
  BY DEF PositionCell
<1>2. OwnerInv' /\ ~FirstsOut'
  BY <1>1, OwnersStay DEF CalmInv, Settled, FirstsOut, serviceVars
<1>3. ASSUME Len(pages) = NumberOfPages PROVE Agreeing'
  <2>1. Agreeing
    BY <1>3 DEF CalmInv
  <2>2. /\ Len(pages) \in Nat /\ currentIndex \in Nat /\ currentIndex < Len(pages)
        /\ cell < Len(pages) /\ cell <= currentIndex + 1 /\ currentIndex <= cell + 1
    BY <1>3, <2>1, LenProperties DEF Agreeing, CalmInv, ScreenInv, ScreenTypeOK, RangeInv
  <2>3. shown' = cell + 1 /\ currentPage' = cell
    <3>1. CASE cell < currentIndex
      <4>1. Show(currentIndex - 1) /\ currentIndex - 1 = cell
        BY <2>2, <3>1 DEF PositionCell
      <4> QED
        BY <4>1, <2>2, <1>3 DEF Show, Least
    <3>2. CASE cell > currentIndex
      <4>1. Show(currentIndex + 1) /\ currentIndex + 1 = cell
        BY <2>2, <3>2 DEF PositionCell
      <4> QED
        BY <4>1, <2>2, <1>3 DEF Show, Least
    <3>3. CASE cell = currentIndex
      BY <3>3, <2>1, <2>2 DEF PositionCell, Agreeing
    <3> QED
      BY <2>2, <3>1, <3>2, <3>3
  <2>4. PageListsOwnPodcast'
    BY <1>1, <2>1, OwnersStay DEF Agreeing, serviceVars
  <2>5. \A r \in Requests : request'[r] = Free
    BY <1>1 DEF Settled, serviceVars
  <2> QED
    BY <1>1, <2>1, <2>2, <2>3, <2>4, <2>5 DEF Agreeing, serviceVars
<1> QED
  BY <1>1, <1>2, <1>3 DEF CalmInv

\* Where a waiting user gets by a gesture.
LEMMA CalmGesture ==
    ASSUME CalmInv, Settled, Gestures, ScreenInv'
    PROVE  CalmInv'
<1>0. /\ Len(pages) \in Nat /\ currentIndex \in Nat /\ centre \in Nat /\ centre = target
      /\ Len(pages) = NumberOfPages =>
            /\ currentIndex < Len(pages) /\ target = currentIndex /\ ~trapped
            /\ shown = currentIndex + 1
  BY LenProperties
     DEF CalmInv, ScreenInv, ScreenTypeOK, RangeInv, Agreeing, Settled
<1>1. ASSUME NEW cell \in Nat, PositionCellTraps(cell) PROVE CalmInv'
  <2>1. UNCHANGED <<list, first, request, delivered, pages>> /\ currentIndex > Len(pages)
    BY <1>1 DEF PositionCellTraps, screenVars
  <2>2. OwnerInv' /\ ~FirstsOut' /\ Len(pages)' # NumberOfPages
    BY <1>0, <2>1, OwnersStay DEF CalmInv, Settled, FirstsOut
  <2> QED
    BY <2>2 DEF CalmInv
<1>2. CASE SwipeLeftToRight
  <2>1. currentIndex - 1 \in Nat /\ currentIndex <= (currentIndex - 1) + 1
    BY <1>0, <1>2 DEF SwipeLeftToRight
  <2>2. Len(pages) = NumberOfPages =>
           currentIndex - 1 < Len(pages) /\ currentIndex - 1 <= currentIndex + 1
    BY <1>0
  <2> QED
    BY <1>1, <1>2, <2>1, <2>2, CalmPosition DEF SwipeLeftToRight
<1>3. CASE SwipeRightToLeft
  <2>1. /\ currentIndex + 1 \in Nat /\ PositionCell(currentIndex + 1)
        /\ currentIndex + 1 # Len(pages)
    BY <1>0, <1>3 DEF SwipeRightToLeft
  <2>2. Len(pages) = NumberOfPages =>
           /\ currentIndex + 1 < Len(pages) /\ currentIndex + 1 <= currentIndex + 1
           /\ currentIndex <= (currentIndex + 1) + 1
    BY <1>0, <2>1
  <2> QED
    BY <2>1, <2>2, CalmPosition
<1>4. ASSUME NEW cell \in 0 .. Len(pages), SelectItem(cell) PROVE CalmInv'
  <2>1. cell \in Nat /\ (PositionCell(cell) \/ PositionCellTraps(cell))
    BY <1>0, <1>4 DEF SelectItem
  <2>2. Len(pages) = NumberOfPages =>
           cell < Len(pages) /\ cell <= currentIndex + 1 /\ currentIndex <= cell + 1
    BY <1>0, <1>4 DEF SelectItem
  <2> QED
    BY <1>1, <2>1, <2>2, CalmPosition
<1>5. CASE ScrollToBottom
  <2>1. /\ UNCHANGED screenVars
        /\ UNCHANGED <<list, first, delivered, trapped>>
        /\ LoadMoreData(pages[shown].podcast)
    BY <1>5 DEF ScrollToBottom, LoadMoreData
  <2>2. pages' = pages /\ OwnerInv' /\ ~FirstsOut'
    BY <2>1, OwnersStay DEF CalmInv, Settled, FirstsOut, screenVars
  <2>3. ASSUME Len(pages) = NumberOfPages PROVE Agreeing'
    <3>1. Agreeing
      BY <2>3 DEF CalmInv
    <3>2. \A r \in Requests : request'[r] # Free => request'[r].podcast = pages[shown].podcast
      BY <2>1 DEF LoadMoreData, Settled, CalmInv, ScreenInv, PagingInv, ServiceTypeOK
    <3> QED
      BY <2>1, <3>1, <3>2, OwnersStay DEF Agreeing, screenVars
  <2> QED
    BY <2>2, <2>3 DEF CalmInv
<1> QED
  BY <1>2, <1>3, <1>4, <1>5 DEF Gestures
\* Every step of a user who waits keeps the agreement.
LEMMA CalmStep ==
    ASSUME PageForEach
    PROVE  CalmInv /\ [CalmNext]_vars => CalmInv'
<1> SUFFICES ASSUME CalmInv, [CalmNext]_vars PROVE CalmInv'
  OBVIOUS
<1>1. ScreenInv'
  BY ScreenStep DEF CalmInv, CalmNext, Next
<1>2. CASE (FetchPodcastList \/ FetchPodcastListError) /\ UNCHANGED screenVars
  BY <1>1, <1>2, CalmQuiet DEF FetchPodcastList, FetchPodcastListError, FirstsOut
<1>3. ASSUME NEW p \in Podcasts, FirstError(p) /\ UNCHANGED screenVars PROVE CalmInv'
  BY <1>1, <1>3, CalmQuiet DEF FirstError, FirstsOut
<1>4. ASSUME NEW r \in Requests, LoadError(r) /\ UNCHANGED screenVars PROVE CalmInv'
  <2>1. request \in [Requests -> Request]
    BY DEF CalmInv, ScreenInv, PagingInv, ServiceTypeOK
  <2>2. /\ UNCHANGED <<list, first, delivered, trapped>>
        /\ \A s \in Requests : request'[s] # Free => request'[s] = request[s]
    BY <1>4, <2>1 DEF LoadError
  <2>3. ASSUME Len(pages)' = NumberOfPages PROVE Agreeing'
    BY <1>4, <2>2, <2>3, OwnersStay DEF CalmInv, Agreeing, screenVars
  <2>4. OwnerInv' /\ (FirstsOut' => Waiting')
    BY <1>4, <2>2, OwnersStay DEF CalmInv, Waiting, FirstsOut, screenVars
  <2> QED
    BY <1>1, <2>3, <2>4 DEF CalmInv
<1>5. CASE CarouselMoves
  <2>1. UNCHANGED <<serviceVars, pages, currentIndex, shown, currentPage, target>>
    BY <1>5 DEF CarouselMoves
  <2>2. ~FirstsOut
    BY <1>5 DEF CarouselMoves, CalmInv, Waiting
  <2>3. OwnerInv' /\ ~FirstsOut'
    BY <2>1, <2>2, OwnersStay DEF CalmInv, FirstsOut, serviceVars
  <2>4. ASSUME Len(pages)' = NumberOfPages PROVE Agreeing'
    BY <2>1, <2>4, OwnersStay DEF CalmInv, Agreeing, serviceVars
  <2> QED
    BY <1>1, <2>3, <2>4 DEF CalmInv
<1>6. CASE UNCHANGED vars
  <2>1. UNCHANGED <<serviceVars, screenVars>>
    BY <1>6 DEF vars
  <2>2. ASSUME Len(pages)' = NumberOfPages PROVE Agreeing'
    BY <2>1, <2>2, OwnersStay DEF CalmInv, Agreeing, serviceVars, screenVars
  <2>3. OwnerInv' /\ (FirstsOut' => Waiting')
    BY <2>1, OwnersStay DEF CalmInv, Waiting, FirstsOut, serviceVars, screenVars
  <2> QED
    BY <1>1, <2>2, <2>3 DEF CalmInv
<1> QED
  BY <1>1, <1>2, <1>3, <1>4, <1>5, <1>6, CalmFirst, CalmNextPage, CalmGesture
     DEF CalmNext, Answers

\* What the agreement means to the reader of the screen.
LEMMA AgreementSeen ==
    CalmInv /\ Len(pages) = NumberOfPages
       => EverythingAgrees /\ PageListsOwnPodcast /\ NoTrap
BY DEF CalmInv, Agreeing, EverythingAgrees, Settled, NoTrap

\* Under a user who waits, from the moment the first pages of all podcasts are
\* there: the list, the page control and the carousel agree whenever nothing is
\* out, every page lists its own podcast, and no index is out of range.  Errors
\* and answers from the cache may come all along.
THEOREM AgreesOnceThere ==
    ASSUME PageForEach
    PROVE  CalmSpec => [](Len(pages) = NumberOfPages
                             => EverythingAgrees /\ PageListsOwnPodcast /\ NoTrap)
BY CalmStarts, CalmStep, AgreementSeen, PTL DEF CalmSpec

\* Online and without errors every first page comes, as every podcast has one.
AllArrive ==
    /\ PageForEach
    /\ Offline = FALSE /\ Fails = FALSE
    /\ \A p \in Podcasts : Count[p] > 0

\* An answered podcast has arrived.
ArriveInv ==
    /\ ~trapped
    /\ \A p \in Podcasts : /\ first[p] = "done" => delivered[p] # <<>>
                           /\ list # "asked" => first[p] # "none"

\* When no first page is out any more, they are all there.
LEMMA AllThere ==
    ASSUME AllArrive
    PROVE  CalmInv /\ ArriveInv => FirstsOut \/ Len(pages) = NumberOfPages
<1> SUFFICES ASSUME CalmInv, ArriveInv, ~FirstsOut PROVE Len(pages) = NumberOfPages
  OBVIOUS
<1>1. Arrived = Podcasts
  BY DEF ArriveInv, FirstsOut, CalmInv, ScreenInv, PagingInv, ServiceTypeOK,
         QueryStates, Arrived
<1> QED
  BY <1>1 DEF CalmInv, OwnerInv, AllArrive, PageForEach

\* No step of a waiting user, online and without errors, lets a first page go
\* missing or traps.
LEMMA ArriveStep ==
    ASSUME AllArrive
    PROVE  CalmInv /\ ArriveInv /\ [CalmNext]_vars => ArriveInv'
<1> SUFFICES ASSUME CalmInv, ArriveInv, [CalmNext]_vars PROVE ArriveInv'
  OBVIOUS
<1>0. /\ Offline = FALSE /\ Fails = FALSE /\ PagingInv
      /\ first \in [Podcasts -> QueryStates]
  BY DEF AllArrive, CalmInv, ScreenInv, PagingInv, ServiceTypeOK
<1>1. CASE UNCHANGED <<list, first, delivered, trapped>>
  BY <1>1 DEF ArriveInv
<1>2. CASE FetchPodcastList
  BY <1>0, <1>2 DEF FetchPodcastList, ArriveInv
<1>3. ASSUME NEW p \in Podcasts, FirstAnswer(p) PROVE ArriveInv'
  <2>1. PageLength(0, Count[p]) > 0 /\ Sources(p) = {Count[p]}
    BY <1>0, ServiceAssumption DEF AllArrive, PageLength, Least, Sources
  <2>2. ~trapped' /\ list' = list /\ first' = [first EXCEPT ![p] = "done"]
    BY <1>3, <2>1 DEF FirstAnswer, ArriveInv
  <2>e. PICK more : more = Labelled(p, Fresh(p))
    OBVIOUS
  <2>3. PICK d \in Nat, m \in Nat : d = 0 /\ m > 0 /\ Hands(p, d, m, more)
    BY <1>0, <1>3, <2>2, <2>e, FirstDelivers
  <2>4. delivered'[p] # <<>> /\ \A q \in Podcasts : q # p => delivered'[q] = delivered[q]
    BY <2>3, UptoNothing DEF Hands
  <2> QED
    BY <1>0, <2>2, <2>4 DEF ArriveInv
<1>4. ASSUME NEW r \in Requests, NextPageArrives(r) PROVE ArriveInv'
  <2>1. request[r] # Free /\ currentIndex < Len(pages)
    BY <1>4 DEF CalmInv, ScreenInv, ScreenTypeOK, RangeInv, NextPageArrives, LoadAnswer
  <2>2. LoadAnswer(r)
    BY <1>4, <2>1 DEF NextPageArrives
  <2>3. PICK p \in Podcasts : PlacedNext(p)
    BY <1>4, NextPlaces DEF CalmInv
  <2>4. delivered'[p] # <<>> /\ \A q \in Podcasts : q # p => delivered'[q] = delivered[q]
    BY <2>3 DEF PlacedNext, Extends, Hands
  <2>5. UNCHANGED <<list, first, trapped>>
    BY <2>2 DEF LoadAnswer
  <2> QED
    BY <2>4, <2>5 DEF ArriveInv
<1>5. CASE Settled /\ Gestures
  <2>1. Len(pages) = NumberOfPages
    BY <1>5, AllThere DEF Settled, FirstsOut
  <2>2. /\ currentIndex < Len(pages) /\ currentIndex \in Nat /\ Len(pages) \in Nat
    BY <2>1, LenProperties
       DEF CalmInv, Agreeing, ScreenInv, ScreenTypeOK, RangeInv
  <2>3. \A cell : ~PositionCellTraps(cell)
    BY <2>2 DEF PositionCellTraps
  <2> QED
    BY <1>1, <1>5, <2>3
       DEF Gestures, SwipeLeftToRight, SwipeRightToLeft, SelectItem, ScrollToBottom,
           PositionCell, LoadMoreData, serviceVars
<1>6. CASE CarouselMoves \/ UNCHANGED vars
  BY <1>1, <1>6 DEF CarouselMoves, vars, serviceVars
<1>7. CASE Answers
  BY <1>0, <1>2, <1>3, <1>4, <1>7
     DEF Answers, FirstPageArrives, FetchPodcastListError, FirstError, LoadError
<1> QED
  BY <1>5, <1>6, <1>7 DEF CalmNext

\* At launch no first page has been asked for.
LEMMA ArriveStarts == Init => ArriveInv
BY DEF Init, ServiceInit, ArriveInv

\* With every first page there or still out, what the invariants say is seen.
LEMMA CalmSeen ==
    ASSUME AllArrive
    PROVE  CalmInv /\ ArriveInv
              => EverythingAgrees /\ PageListsOwnPodcast /\ NoTrap /\ FirstPageShown
<1> SUFFICES ASSUME CalmInv, ArriveInv
             PROVE  EverythingAgrees /\ PageListsOwnPodcast /\ NoTrap /\ FirstPageShown
  OBVIOUS
<1>1. CASE FirstsOut
  BY <1>1 DEF CalmInv, ArriveInv, FirstsOut, EverythingAgrees, FirstPageShown, Settled,
              Waiting, NoTrap
<1>2. CASE Len(pages) = NumberOfPages
  <2>1. EverythingAgrees /\ PageListsOwnPodcast /\ NoTrap
    BY <1>2, AgreementSeen
  <2>2. FirstPageShown
    BY <2>1 DEF CalmInv, ScreenInv, ScreenTypeOK, EverythingAgrees, FirstPageShown
  <2> QED
    BY <2>1, <2>2
<1> QED
  BY <1>1, <1>2, AllThere

\* Under a user who waits both invariants hold.
LEMMA CalmHolds ==
    ASSUME AllArrive
    PROVE  CalmSpec => [](CalmInv /\ ArriveInv)
<1>1. PageForEach
  BY DEF AllArrive
<1> QED
  BY <1>1, CalmStarts, ArriveStarts, CalmStep, ArriveStep, PTL DEF CalmSpec

\* Online, without errors, with a page of the page control for every podcast and
\* an episode in each, a user who waits sees everything agree: when nothing is out,
\* the list on the screen, the page control and the carousel show the selected
\* podcast.
THEOREM CalmScreen ==
    ASSUME AllArrive
    PROVE  CalmSpec => []EverythingAgrees
BY CalmHolds, CalmSeen, PTL

\* Then every page lists its own podcast's episodes, in the server's order: no
\* answer of loadMoreData lands on the page of another podcast.
THEOREM CalmPages ==
    ASSUME AllArrive
    PROVE  CalmSpec => []PageListsOwnPodcast
BY CalmHolds, CalmSeen, PTL

\* And no index of the screen is ever out of range, from the placeholder on.
THEOREM CalmSafe ==
    ASSUME AllArrive
    PROVE  CalmSpec => []NoTrap
BY CalmHolds, CalmSeen, PTL

\* The placeholder gives way to a list as soon as everything asked for is there:
\* only a failed, missing or empty first page can leave a waiting user before it.
THEOREM ListShown ==
    ASSUME AllArrive
    PROVE  CalmSpec => []FirstPageShown
BY CalmHolds, CalmSeen, PTL
==============================================================================
