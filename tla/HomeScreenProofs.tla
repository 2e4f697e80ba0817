--------------------------- MODULE HomeScreenProofs ---------------------------
(***************************************************************************)
(* The home screen, its cells and its switches, for every number of cells, *)
(* downloads, pictures and switches and every width of the switch.         *)
(***************************************************************************)
EXTENDS HomeScreen, TLAPS

------------------------------------------------------------------------------
\* The switches

\* A switch that is on, or on which nothing is dragged, stands at its end: a drag
\* that begins on a switch that is on moves nothing.
StandsAtEnd(w) ==
    /\ circle[w] = IF isFinished[w] THEN xEndingPoint ELSE marginContainerImage
    /\ ~dimmed[w]

SwitchInv ==
    /\ SwitchTypeOK
    /\ SwitchShowsState
    /\ \A w \in Switches :
          w \notin Cancels /\ (isFinished[w] \/ ~panning[w]) => StandsAtEnd(w)

\* setup() leaves every switch off, at its left end.
LEMMA SwitchStarts == SwitchInit => SwitchInv
BY SwitchAssumption
   DEF SwitchInit, SwitchInv, SwitchTypeOK, SwitchShowsState, StandsAtEnd

\* What a step may make of one switch.
LEMMA SwitchMoved ==
    ASSUME SwitchInv, NEW w \in Switches, NEW on \in BOOLEAN,
           NEW x \in marginContainerImage .. xEndingPoint, NEW dim \in BOOLEAN,
           NEW pan \in BOOLEAN,
           isFinished' = [isFinished EXCEPT ![w] = on],
           paused' = [paused EXCEPT ![w] = on],
           circle' = [circle EXCEPT ![w] = x],
           dimmed' = [dimmed EXCEPT ![w] = dim],
           panning' = [panning EXCEPT ![w] = pan],
           w \notin Cancels /\ (on \/ ~pan) =>
              /\ x = IF on THEN xEndingPoint ELSE marginContainerImage
              /\ ~dim
    PROVE  SwitchInv'
<1>1. SwitchTypeOK'
  BY DEF SwitchInv, SwitchTypeOK
<1>2. /\ isFinished'[w] = on /\ paused'[w] = on /\ circle'[w] = x
      /\ dimmed'[w] = dim /\ panning'[w] = pan
  BY DEF SwitchInv, SwitchTypeOK
<1>3. \A v \in Switches : v # w =>
         /\ isFinished'[v] = isFinished[v] /\ paused'[v] = paused[v]
         /\ circle'[v] = circle[v] /\ dimmed'[v] = dimmed[v]
         /\ panning'[v] = panning[v]
  BY DEF SwitchInv, SwitchTypeOK
<1>4. SwitchShowsState'
  BY <1>2, <1>3 DEF SwitchInv, SwitchShowsState
<1>5. ASSUME NEW v \in Switches, v \notin Cancels, isFinished'[v] \/ ~panning'[v]
      PROVE  StandsAtEnd(v)'
  BY <1>2, <1>3, <1>5 DEF SwitchInv, StandsAtEnd
<1> QED
  BY <1>1, <1>4, <1>5 DEF SwitchInv

\* A tap, or one state of a drag.
LEMMA SwitchOne ==
    ASSUME SwitchInv, NEW w \in Switches, NEW x \in Nat,
           \/ ImageTapped(w)
           \/ PanBegan(w)
           \/ PanChanged(w, x)
           \/ PanEnded(w, x)
           \/ PanCancelled(w)
    PROVE  SwitchInv'
<1>t. /\ isFinished \in [Switches -> BOOLEAN] /\ paused \in [Switches -> BOOLEAN]
      /\ circle \in [Switches -> marginContainerImage .. xEndingPoint]
      /\ dimmed \in [Switches -> BOOLEAN] /\ panning \in [Switches -> BOOLEAN]
      /\ paused[w] = isFinished[w]
  BY DEF SwitchInv, SwitchTypeOK, SwitchShowsState
<1>b. /\ marginContainerImage \in marginContainerImage .. xEndingPoint
      /\ xEndingPoint \in marginContainerImage .. xEndingPoint
  BY SwitchAssumption
\* What the step leaves alone is written back as it is.
<1>s. /\ isFinished = [isFinished EXCEPT ![w] = isFinished[w]]
      /\ paused = [paused EXCEPT ![w] = isFinished[w]]
      /\ circle = [circle EXCEPT ![w] = circle[w]]
      /\ dimmed = [dimmed EXCEPT ![w] = dimmed[w]]
      /\ panning = [panning EXCEPT ![w] = panning[w]]
  BY <1>t
<1>k. w \notin Cancels /\ (isFinished[w] \/ ~panning[w]) => StandsAtEnd(w)
  BY DEF SwitchInv
<1>n. PICK on \in BOOLEAN, at \in marginContainerImage .. xEndingPoint,
           dim \in BOOLEAN, pan \in BOOLEAN :
         on = isFinished[w] /\ at = circle[w] /\ dim = dimmed[w] /\ pan = panning[w]
  BY <1>t
<1>1. CASE ImageTapped(w)
  <2>1. /\ isFinished' = [isFinished EXCEPT ![w] = ~on]
        /\ paused' = [paused EXCEPT ![w] = ~on]
        /\ circle' = [circle EXCEPT ![w] = IF ~on THEN xEndingPoint
                                                  ELSE marginContainerImage]
        /\ dimmed' = [dimmed EXCEPT ![w] = FALSE]
        /\ panning' = [panning EXCEPT ![w] = pan]
    BY <1>1, <1>n, <1>s DEF ImageTapped, Active, Place
  <2> QED
    BY <2>1, <1>b, SwitchMoved
<1>2. CASE PanBegan(w) \/ PanCancelled(w)
  <2>1. PICK now \in BOOLEAN :
           /\ panning' = [panning EXCEPT ![w] = now]
           /\ now \/ w \in Cancels
    BY <1>2 DEF PanBegan, PanCancelled
  <2>2. /\ isFinished' = [isFinished EXCEPT ![w] = on]
        /\ paused' = [paused EXCEPT ![w] = on]
        /\ circle' = [circle EXCEPT ![w] = at]
        /\ dimmed' = [dimmed EXCEPT ![w] = dim]
    BY <1>2, <1>n, <1>s DEF PanBegan, PanCancelled
  <2>3. w \notin Cancels /\ on =>
           at = xEndingPoint /\ ~dim
    BY <1>k, <1>n DEF StandsAtEnd
  <2> QED
    BY <2>1, <2>2, <2>3, SwitchMoved
<1>3. CASE PanChanged(w, x)
  <2>1. PICK y \in marginContainerImage .. xEndingPoint, now \in BOOLEAN :
           circle' = [circle EXCEPT ![w] = y] /\ dimmed' = [dimmed EXCEPT ![w] = now]
    <3>1. CASE x <= marginContainerImage
      BY <1>3, <3>1, <1>b, <1>n, <1>s, SwitchAssumption DEF PanChanged, Place
    <3>2. CASE x >= xEndingPoint
      BY <1>3, <3>2, <1>b, <1>n, <1>s, SwitchAssumption DEF PanChanged, Place
    <3>3. CASE marginContainerImage < x /\ x < xEndingPoint
      <4>1. x \in marginContainerImage .. xEndingPoint
        BY <3>3, SwitchAssumption
      <4>2. circle' = [circle EXCEPT ![w] = x] /\ dimmed' = [dimmed EXCEPT ![w] = TRUE]
        BY <1>3, <3>3, SwitchAssumption DEF PanChanged, Place
      <4> QED
        BY <4>1, <4>2
    <3> QED
      BY <3>1, <3>2, <3>3, SwitchAssumption
  <2>2. /\ ~on /\ pan
        /\ isFinished' = [isFinished EXCEPT ![w] = on]
        /\ paused' = [paused EXCEPT ![w] = on]
        /\ panning' = [panning EXCEPT ![w] = pan]
    BY <1>3, <1>n, <1>s DEF PanChanged
  <2> QED
    BY <2>1, <2>2, SwitchMoved
<1>4. CASE PanEnded(w, x)
  <2>1. panning' = [panning EXCEPT ![w] = FALSE]
    BY <1>4 DEF PanEnded
  <2>2. CASE isFinished[w]
    <3>1. /\ isFinished' = [isFinished EXCEPT ![w] = on]
          /\ paused' = [paused EXCEPT ![w] = on]
          /\ circle' = [circle EXCEPT ![w] = at]
          /\ dimmed' = [dimmed EXCEPT ![w] = dim]
      BY <1>4, <2>2, <1>n, <1>s DEF PanEnded
    <3>2. w \notin Cancels => at = xEndingPoint /\ ~dim
      BY <2>2, <1>k, <1>n DEF StandsAtEnd
    <3> QED
      BY <2>1, <2>2, <3>1, <3>2, <1>n, SwitchMoved
  <2>3. CASE ~isFinished[w] /\ Active(w, TRUE)
    <3>1. /\ isFinished' = [isFinished EXCEPT ![w] = TRUE]
          /\ paused' = [paused EXCEPT ![w] = TRUE]
          /\ circle' = [circle EXCEPT ![w] = xEndingPoint]
          /\ dimmed' = [dimmed EXCEPT ![w] = FALSE]
      BY <2>3 DEF Active, Place
    <3> QED
      BY <2>1, <3>1, <1>b, SwitchMoved
  <2>4. CASE ~isFinished[w] /\ Reset(w)
    <3>1. /\ isFinished' = [isFinished EXCEPT ![w] = FALSE]
          /\ paused' = [paused EXCEPT ![w] = FALSE]
          /\ circle' = [circle EXCEPT ![w] = marginContainerImage]
          /\ dimmed' = [dimmed EXCEPT ![w] = FALSE]
      BY <2>4, <1>s DEF Reset, Place
    <3> QED
      BY <2>1, <3>1, <1>b, SwitchMoved
  <2> QED
    BY <1>4, <2>2, <2>3, <2>4 DEF PanEnded
<1> QED
  BY <1>1, <1>2, <1>3, <1>4

\* Every tap and every state of a drag keeps the invariant.
LEMMA SwitchStep == SwitchInv /\ SwitchNext => SwitchInv'
<1> SUFFICES ASSUME SwitchInv, SwitchNext PROVE SwitchInv'
  OBVIOUS
<1>1. PICK w \in Switches, x \in Nat :
         \/ ImageTapped(w)
         \/ PanBegan(w)
         \/ PanChanged(w, x)
         \/ PanEnded(w, x)
         \/ PanCancelled(w)
  BY SwitchAssumption DEF SwitchNext
<1> QED
  BY <1>1, SwitchOne

------------------------------------------------------------------------------
\* The cells

\* A cell that was set up and whose downloads cannot fail either shows its picture
\* already or waits for a download of it.
Shows(c) == image[c] # Placeholder /\ (Kind[c] = "home" => image[c] = imageName[c])
Awaited(c, d) == download[d].cell = c /\ download[d].url = imageName[c]

CellInv ==
    /\ CellTypeOK
    /\ HomeCellOwnImage
    /\ \A c \in Cells :
          c \notin DownloadFails /\ imageName[c] # NoUrl
              => Shows(c) \/ \E d \in Downloads : Awaited(c, d)

\* A new cell shows the placeholder and waits for nothing.
LEMMA CellStarts == CellInit => CellInv
BY DEF CellInit, CellInv, CellTypeOK, HomeCellOwnImage

\* Reusing a cell starts the download that it waits for from then on.
LEMMA CellSetup ==
    ASSUME CellInv, NEW c \in Cells, NEW u \in Urls, Setup(c, u)
    PROVE  CellInv'
<1>1. PICK d \in Downloads :
         /\ download[d] = NoDownload
         /\ download' = [download EXCEPT ![d] = [cell |-> c, url |-> u]]
         /\ imageName' = [imageName EXCEPT ![c] = u]
         /\ image' = [image EXCEPT ![c] = Placeholder]
  BY DEF Setup
<1>2. CellTypeOK'
  BY <1>1 DEF CellInv, CellTypeOK
<1>3. HomeCellOwnImage'
  BY <1>1 DEF CellInv, CellTypeOK, HomeCellOwnImage
<1>4. ASSUME NEW b \in Cells, b \notin DownloadFails, imageName'[b] # NoUrl
      PROVE  Shows(b)' \/ \E e \in Downloads : Awaited(b, e)'
  <2>1. CASE b = c
    <3>1. Awaited(b, d)'
      BY <1>1, <2>1 DEF CellInv, CellTypeOK, Awaited
    <3> QED
      BY <3>1
  <2>2. CASE b # c
    <3>1. imageName'[b] = imageName[b] /\ image'[b] = image[b]
      BY <1>1, <2>2 DEF CellInv, CellTypeOK
    <3>2. CASE Shows(b)
      BY <3>1, <3>2 DEF Shows
    <3>3. ASSUME NEW e \in Downloads, Awaited(b, e) PROVE Awaited(b, e)'
      <4>1. e # d
        BY <1>1, <1>4, <3>1, <3>3 DEF Awaited, NoDownload
      <4> QED
        BY <1>1, <3>1, <3>3, <4>1 DEF Awaited, CellInv, CellTypeOK
    <3> QED
      BY <1>4, <3>1, <3>2, <3>3 DEF CellInv
  <2> QED
    BY <2>1, <2>2
<1> QED
  BY <1>2, <1>3, <1>4 DEF CellInv

\* An answer is shown or dropped; only the answer that the cell waits for ends
\* its waiting, and that one is shown.
LEMMA CellAnswer ==
    ASSUME CellInv, NEW d \in Downloads, DownloadDone(d) \/ DownloadFailed(d)
    PROVE  CellInv'
<1> DEFINE c == download[d].cell
           u == download[d].url
<1>0. download[d] \in [cell : Cells, url : Urls]
  BY DEF CellInv, CellTypeOK, DownloadDone, DownloadFailed
<1>1. /\ c \in Cells /\ u \in Urls
      /\ download' = [download EXCEPT ![d] = NoDownload]
      /\ imageName' = imageName
  BY <1>0 DEF DownloadDone, DownloadFailed
<1>2. \/ DownloadFailed(d) /\ image' = image /\ c \in DownloadFails
      \/ DownloadDone(d) /\ Accepts(c, u) /\ image' = [image EXCEPT ![c] = u]
      \/ DownloadDone(d) /\ ~Accepts(c, u) /\ image' = image
  BY DEF DownloadDone, DownloadFailed
<1> HIDE DEF c, u
<1>3. CellTypeOK'
  BY <1>1, <1>2 DEF CellInv, CellTypeOK
<1>4. HomeCellOwnImage'
  BY <1>1, <1>2 DEF CellInv, CellTypeOK, HomeCellOwnImage, Accepts
<1>5. ASSUME NEW b \in Cells, b \notin DownloadFails, imageName'[b] # NoUrl
      PROVE  Shows(b)' \/ \E e \in Downloads : Awaited(b, e)'
  <2>1. CASE Shows(b)
    <3>1. image'[b] # Placeholder /\ (Kind[b] = "home" => image'[b] = imageName'[b])
      BY <1>1, <1>2, <2>1, CellAssumption DEF CellInv, CellTypeOK, Shows, Accepts
    <3> QED
      BY <3>1 DEF Shows
  <2>2. ASSUME NEW e \in Downloads, Awaited(b, e), e # d PROVE Awaited(b, e)'
    BY <1>1, <2>2 DEF Awaited, CellInv, CellTypeOK
  <2>3. CASE Awaited(b, d)
    <3>1. b = c /\ u = imageName[b]
      BY <2>3 DEF Awaited, c, u
    <3>2. image'[b] = u /\ imageName'[b] = u
      BY <3>1, <1>1, <1>2, <1>5 DEF CellInv, CellTypeOK, Accepts
    <3> QED
      BY <3>2, <1>1, CellAssumption DEF Shows
  <2> QED
    BY <1>1, <1>5, <2>1, <2>2, <2>3 DEF CellInv
<1> QED
  BY <1>3, <1>4, <1>5 DEF CellInv

------------------------------------------------------------------------------
\* The screen

HomeInv == TypeOK /\ SwitchInv /\ CellInv

\* Every step of the home screen keeps cells and switches as they should be.
LEMMA HomeKept == Spec => []HomeInv
<1>1. Init => HomeInv
  BY SwitchStarts, CellStarts DEF Init, HomeInv, TypeOK, SwitchInv, CellInv
<1>2. HomeInv /\ [Next]_vars => HomeInv'
  <2> SUFFICES ASSUME HomeInv, [Next]_vars PROVE HomeInv'
    OBVIOUS
  <2>1. ASSUME UNCHANGED cellVars PROVE CellInv'
    BY <2>1 DEF HomeInv, CellInv, CellTypeOK, HomeCellOwnImage, Shows, Awaited, cellVars
  <2>2. ASSUME UNCHANGED switchVars PROVE SwitchInv'
    BY <2>2 DEF HomeInv, SwitchInv, SwitchTypeOK, SwitchShowsState, StandsAtEnd, switchVars
  <2>3. CellInv' /\ SwitchInv'
    <3>1. ASSUME NEW c \in Cells, NEW u \in Urls,
                 CellForItemAt(c, u) \/ CellOfPodcastScreen(c, u)
          PROVE  CellInv' /\ SwitchInv'
      BY <3>1, <2>2, CellSetup DEF HomeInv, CellForItemAt, CellOfPodcastScreen
    <3>2. CASE Downloading /\ UNCHANGED <<switchVars, listVars>>
      BY <3>2, <2>2, CellAnswer DEF HomeInv, Downloading
    <3>3. CASE SwitchNext /\ UNCHANGED <<cellVars, listVars>>
      BY <3>3, <2>1, SwitchStep DEF HomeInv
    <3>4. CASE UNCHANGED <<cellVars, switchVars>>
      BY <3>4, <2>1, <2>2
    <3> QED
      BY <3>1, <3>2, <3>3, <3>4
         DEF Next, FetchPodcastListAndShowOnHomePage, FetchAllPodcastError,
             DidSelectItemAt, SelectTab, vars
  <2>4. /\ query' \in {"asked", "answered"}
        /\ completion' \in {"none", "success", "failure"}
        /\ podcast' \in BOOLEAN /\ loader' \in BOOLEAN
        /\ selectedIndex' \in {0, 1}
    BY DEF HomeInv, TypeOK, Next, FetchPodcastListAndShowOnHomePage,
           FetchAllPodcastError, DidSelectItemAt, SelectTab, CellForItemAt,
           CellOfPodcastScreen, vars, listVars
  <2> QED
    BY <2>3, <2>4 DEF HomeInv, TypeOK, CellInv, SwitchInv
<1> QED
  BY <1>1, <1>2, PTL DEF Spec

\* Every variable of the home screen keeps its type; the circle of a switch never
\* leaves the way between its two ends.
THEOREM HomeTypeCorrect == Spec => []TypeOK
<1>1. HomeInv => TypeOK
  BY DEF HomeInv
<1> QED
  BY <1>1, HomeKept, PTL

\* However often a cell of the home screen is reused and in whatever order the
\* pictures arrive, it shows its own or the placeholder.
THEOREM OwnImage == Spec => []HomeCellOwnImage
<1>1. HomeInv => HomeCellOwnImage
  BY DEF HomeInv, CellInv
<1> QED
  BY <1>1, HomeKept, PTL

\* A cell whose downloads have all come back with a picture shows one, a cell of
\* the home screen its own.
THEOREM Complete == Spec => []CellComplete
<1>1. HomeInv => CellComplete
  BY DEF HomeInv, CellInv, CellComplete, UnderWay, Shows, Awaited
<1> QED
  BY <1>1, HomeKept, PTL

\* The pause picture is shown exactly while the switch is on.
THEOREM SwitchTruth == Spec => []SwitchShowsState
<1>1. HomeInv => SwitchShowsState
  BY DEF HomeInv, SwitchInv
<1> QED
  BY <1>1, HomeKept, PTL

\* A switch on which nothing is dragged stands at the end that tells its state,
\* unless UIKit cancelled a drag on it.
THEOREM SwitchRests == Spec => []SwitchAtRest
<1>1. HomeInv => SwitchAtRest
  BY DEF HomeInv, SwitchInv, SwitchAtRest, StandsAtEnd
<1> QED
  BY <1>1, HomeKept, PTL
===============================================================================
