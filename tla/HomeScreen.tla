----------------------------- MODULE HomeScreen -----------------------------
(***************************************************************************)
(* HomeViewController: two switches, and a row of podcasts that a loader   *)
(* stands in for until fetchAllPodcast of HomePageModel has answered.      *)
(* The home screen has a FirebaseService of its own.                       *)
(***************************************************************************)
EXTENDS ImageCell, SwitchPlayer

CONSTANT ListFails      \* may the query of the list be answered with an error?

ASSUME HomeAssumption == ListFails \in BOOLEAN

VARIABLES
    query,          \* the query of fetchAllPodcastFirebase
    completion,     \* what its onCompletion was called with, if it was
    podcast,        \* have the podcasts been handed to the screen?
    loader,         \* is stackViewLoaderCollectionView visible?
    selectedIndex   \* the tab: 0 is this screen, 1 the podcasts

listVars == <<query, completion, podcast, loader, selectedIndex>>
vars == <<cellVars, switchVars, listVars>>

TypeOK ==
    /\ CellTypeOK
    /\ SwitchTypeOK
    /\ query \in {"asked", "answered"}
    /\ completion \in {"none", "success", "failure"}
    /\ podcast \in BOOLEAN
    /\ loader \in BOOLEAN
    /\ selectedIndex \in {0, 1}

\* viewDidLoad
Init ==
    /\ CellInit
    /\ SwitchInit
    /\ query = "asked"
    /\ completion = "none"
    /\ podcast = FALSE
    /\ loader = TRUE
    /\ selectedIndex = 0

\* fetchAllPodcastFirebase answered, and fetchPodcastListAndShowOnHomePage.
FetchPodcastListAndShowOnHomePage ==
    /\ query = "asked"
    /\ query' = "answered"
    /\ completion' = "success"
    /\ podcast' = TRUE
    /\ loader' = FALSE
    /\ UNCHANGED <<cellVars, switchVars, selectedIndex>>

\* An error comes without a snapshot: the guard on the snapshot returns first.
FetchAllPodcastError ==
    /\ ListFails
    /\ query = "asked"
    /\ query' = "answered"
    /\ UNCHANGED <<cellVars, switchVars, completion, podcast, loader, selectedIndex>>

\* cellForItemAt: a cell that scrolls in shows one of the podcasts.
CellForItemAt(c, u) ==
    /\ podcast
    /\ Kind[c] = "home"
    /\ selectedIndex = 0
    /\ Setup(c, u)
    /\ UNCHANGED <<switchVars, listVars>>

\* The cells of the podcast screen: the carousel's cellForItemAt and the lists'
\* cellForRowAt.
CellOfPodcastScreen(c, u) ==
    /\ Kind[c] # "home"
    /\ selectedIndex = 1
    /\ Setup(c, u)
    /\ UNCHANGED <<switchVars, listVars>>

\* didSelectItemAt shows the podcasts.
DidSelectItemAt ==
    /\ podcast
    /\ selectedIndex = 0
    /\ selectedIndex' = 1
    /\ UNCHANGED <<cellVars, switchVars, query, completion, podcast, loader>>

\* The buttons of the tab bar.
SelectTab(index) ==
    /\ selectedIndex' = index
    /\ UNCHANGED <<cellVars, switchVars, query, completion, podcast, loader>>

Next ==
    \/ FetchPodcastListAndShowOnHomePage
    \/ FetchAllPodcastError
    \/ \E c \in Cells, u \in Urls : CellForItemAt(c, u) \/ CellOfPodcastScreen(c, u)
    \/ DidSelectItemAt
    \/ \E index \in {0, 1} : SelectTab(index)
    \/ Downloading /\ UNCHANGED <<switchVars, listVars>>
    \/ selectedIndex = 0 /\ SwitchNext /\ UNCHANGED <<cellVars, listVars>>

Spec == Init /\ [][Next]_vars

------------------------------------------------------------------------------
\* Properties

\* An answered query has called its completion, with success or with failure.
AnswerIsReported == query = "answered" => completion # "none"
==============================================================================
