--------------------------- MODULE FirebaseService ---------------------------
(***************************************************************************)
(* FirebaseService and PodcastPageModel: the list of podcasts, the first   *)
(* page of episodes of each, and the further pages as the user scrolls.    *)
(*                                                                         *)
(* A podcast's episodes are the documents of a Firestore collection; the   *)
(* n-th document is n.  Every method runs on the main thread and so does   *)
(* every Firestore callback, but the callbacks of several requests come    *)
(* back in any order, late, with an error or, when the device is offline,  *)
(* with what the local cache happens to hold.  A Swift runtime trap ends   *)
(* the process: no action is possible after it.                            *)
(***************************************************************************)
EXTENDS Naturals, Sequences, FiniteSets

CONSTANTS
    Podcasts,       \* the documents of the collection "Podcast"
    Count,          \* Count[p]: how many episodes the server has of p
    podcastLimit,   \* 5 in the code
    Requests,       \* bound: the loadMoreData queries in flight at one time
    NoPodcast,      \* an unused request
    Offline,        \* may a query be answered from the cache?
    Fails           \* may a query be answered with an error?

ASSUME ServiceAssumption ==
    /\ NoPodcast \notin Podcasts
    /\ Count \in [Podcasts -> Nat]
    /\ podcastLimit \in Nat \ {0}
    /\ Offline \in BOOLEAN
    /\ Fails \in BOOLEAN

VARIABLES
    list,               \* the query of fetchAllPodcastFirebase
    first,              \* first[p]: the query of fetchEpisodeOnPosdcastFirebase
    arrayLastDocument,  \* arrayLastDocument[p]: its number, 0 for no entry
    isLoading,
    request,            \* request[r]: podcast and start of a loadMoreData query
    delivered,          \* delivered[p]: the episodes completions got, in order
    cached,             \* cached[p]: the documents 1..n of p are in the cache
    trapped             \* has the process hit a Swift runtime trap?

serviceVars == <<list, first, arrayLastDocument, isLoading, request, delivered,
                 cached, trapped>>

QueryStates == {"none", "asked", "done"}
Free == [podcast |-> NoPodcast, after |-> 0]
Request == [podcast : Podcasts \cup {NoPodcast}, after : Nat]

ServiceTypeOK ==
    /\ list \in QueryStates
    /\ first \in [Podcasts -> QueryStates]
    /\ arrayLastDocument \in [Podcasts -> Nat]
    /\ isLoading \in BOOLEAN
    /\ request \in [Requests -> Request]
    /\ delivered \in [Podcasts -> Seq(Nat)]
    /\ cached \in [Podcasts -> Nat]
    /\ trapped \in BOOLEAN

\* viewDidLoad has asked for the list.  Earlier launches left some prefix of
\* each collection in the cache.
ServiceInit ==
    /\ list = "asked"
    /\ first = [p \in Podcasts |-> "none"]
    /\ arrayLastDocument = [p \in Podcasts |-> 0]
    /\ isLoading = FALSE
    /\ request = [r \in Requests |-> Free]
    /\ delivered = [p \in Podcasts |-> <<>>]
    /\ cached \in {c \in [Podcasts -> UNION {0 .. Count[p] : p \in Podcasts}] :
                     \A p \in Podcasts : c[p] <= Count[p]}
    /\ trapped = FALSE

------------------------------------------------------------------------------
\* Firestore

Least(m, n) == IF m <= n THEN m ELSE n
Greatest(m, n) == IF m <= n THEN n ELSE m

\* The documents after `after', at most podcastLimit, of the first `upto'.
PageLength(after, upto) == IF upto <= after THEN 0
                           ELSE Least(podcastLimit, upto - after)
Page(after, upto) == [i \in 1 .. PageLength(after, upto) |-> after + i]

\* How far an answer may look: the server's collection, or the cache.
Sources(p) == {Count[p]} \cup (IF Offline THEN {cached[p]} ELSE {})

Cache(p, n) == cached' = [cached EXCEPT ![p] = Greatest(@, n)]

------------------------------------------------------------------------------
\* The list of podcasts

\* fetchAllPodcastFirebase answered: fetchPodcastList starts one fetch per
\* podcast.  Offline, a list that was never fetched is empty.
FetchPodcastList ==
    /\ ~trapped
    /\ list = "asked"
    /\ list' = "done"
    /\ \E ps \in {Podcasts} \cup (IF Offline THEN {{}} ELSE {}) :
          first' = [p \in Podcasts |-> IF p \in ps THEN "asked" ELSE first[p]]
    /\ UNCHANGED <<arrayLastDocument, isLoading, request, delivered, cached, trapped>>

\* An error comes without a snapshot: the guard returns before it is looked at.
FetchPodcastListError ==
    /\ Fails
    /\ ~trapped
    /\ list = "asked"
    /\ list' = "done"
    /\ UNCHANGED <<first, arrayLastDocument, isLoading, request, delivered, cached,
                   trapped>>

------------------------------------------------------------------------------
\* The first page: fetchEpisodeOnPosdcastFirebase answered

FirstAnswer(p) ==
    /\ ~trapped
    /\ first[p] = "asked"
    /\ first' = [first EXCEPT ![p] = "done"]
    /\ \E upto \in Sources(p) :
          LET n == PageLength(0, upto)
          IN  \/ \* documents.last as! DocumentSnapshot
                 /\ n = 0
                 /\ trapped' = TRUE
                 /\ UNCHANGED <<arrayLastDocument, delivered, cached>>
              \/ /\ n > 0
                 /\ arrayLastDocument' = [arrayLastDocument EXCEPT ![p] = n]
                 /\ delivered' = [delivered EXCEPT ![p] = @ \o Page(0, upto)]
                 /\ Cache(p, n)
                 /\ UNCHANGED trapped
    /\ UNCHANGED <<list, isLoading, request>>

FirstError(p) ==
    /\ Fails
    /\ ~trapped
    /\ first[p] = "asked"
    /\ first' = [first EXCEPT ![p] = "done"]
    /\ UNCHANGED <<list, arrayLastDocument, isLoading, request, delivered, cached,
                   trapped>>

------------------------------------------------------------------------------
\* Further pages: loadMoreData

\* Mutant of LoadMoreData: the guard looks at the cursor only.
LoadMoreDataTwice(p) ==
    /\ ~trapped
    /\ arrayLastDocument[p] # 0
    /\ isLoading' = TRUE
    /\ \E r \in Requests :
          /\ request[r] = Free
          /\ request' = [request EXCEPT
                ![r] = [podcast |-> p, after |-> arrayLastDocument[p]]]
    /\ UNCHANGED <<list, first, arrayLastDocument, delivered, cached, trapped>>

\* loadMoreData up to the callback.
LoadMoreData(p) ==
    /\ ~trapped
    /\ arrayLastDocument[p] # 0
    /\ ~isLoading
    /\ isLoading' = TRUE
    /\ \E r \in Requests :
          /\ request[r] = Free
          /\ request' = [request EXCEPT
                ![r] = [podcast |-> p, after |-> arrayLastDocument[p]]]
    /\ UNCHANGED <<list, first, arrayLastDocument, delivered, cached, trapped>>

\* The callback: an empty answer takes the podcast's entry out.
LoadAnswer(r) ==
    LET p == request[r].podcast
        after == request[r].after
    IN  /\ ~trapped
        /\ request[r] # Free
        /\ request' = [request EXCEPT ![r] = Free]
        /\ isLoading' = FALSE
        /\ \E upto \in Sources(p) :
              LET n == PageLength(after, upto)
              IN  /\ arrayLastDocument' =
                        [arrayLastDocument EXCEPT ![p] = IF n = 0 THEN 0 ELSE after + n]
                  /\ delivered' = [delivered EXCEPT ![p] = @ \o Page(after, upto)]
                  /\ Cache(p, after + n)
        /\ UNCHANGED <<list, first, trapped>>

\* Mutant of LoadError: the flag goes down in the success branch only.
LoadErrorStuck(r) ==
    /\ Fails
    /\ ~trapped
    /\ request[r] # Free
    /\ request' = [request EXCEPT ![r] = Free]
    /\ UNCHANGED <<list, first, arrayLastDocument, isLoading, delivered, cached,
                   trapped>>

\* Mutant of LoadError: the cursor is moved before the error is looked at.
LoadErrorEnds(r) ==
    /\ Fails
    /\ ~trapped
    /\ request[r] # Free
    /\ request' = [request EXCEPT ![r] = Free]
    /\ isLoading' = FALSE
    /\ arrayLastDocument' = [arrayLastDocument EXCEPT ![request[r].podcast] = 0]
    /\ UNCHANGED <<list, first, delivered, cached, trapped>>

\* The callback with an error.
LoadError(r) ==
    /\ Fails
    /\ ~trapped
    /\ request[r] # Free
    /\ request' = [request EXCEPT ![r] = Free]
    /\ isLoading' = FALSE
    /\ UNCHANGED <<list, first, arrayLastDocument, delivered, cached, trapped>>

------------------------------------------------------------------------------
Callback ==
    \/ FetchPodcastList
    \/ FetchPodcastListError
    \/ \E p \in Podcasts : FirstAnswer(p) \/ FirstError(p)
    \/ \E r \in Requests : LoadAnswer(r) \/ LoadError(r)

\* scrollViewDidScroll reaches the bottom of a list and asks again and again;
\* when loadMoreData's guard returns, nothing happens.
ServiceNext == Callback \/ \E p \in Podcasts : LoadMoreData(p)

\* Everything is answered and every list has ended: nothing is left to do.
AtRest ==
    /\ list = "done"
    /\ \A p \in Podcasts : first[p] # "asked" /\ arrayLastDocument[p] = 0
    /\ \A r \in Requests : request[r] = Free
    /\ UNCHANGED serviceVars

\* Firestore answers every query, and not with an error for ever; the user
\* keeps scrolling in every list.
ServiceFairness ==
    /\ WF_serviceVars(FetchPodcastList)
    /\ \A p \in Podcasts : WF_serviceVars(FirstAnswer(p))
    /\ \A r \in Requests : SF_serviceVars(LoadAnswer(r))
    /\ \A p \in Podcasts : SF_serviceVars(LoadMoreData(p))

ServiceSpec ==
    /\ ServiceInit
    /\ [][ServiceNext \/ AtRest]_serviceVars
    /\ ServiceFairness

------------------------------------------------------------------------------
\* Properties

\* The episodes handed over for a podcast are its documents from the first on,
\* in order, none skipped and none twice, whatever order the answers of the
\* podcasts come in: one cursor per podcast and one flag for all suffice.
NoGapNoRepeat ==
    \A p \in Podcasts :
        delivered[p] = [i \in 1 .. Len(delivered[p]) |-> i]

\* A podcast that got its first page and has no cursor any more has been read to
\* its end.  (arrayLastDocument[podcastName] = documents.last)
EndedMeansComplete ==
    \A p \in Podcasts :
        delivered[p] # <<>> /\ arrayLastDocument[p] = 0
            => Len(delivered[p]) = Count[p]

\* isLoading is up exactly while a loadMoreData query is out: no answer and no
\* error leaves it up for ever, and it never lets a second query out.
LoadingFlag ==
    /\ isLoading <=> \E r \in Requests : request[r] # Free
    /\ \A r, s \in Requests : request[r] # Free /\ request[s] # Free => r = s

\* A podcast whose first page arrived is read to the end by a user who keeps
\* scrolling, although the one isLoading flag is shared by all podcasts and some
\* queries fail.
EveryEpisodeArrives ==
    \A p \in Podcasts :
        delivered[p] # <<>> ~> Len(delivered[p]) = Count[p]

\* Online, cursors, flag, errors and callbacks amount to EpisodeFeed.
Feed == INSTANCE EpisodeFeed WITH
    read <- [p \in Podcasts |-> Len(delivered[p])],
    ended <- {p \in Podcasts : delivered[p] # <<>> /\ arrayLastDocument[p] = 0}
FeedsEpisodes == Feed!Spec
==============================================================================
