------------------------ MODULE FirebaseServiceProofs ------------------------
(***************************************************************************)
(* The paging of FirebaseService, for every number of podcasts, episodes   *)
(* and episodes per page.                                                  *)
(***************************************************************************)
EXTENDS FirebaseService, SequenceTheorems, TLAPS

Upto(n) == [i \in 1 .. n |-> i]

\* A page continues what was delivered before it.
LEMMA PageContinues ==
    ASSUME NEW n \in Nat, NEW upto \in Nat
    PROVE  /\ PageLength(n, upto) \in Nat
           /\ Page(n, upto) \in Seq(Nat)
           /\ Len(Page(n, upto)) = PageLength(n, upto)
           /\ Upto(n) \in Seq(Nat) /\ Len(Upto(n)) = n
           /\ Upto(n) \o Page(n, upto) = Upto(n + PageLength(n, upto))
<1>1. PageLength(n, upto) \in Nat
  BY ServiceAssumption DEF PageLength, Least
<1> DEFINE m == PageLength(n, upto)
<1> HIDE DEF m
<1>2. m \in Nat
  BY <1>1 DEF m
<1>3. Page(n, upto) = [i \in 1 .. m |-> n + i]
  BY DEF Page, m
<1>4. Page(n, upto) \in Seq(Nat) /\ Len(Page(n, upto)) = m
  BY <1>2, <1>3
<1>5. Upto(n) \in Seq(Nat) /\ Len(Upto(n)) = n
  BY DEF Upto
<1>6. Upto(n) \o Page(n, upto) = Upto(n + m)
  <2> DEFINE a == Upto(n)
             b == Page(n, upto)
             s == a \o b
             u == Upto(n + m)
  <2>0. a \in Seq(Nat) /\ b \in Seq(Nat) /\ Len(a) = n /\ Len(b) = m
    BY <1>4, <1>5
  <2>1. /\ s \in Seq(Nat) /\ Len(s) = n + m
        /\ \A i \in 1 .. n + m :
              s[i] = IF i <= n THEN a[i] ELSE b[i - n]
    <3> HIDE DEF a, b
    <3> QED
      BY <2>0, ConcatProperties
  <2>2. u \in Seq(Nat) /\ Len(u) = n + m /\ \A i \in 1 .. n + m : u[i] = i
    BY <1>2 DEF Upto
  <2>3. \A i \in 1 .. n + m :
           (IF i <= n THEN a[i] ELSE b[i - n]) = i
    BY <1>2, <1>3 DEF Upto
  <2> HIDE DEF s, u
  <2>4. s = u
    BY <2>1, <2>2, <2>3, SeqEqual
  <2> QED
    BY <2>4 DEF s, u
<1> QED
  BY <1>1, <1>4, <1>5, <1>6 DEF m

\* Nothing delivered is the sequence up to 0.
LEMMA UptoNothing == Upto(0) = <<>> /\ Len(<<>>) = 0
<1>1. Upto(0) \in Seq(Nat) /\ Len(Upto(0)) = 0
  BY DEF Upto
<1> QED
  BY <1>1, EmptySeq

------------------------------------------------------------------------------
\* A cursor is the last document delivered, or gone; before the first page there
\* is neither.
CursorInv ==
    \A p \in Podcasts :
        /\ delivered[p] = Upto(Len(delivered[p]))
        /\ arrayLastDocument[p] \in {0, Len(delivered[p])}
        /\ first[p] # "done" => delivered[p] = <<>> /\ arrayLastDocument[p] = 0
        /\ list = "asked" => first[p] = "none"

\* A query that is out starts at its podcast's cursor, which nobody moves
\* meanwhile.
RequestInv ==
    \A r \in Requests :
        request[r] # Free =>
            /\ request[r].podcast \in Podcasts
            /\ request[r].after # 0
            /\ request[r].after = arrayLastDocument[request[r].podcast]
            /\ request[r].after = Len(delivered[request[r].podcast])

PagingInv == ServiceTypeOK /\ CursorInv /\ RequestInv /\ LoadingFlag

\* viewDidLoad leaves no cursor and no query of loadMoreData.
LEMMA PagingInit == ServiceInit => PagingInv
<1> SUFFICES ASSUME ServiceInit PROVE PagingInv
  OBVIOUS
<1>1. cached \in [Podcasts -> Nat]
  <2>1. \A p \in Podcasts : Count[p] \in Nat
    BY ServiceAssumption
  <2>2. UNION {0 .. Count[p] : p \in Podcasts} \subseteq Nat
    BY <2>1
  <2>3. cached \in [Podcasts -> UNION {0 .. Count[p] : p \in Podcasts}]
    BY DEF ServiceInit
  <2> QED
    BY <2>2, <2>3
<1>2. <<>> = Upto(0) /\ Len(<<>>) = 0
  BY UptoNothing
<1>3. ServiceTypeOK
  <2>1. delivered \in [Podcasts -> Seq(Nat)]
    BY EmptySeq DEF ServiceInit
  <2>2. request \in [Requests -> Request]
    BY DEF ServiceInit, Free, Request
  <2> QED
    BY <1>1, <2>1, <2>2 DEF ServiceInit, ServiceTypeOK, QueryStates
<1>4. CursorInv
  BY <1>2 DEF ServiceInit, CursorInv
<1>5. RequestInv /\ LoadingFlag
  BY DEF ServiceInit, RequestInv, LoadingFlag
<1> QED
  BY <1>3, <1>4, <1>5 DEF PagingInv

\* Neither the list of podcasts nor an error moves a cursor.
LEMMA PagingList ==
    ASSUME PagingInv, FetchPodcastList \/ FetchPodcastListError
    PROVE  PagingInv'
<1>1. ServiceTypeOK'
  BY DEF PagingInv, ServiceTypeOK, FetchPodcastList, FetchPodcastListError, QueryStates
<1>2. CursorInv'
  BY DEF PagingInv, CursorInv, FetchPodcastList, FetchPodcastListError, QueryStates
<1>3. RequestInv' /\ LoadingFlag'
  BY DEF PagingInv, RequestInv, LoadingFlag, FetchPodcastList, FetchPodcastListError
<1> QED
  BY <1>1, <1>2, <1>3 DEF PagingInv

\* A first page sets the cursor to its last document; an empty one traps before
\* it sets anything, and an error sets nothing.
LEMMA PagingFirst ==
    ASSUME PagingInv, NEW p \in Podcasts, FirstAnswer(p) \/ FirstError(p)
    PROVE  PagingInv'
<1> USE DEF PagingInv
<1>c. \A u \in Sources(p) : u \in Nat
  BY ServiceAssumption DEF Sources, ServiceTypeOK
<1>0. /\ first[p] = "asked" /\ first' = [first EXCEPT ![p] = "done"]
      /\ UNCHANGED <<list, isLoading, request>>
      /\ delivered[p] = <<>> /\ arrayLastDocument[p] = 0
  BY DEF FirstAnswer, FirstError, CursorInv
<1>n. \A r \in Requests : request[r] # Free => request[r].podcast # p
  BY <1>0 DEF RequestInv
<1>1. CASE UNCHANGED <<arrayLastDocument, delivered, cached>>
  <2>1. ServiceTypeOK'
    BY <1>0, <1>1 DEF ServiceTypeOK, QueryStates, FirstAnswer, FirstError
  <2>2. CursorInv'
    BY <1>0, <1>1 DEF CursorInv, ServiceTypeOK
  <2>3. RequestInv' /\ LoadingFlag'
    BY <1>0, <1>1 DEF RequestInv, LoadingFlag
  <2> QED
    BY <2>1, <2>2, <2>3
<1>2. ASSUME NEW upto \in Sources(p), PageLength(0, upto) > 0,
             arrayLastDocument' = [arrayLastDocument EXCEPT ![p] = PageLength(0, upto)],
             delivered' = [delivered EXCEPT ![p] = @ \o Page(0, upto)],
             Cache(p, PageLength(0, upto)), UNCHANGED trapped
      PROVE  PagingInv'
  <2> DEFINE n == PageLength(0, upto)
  <2>1. /\ n \in Nat /\ Upto(0) = <<>>
        /\ delivered'[p] = Upto(n) /\ Upto(n) \in Seq(Nat) /\ Len(Upto(n)) = n
    <3>1. n \in Nat /\ Page(0, upto) \in Seq(Nat)
          /\ Upto(0) \o Page(0, upto) = Upto(n)
      <4>1. n \in Nat /\ Page(0, upto) \in Seq(Nat)
            /\ Upto(0) \o Page(0, upto) = Upto(0 + n)
        BY <1>c, PageContinues
      <4>2. 0 + n = n
        BY <4>1
      <4> QED
        BY <4>1, <4>2
    <3>2. Upto(0) = <<>>
      BY UptoNothing
    <3>3. delivered'[p] = delivered[p] \o Page(0, upto)
      BY <1>2 DEF ServiceTypeOK
    <3> QED
      BY <3>1, <3>2, <3>3, <1>0, PageContinues
  <2> HIDE DEF n
  <2>2. arrayLastDocument'[p] = n /\ arrayLastDocument' \in [Podcasts -> Nat]
    BY <1>2, <2>1 DEF ServiceTypeOK, n
  <2>3. ServiceTypeOK'
    <3>1. cached' \in [Podcasts -> Nat]
      BY <1>2, <2>1 DEF ServiceTypeOK, Cache, Greatest, n
    <3>2. delivered' \in [Podcasts -> Seq(Nat)]
      BY <1>2, <2>1 DEF ServiceTypeOK
    <3> QED
      BY <3>1, <3>2, <2>2, <1>0, <1>2 DEF ServiceTypeOK, QueryStates
  <2>4. \A q \in Podcasts : q # p => /\ delivered'[q] = delivered[q]
                                     /\ arrayLastDocument'[q] = arrayLastDocument[q]
                                     /\ first'[q] = first[q]
    BY <1>0, <1>2 DEF ServiceTypeOK
  <2>5. CursorInv'
    <3> SUFFICES ASSUME NEW q \in Podcasts
                 PROVE  /\ delivered'[q] = Upto(Len(delivered'[q]))
                        /\ arrayLastDocument'[q] \in {0, Len(delivered'[q])}
                        /\ first'[q] # "done" =>
                              delivered'[q] = <<>> /\ arrayLastDocument'[q] = 0
                        /\ list' = "asked" => first'[q] = "none"
      BY DEF CursorInv, Upto
    <3>1. CASE q = p
      BY <3>1, <2>1, <2>2, <1>0 DEF ServiceTypeOK, CursorInv
    <3>2. CASE q # p
      BY <3>2, <2>4, <1>0 DEF CursorInv
    <3> QED
      BY <3>1, <3>2
  <2>6. RequestInv'
    BY <2>4, <1>0, <1>n DEF RequestInv
  <2>7. LoadingFlag'
    BY <1>0 DEF LoadingFlag
  <2> QED
    BY <2>3, <2>5, <2>6, <2>7
<1> QED
  BY <1>1, <1>2 DEF FirstAnswer, FirstError

\* A query goes out only while none is out, from the podcast's cursor.
LEMMA PagingLoad ==
    ASSUME PagingInv, NEW p \in Podcasts, LoadMoreData(p)
    PROVE  PagingInv'
<1> USE DEF PagingInv
<1>1. PICK r \in Requests :
         /\ request[r] = Free
         /\ request' = [request EXCEPT
               ![r] = [podcast |-> p, after |-> arrayLastDocument[p]]]
  BY DEF LoadMoreData
<1>2. /\ arrayLastDocument[p] # 0 /\ ~isLoading /\ isLoading' = TRUE
      /\ UNCHANGED <<list, first, arrayLastDocument, delivered, cached, trapped>>
  BY DEF LoadMoreData
<1> DEFINE new == [podcast |-> p, after |-> arrayLastDocument[p]]
<1>3. request'[r] = new /\ \A s \in Requests : s # r => request'[s] = Free
  BY <1>1, <1>2 DEF ServiceTypeOK, LoadingFlag
<1>4. new # Free /\ new \in Request
  BY ServiceAssumption DEF Free, Request, ServiceTypeOK
<1>5. ServiceTypeOK'
  BY <1>1, <1>2, <1>4 DEF ServiceTypeOK
<1>6. CursorInv'
  BY <1>2 DEF CursorInv
<1>7. arrayLastDocument[p] = Len(delivered[p])
  BY <1>2 DEF CursorInv
<1>8. new.podcast = p /\ new.after = arrayLastDocument[p]
  OBVIOUS
<1> HIDE DEF new
<1>9. RequestInv'
  BY <1>2, <1>3, <1>7, <1>8 DEF RequestInv
<1>10. LoadingFlag'
  BY <1>2, <1>3, <1>4 DEF LoadingFlag
<1> QED
  BY <1>5, <1>6, <1>9, <1>10

\* An error lowers the flag and leaves the cursor for the next scroll.
LEMMA PagingError ==
    ASSUME PagingInv, NEW r \in Requests, LoadError(r)
    PROVE  PagingInv'
<1> USE DEF PagingInv
<1>1. /\ request[r] # Free /\ request' = [request EXCEPT ![r] = Free]
      /\ isLoading' = FALSE
      /\ UNCHANGED <<list, first, arrayLastDocument, delivered, cached, trapped>>
  BY DEF LoadError
<1>2. \A s \in Requests : request'[s] = Free
  BY <1>1 DEF ServiceTypeOK, LoadingFlag
<1>3. Free \in Request
  BY DEF Free, Request
<1>4. ServiceTypeOK'
  BY <1>1, <1>3 DEF ServiceTypeOK
<1>5. CursorInv'
  BY <1>1 DEF CursorInv
<1>6. RequestInv' /\ LoadingFlag'
  BY <1>1, <1>2 DEF RequestInv, LoadingFlag
<1> QED
  BY <1>4, <1>5, <1>6

\* An answer continues exactly where its podcast stands.
LEMMA PagingAnswer ==
    ASSUME PagingInv, NEW r \in Requests, LoadAnswer(r)
    PROVE  PagingInv'
<1> USE DEF PagingInv
<1>0. request[r] # Free /\ request[r].podcast \in Podcasts
  BY DEF LoadAnswer, RequestInv
<1>p. PICK p \in Podcasts : p = request[r].podcast
  BY <1>0
<1>1. /\ request' = [request EXCEPT ![r] = Free] /\ isLoading' = FALSE
      /\ UNCHANGED <<list, first, trapped>>
  BY DEF LoadAnswer
<1> DEFINE after == Len(delivered[p])
<1>2. /\ request[r].after = after /\ after # 0 /\ arrayLastDocument[p] = after
      /\ after \in Nat /\ delivered[p] = Upto(after) /\ first[p] = "done"
  BY <1>0, <1>p DEF RequestInv, CursorInv, ServiceTypeOK
<1>3. PICK upto \in Sources(p) :
         /\ arrayLastDocument' = [arrayLastDocument EXCEPT ![p] =
               IF PageLength(after, upto) = 0 THEN 0 ELSE after + PageLength(after, upto)]
         /\ delivered' = [delivered EXCEPT ![p] = @ \o Page(after, upto)]
         /\ Cache(p, after + PageLength(after, upto))
  BY <1>p, <1>2 DEF LoadAnswer
<1>c. upto \in Nat
  BY ServiceAssumption DEF Sources, ServiceTypeOK
<1> DEFINE n == PageLength(after, upto)
           m == after + n
<1>4. /\ n \in Nat /\ m \in Nat
      /\ Upto(after) \o Page(after, upto) = Upto(m)
      /\ Upto(m) \in Seq(Nat) /\ Len(Upto(m)) = m
  <2>1. n \in Nat /\ Upto(after) \o Page(after, upto) = Upto(m)
    BY <1>c, <1>2, PageContinues
  <2>2. m \in Nat
    BY <2>1, <1>2
  <2> HIDE DEF m
  <2> QED
    BY <2>1, <2>2, PageContinues
<1>5. delivered'[p] = Upto(m)
  BY <1>2, <1>3, <1>4 DEF ServiceTypeOK
<1>6. arrayLastDocument'[p] = IF n = 0 THEN 0 ELSE m
  BY <1>3 DEF ServiceTypeOK
<1>7. \A q \in Podcasts : q # p => /\ delivered'[q] = delivered[q]
                                   /\ arrayLastDocument'[q] = arrayLastDocument[q]
  BY <1>3 DEF ServiceTypeOK
<1>8. \A s \in Requests : request'[s] = Free
  BY <1>0, <1>1 DEF ServiceTypeOK, LoadingFlag
<1> HIDE DEF n, m, after
<1>9. ServiceTypeOK'
  <2>1. cached' \in [Podcasts -> Nat]
    BY <1>3, <1>4 DEF ServiceTypeOK, Cache, Greatest, n, m
  <2>2. delivered' \in [Podcasts -> Seq(Nat)]
    BY <1>3, <1>4, <1>5 DEF ServiceTypeOK
  <2>3. arrayLastDocument' \in [Podcasts -> Nat]
    BY <1>3, <1>4, <1>6 DEF ServiceTypeOK
  <2>4. request' \in [Requests -> Request]
    BY <1>1 DEF ServiceTypeOK, Free, Request
  <2> QED
    BY <2>1, <2>2, <2>3, <2>4, <1>1 DEF ServiceTypeOK
<1>10. CursorInv'
  <2> SUFFICES ASSUME NEW q \in Podcasts
               PROVE  /\ delivered'[q] = Upto(Len(delivered'[q]))
                      /\ arrayLastDocument'[q] \in {0, Len(delivered'[q])}
                      /\ first'[q] # "done" =>
                            delivered'[q] = <<>> /\ arrayLastDocument'[q] = 0
                      /\ list' = "asked" => first'[q] = "none"
    BY DEF CursorInv, Upto
  <2>1. CASE q = p
    BY <2>1, <1>1, <1>2, <1>4, <1>5, <1>6 DEF CursorInv
  <2>2. CASE q # p
    BY <2>2, <1>1, <1>7 DEF CursorInv
  <2> QED
    BY <2>1, <2>2
<1>11. RequestInv' /\ LoadingFlag'
  BY <1>1, <1>8 DEF RequestInv, LoadingFlag
<1> QED
  BY <1>9, <1>10, <1>11

\* Every callback and every scroll keeps the invariant of the paging.
LEMMA PagingStep == PagingInv /\ [ServiceNext \/ AtRest]_serviceVars => PagingInv'
<1>1. ASSUME PagingInv, UNCHANGED serviceVars PROVE PagingInv'
  BY <1>1 DEF PagingInv, ServiceTypeOK, CursorInv, RequestInv, LoadingFlag, serviceVars
<1> QED
  BY <1>1, PagingList, PagingFirst, PagingLoad, PagingError, PagingAnswer
     DEF ServiceNext, AtRest, Callback

\* In every state, cursors, queries and delivered episodes agree.
LEMMA PagingKept == ServiceSpec => []PagingInv
BY PagingInit, PagingStep, PTL DEF ServiceSpec

\* Whatever the order of the answers, with errors and answers from the cache, the
\* episodes of a podcast arrive in order, none missing and none twice.
THEOREM Paging == ServiceSpec => []NoGapNoRepeat
<1>1. PagingInv => NoGapNoRepeat
  BY DEF PagingInv, CursorInv, NoGapNoRepeat, Upto
<1> QED
  BY <1>1, PagingKept, PTL

\* isLoading is up exactly while a query of loadMoreData is out, and there is
\* never a second one.
THEOREM OneQuery == ServiceSpec => []LoadingFlag
<1>1. PagingInv => LoadingFlag
  BY DEF PagingInv
<1> QED
  BY <1>1, PagingKept, PTL

------------------------------------------------------------------------------
\* Without answers from the cache

\* What is delivered is on the server, and a podcast is only given up at its end.
CompleteInv ==
    \A p \in Podcasts :
        /\ Len(delivered[p]) <= Count[p]
        /\ delivered[p] # <<>> /\ arrayLastDocument[p] = 0
              => Len(delivered[p]) = Count[p]

\* At launch nothing is delivered.
LEMMA CompleteInit == ServiceInit => CompleteInv
<1> SUFFICES ASSUME ServiceInit, NEW p \in Podcasts
             PROVE  Len(delivered[p]) <= Count[p] /\ delivered[p] = <<>>
  BY DEF CompleteInv
<1>1. delivered[p] = <<>> /\ Count[p] \in Nat
  BY ServiceAssumption DEF ServiceInit
<1> QED
  BY <1>1, UptoNothing

\* An answer from the server hands over what the collection still holds, and an
\* empty one comes only at its end.
LEMMA CompleteStep ==
    ASSUME Offline = FALSE
    PROVE  PagingInv /\ CompleteInv /\ [ServiceNext \/ AtRest]_serviceVars
              => CompleteInv'
<1> SUFFICES ASSUME PagingInv, CompleteInv, [ServiceNext \/ AtRest]_serviceVars
             PROVE  CompleteInv'
  OBVIOUS
<1>1. CASE UNCHANGED <<delivered, arrayLastDocument>>
  BY <1>1 DEF CompleteInv
<1>2. ASSUME NEW p \in Podcasts, FirstAnswer(p) PROVE CompleteInv'
  <2>1. delivered[p] = <<>> /\ Count[p] \in Nat /\ Sources(p) = {Count[p]}
    BY <1>2, ServiceAssumption DEF FirstAnswer, PagingInv, CursorInv, Sources
  <2> DEFINE n == PageLength(0, Count[p])
  <2>2. CASE n = 0
    BY <1>1, <1>2, <2>1, <2>2 DEF FirstAnswer
  <2>3. CASE n # 0
    <3>1. n \in Nat /\ Page(0, Count[p]) \in Seq(Nat) /\ Len(Page(0, Count[p])) = n
      BY <2>1, PageContinues
    <3>2. n <= Count[p]
      BY <2>1, ServiceAssumption DEF PageLength, Least
    <3>3. /\ arrayLastDocument' = [arrayLastDocument EXCEPT ![p] = n]
          /\ delivered' = [delivered EXCEPT ![p] = @ \o Page(0, Count[p])]
      BY <1>2, <2>1, <2>3 DEF FirstAnswer
    <3>4. delivered'[p] = Page(0, Count[p])
      BY <2>1, <3>1, <3>3, ConcatEmptySeq DEF PagingInv, ServiceTypeOK
    <3>5. /\ Len(delivered'[p]) <= Count[p] /\ arrayLastDocument'[p] # 0
      BY <3>1, <3>2, <3>3, <3>4, <2>3 DEF PagingInv, ServiceTypeOK
    <3>6. \A q \in Podcasts : q # p => /\ delivered'[q] = delivered[q]
                                       /\ arrayLastDocument'[q] = arrayLastDocument[q]
      BY <3>3 DEF PagingInv, ServiceTypeOK
    <3> QED
      BY <3>5, <3>6 DEF CompleteInv
  <2> QED
    BY <2>2, <2>3
<1>3. ASSUME NEW r \in Requests, LoadAnswer(r) PROVE CompleteInv'
  <2>0. request[r] # Free /\ request[r].podcast \in Podcasts
    BY <1>3 DEF LoadAnswer, PagingInv, RequestInv
  <2>p. PICK p \in Podcasts : p = request[r].podcast
    BY <2>0
  <2> DEFINE after == Len(delivered[p])
  <2>1. /\ request[r].after = after /\ after \in Nat /\ delivered[p] \in Seq(Nat)
        /\ after <= Count[p] /\ Count[p] \in Nat /\ Sources(p) = {Count[p]}
    BY <2>0, <2>p, ServiceAssumption
       DEF PagingInv, RequestInv, ServiceTypeOK, CompleteInv, Sources
  <2> DEFINE n == PageLength(after, Count[p])
  <2>2. /\ arrayLastDocument' = [arrayLastDocument EXCEPT ![p] =
              IF n = 0 THEN 0 ELSE after + n]
        /\ delivered' = [delivered EXCEPT ![p] = @ \o Page(after, Count[p])]
    BY <1>3, <2>p, <2>1 DEF LoadAnswer
  <2>3. n \in Nat /\ Page(after, Count[p]) \in Seq(Nat) /\ Len(Page(after, Count[p])) = n
    BY <2>1, PageContinues
  <2>4. after + n <= Count[p] /\ (n = 0 => after = Count[p])
    BY <2>1, ServiceAssumption DEF PageLength, Least
  <2> HIDE DEF n, after
  <2>5. Len(delivered'[p]) = after + n
    <3>1. delivered'[p] = delivered[p] \o Page(after, Count[p])
      BY <2>2 DEF PagingInv, ServiceTypeOK
    <3> QED
      BY <3>1, <2>1, <2>3, ConcatProperties DEF after
  <2>6. arrayLastDocument'[p] = IF n = 0 THEN 0 ELSE after + n
    BY <2>2 DEF PagingInv, ServiceTypeOK
  <2>7. \A q \in Podcasts : q # p => /\ delivered'[q] = delivered[q]
                                     /\ arrayLastDocument'[q] = arrayLastDocument[q]
    BY <2>2 DEF PagingInv, ServiceTypeOK
  <2>8. Len(delivered'[p]) <= Count[p] /\ (arrayLastDocument'[p] = 0
           => Len(delivered'[p]) = Count[p])
    BY <2>1, <2>3, <2>4, <2>5, <2>6
  <2> QED
    BY <2>7, <2>8 DEF CompleteInv
<1> QED
  BY <1>1, <1>2, <1>3
     DEF ServiceNext, AtRest, Callback, FetchPodcastList,
         FetchPodcastListError, FirstError, LoadMoreData, LoadError, serviceVars

\* While the device is online, a podcast is given up only at its last episode.
THEOREM OnlineComplete ==
    ASSUME Offline = FALSE
    PROVE  ServiceSpec => []EndedMeansComplete
<1>1. CompleteInv => EndedMeansComplete
  BY DEF CompleteInv, EndedMeansComplete
<1> QED
  BY <1>1, CompleteInit, CompleteStep, PagingKept, PTL DEF ServiceSpec

------------------------------------------------------------------------------
\* The service online is an EpisodeFeed.

HandedOver == [p \in Podcasts |-> Len(delivered[p])]
GivenUp == {p \in Podcasts : delivered[p] # <<>> /\ arrayLastDocument[p] = 0}

\* A step of the feed, in the variables of the service.
Handed(p) ==
    /\ p \notin GivenUp
    /\ Len(delivered[p]) < Count[p]
    /\ HandedOver' = [HandedOver EXCEPT
          ![p] = IF Count[p] - @ < podcastLimit THEN Count[p] ELSE @ + podcastLimit]
    /\ GivenUp' = GivenUp

\* An answer after n documents hands over a full page, or what is left.
LEMMA FullPage ==
    ASSUME NEW n \in Nat, NEW c \in Nat, n <= c
    PROVE  n + PageLength(n, c) = IF c - n < podcastLimit THEN c ELSE n + podcastLimit
BY ServiceAssumption DEF PageLength, Least

\* What one podcast's answer does to the feed.
LEMMA HandedBy ==
    ASSUME PagingInv, CompleteInv, NEW p \in Podcasts, p \notin GivenUp,
           PageLength(Len(delivered[p]), Count[p]) # 0,
           arrayLastDocument' = [arrayLastDocument EXCEPT
               ![p] = Len(delivered[p]) + PageLength(Len(delivered[p]), Count[p])],
           delivered' = [delivered EXCEPT
               ![p] = @ \o Page(Len(delivered[p]), Count[p])]
    PROVE  Handed(p)
<1> DEFINE n == Len(delivered[p])
           c == Count[p]
           m == PageLength(n, c)
<1>1. /\ delivered[p] \in Seq(Nat) /\ n \in Nat /\ c \in Nat /\ n <= c
  <2>1. delivered[p] \in Seq(Nat)
    BY DEF PagingInv, ServiceTypeOK
  <2>2. n \in Nat
    BY <2>1, LenProperties
  <2>3. c \in Nat /\ n <= c
    BY ServiceAssumption DEF CompleteInv
  <2> QED
    BY <2>1, <2>2, <2>3
<1>2. m \in Nat /\ Page(n, c) \in Seq(Nat) /\ Len(Page(n, c)) = m
  BY <1>1, PageContinues
<1>3. n + m = IF c - n < podcastLimit THEN c ELSE n + podcastLimit
  BY <1>1, FullPage
<1>4. n < c
  BY <1>1 DEF PageLength
<1>5. delivered'[p] = delivered[p] \o Page(n, c) /\ arrayLastDocument'[p] = n + m
  BY DEF PagingInv, ServiceTypeOK
<1> HIDE DEF m
<1>6. Len(delivered'[p]) = n + m
  BY <1>1, <1>2, <1>5, ConcatProperties
<1>7. \A q \in Podcasts : q # p => /\ delivered'[q] = delivered[q]
                                   /\ arrayLastDocument'[q] = arrayLastDocument[q]
  BY DEF PagingInv, ServiceTypeOK
<1>8. HandedOver' = [HandedOver EXCEPT
         ![p] = IF c - @ < podcastLimit THEN c ELSE @ + podcastLimit]
  <2>1. HandedOver[p] = n
    BY DEF HandedOver
  <2>2. \A q \in Podcasts :
           Len(delivered'[q]) = IF q = p THEN IF c - n < podcastLimit THEN c ELSE n + podcastLimit
                                ELSE Len(delivered[q])
    <3> SUFFICES ASSUME NEW q \in Podcasts
                 PROVE  Len(delivered'[q]) =
                           IF q = p THEN IF c - n < podcastLimit THEN c ELSE n + podcastLimit
                           ELSE Len(delivered[q])
      OBVIOUS
    <3>1. CASE q = p
      <4>1. Len(delivered'[p]) = IF c - n < podcastLimit THEN c ELSE n + podcastLimit
        BY <1>3, <1>6
      <4> QED
        BY <3>1, <4>1
    <3>2. CASE q # p
      <4>1. delivered'[q] = delivered[q]
        BY <3>2, <1>7
      <4> QED
        BY <3>2, <4>1
    <3> QED
      BY <3>1, <3>2
  <2> HIDE DEF n, c
  <2>3. HandedOver' = [q \in Podcasts |-> IF q = p
            THEN IF c - n < podcastLimit THEN c ELSE n + podcastLimit
            ELSE HandedOver[q]]
    BY <2>2 DEF HandedOver
  <2> QED
    BY <2>1, <2>3 DEF HandedOver
<1>9. arrayLastDocument'[p] # 0
  BY <1>1, <1>2, <1>5 DEF m
<1>10. GivenUp' = GivenUp
  BY <1>7, <1>9 DEF GivenUp
<1> QED
  BY <1>4, <1>8, <1>10 DEF Handed

\* Every step of the service is a step of the feed or leaves it alone.
LEMMA FeedStep ==
    ASSUME Offline = FALSE
    PROVE  PagingInv /\ CompleteInv /\ [ServiceNext \/ AtRest]_serviceVars
              => [Feed!Next]_(Feed!feedVars)
<1> SUFFICES ASSUME PagingInv, CompleteInv, [ServiceNext \/ AtRest]_serviceVars
             PROVE  [Feed!Next]_(Feed!feedVars)
  OBVIOUS
<1>1. CASE UNCHANGED <<delivered, arrayLastDocument>>
  BY <1>1 DEF Feed!feedVars
<1>2. ASSUME NEW p \in Podcasts, Handed(p) PROVE Feed!Next
  BY <1>2 DEF Feed!Next, Feed!Hand, Handed, HandedOver, GivenUp
<1>3. ASSUME NEW p \in Podcasts, FirstAnswer(p) PROVE [Feed!Next]_(Feed!feedVars)
  <2>1. delivered[p] = <<>> /\ Len(delivered[p]) = 0 /\ Sources(p) = {Count[p]}
    BY <1>3, UptoNothing DEF FirstAnswer, PagingInv, CursorInv, Sources
  <2>2. PageLength(0, Count[p]) \in Nat
    BY ServiceAssumption, PageContinues
  <2>3. CASE PageLength(0, Count[p]) = 0
    BY <1>1, <1>3, <2>1, <2>3 DEF FirstAnswer
  <2>4. CASE PageLength(0, Count[p]) # 0
    <3>1. /\ arrayLastDocument' = [arrayLastDocument EXCEPT ![p] = PageLength(0, Count[p])]
          /\ delivered' = [delivered EXCEPT ![p] = @ \o Page(0, Count[p])]
      BY <1>3, <2>1, <2>4 DEF FirstAnswer
    <3>2. p \notin GivenUp
      BY <2>1 DEF GivenUp
    <3>3. 0 + PageLength(0, Count[p]) = PageLength(0, Count[p])
      BY <2>2
    <3>4. Handed(p)
      BY <2>1, <2>4, <3>1, <3>2, <3>3, HandedBy
    <3> QED
      BY <3>4, <1>2
  <2> QED
    BY <2>3, <2>4
<1>4. ASSUME NEW r \in Requests, LoadAnswer(r) PROVE [Feed!Next]_(Feed!feedVars)
  <2>p. PICK p \in Podcasts : p = request[r].podcast
    BY <1>4 DEF LoadAnswer, PagingInv, RequestInv
  <2> DEFINE n == Len(delivered[p])
             m == PageLength(n, Count[p])
  <2>1. /\ request[r].after = n /\ n \in Nat /\ n # 0 /\ arrayLastDocument[p] = n
        /\ n <= Count[p] /\ Count[p] \in Nat /\ Sources(p) = {Count[p]}
    BY <1>4, <2>p, ServiceAssumption
       DEF LoadAnswer, PagingInv, RequestInv, ServiceTypeOK, CompleteInv, Sources
  <2>2. /\ arrayLastDocument' = [arrayLastDocument EXCEPT ![p] = IF m = 0 THEN 0 ELSE n + m]
        /\ delivered' = [delivered EXCEPT ![p] = @ \o Page(n, Count[p])]
    BY <1>4, <2>p, <2>1 DEF LoadAnswer
  <2>3. p \notin GivenUp
    BY <2>1 DEF GivenUp
  <2>4. CASE m # 0
    BY <2>2, <2>3, <2>4, HandedBy, <1>2
  <2>5. CASE m = 0
    <3>1. n = Count[p]
      BY <2>1, <2>5, ServiceAssumption DEF PageLength, Least
    <3>2. delivered'[p] = delivered[p]
      <4>1. Page(n, Count[p]) \in Seq(Nat) /\ Len(Page(n, Count[p])) = 0
        BY <2>1, <2>5, PageContinues
      <4>2. Page(n, Count[p]) = <<>> /\ delivered[p] \in Seq(Nat)
        BY <4>1, EmptySeq DEF PagingInv, ServiceTypeOK
      <4> QED
        BY <2>2, <4>2, ConcatEmptySeq DEF PagingInv, ServiceTypeOK
    <3>3. \A q \in Podcasts : /\ delivered'[q] = delivered[q]
                              /\ q # p => arrayLastDocument'[q] = arrayLastDocument[q]
      BY <2>2, <3>2 DEF PagingInv, ServiceTypeOK
    <3>4. arrayLastDocument'[p] = 0 /\ delivered[p] # <<>>
      BY <2>1, <2>2, <2>5, UptoNothing DEF PagingInv, ServiceTypeOK
    <3>5. HandedOver' = HandedOver /\ GivenUp' = GivenUp \cup {p}
      BY <3>3, <3>4 DEF HandedOver, GivenUp
    <3>6. HandedOver[p] = Count[p]
      BY <3>1 DEF HandedOver
    <3>7. Feed!End(p)
      BY <2>3, <3>5, <3>6 DEF Feed!End, HandedOver, GivenUp
    <3> QED
      BY <3>7 DEF Feed!Next
  <2> QED
    BY <2>4, <2>5
<1> QED
  BY <1>1, <1>3, <1>4
     DEF ServiceNext, AtRest, Callback, FetchPodcastList,
         FetchPodcastListError, FirstError, LoadMoreData, LoadError, serviceVars

\* Online, for every catalogue and page size, with errors and the answers of the
\* podcasts in any order, FirebaseService implements EpisodeFeed.
THEOREM ServiceIsFeed ==
    ASSUME Offline = FALSE
    PROVE  ServiceSpec => FeedsEpisodes
<1>1. ServiceInit => Feed!Init
  <2> SUFFICES ASSUME ServiceInit PROVE Feed!Init
    OBVIOUS
  <2>1. \A p \in Podcasts : delivered[p] = <<>> /\ Len(delivered[p]) = 0
    BY UptoNothing DEF ServiceInit
  <2> QED
    BY <2>1 DEF Feed!Init
<1> QED
  BY <1>1, CompleteInit, CompleteStep, FeedStep, PagingKept, PTL
     DEF ServiceSpec, FeedsEpisodes, Feed!Spec
==============================================================================
