------------------------- MODULE FirestoreGetProofs -------------------------
(***************************************************************************)
(* Proofs about FirestoreGet, for any number of gets, queries, listens and *)
(* lost streams: types, the timers, the credentials and the agreement of   *)
(* the three registries of a query.                                        *)
(***************************************************************************)
EXTENDS FirestoreGet, TLAPS

-----------------------------------------------------------------------------
\* The methods of OnlineStateTracker and of Stream return what they should.

\* Every method of the tracker returns a tracker.
LEMMA TrackerMethods ==
    ASSUME NEW t \in Tracker
    PROVE  /\ HandleWatchStreamStart(t) \in Tracker
           /\ HandleWatchStreamFailure(t) \in Tracker
           /\ \A s \in OnlineState : UpdateState(t, s) \in Tracker
           /\ TimerFired(t) \in Tracker
<1>1. OneMoreFailure(t) \in 0 .. kMaxWatchStreamFailures
  BY TrackerAssumption DEF OneMoreFailure, Tracker
<1>2. HandleWatchStreamStart(t) \in Tracker
  BY DEF HandleWatchStreamStart, Tracker, OnlineState
<1>3. HandleWatchStreamFailure(t) \in Tracker
  BY <1>1 DEF HandleWatchStreamFailure, Tracker, OnlineState
<1>4. \A s \in OnlineState : UpdateState(t, s) \in Tracker
  BY TrackerAssumption DEF UpdateState, Tracker
<1>5. TimerFired(t) \in Tracker
  BY DEF TimerFired, Tracker, OnlineState
<1> QED
  BY <1>2, <1>3, <1>4, <1>5

\* Every method of the stream returns a stream.
LEMMA StreamMethods ==
    ASSUME NEW s \in Stream
    PROVE  /\ Start(s) \in Stream
           /\ BackoffElapsed(s) \in Stream
           /\ Opened(s) \in Stream
           /\ \A b \in BOOLEAN : Close(s, b) \in Stream
           /\ InhibitBackoff(s) \in Stream
           /\ MarkIdle(s) \in Stream
           /\ Write(s) \in Stream
           /\ [s EXCEPT !.state = "Healthy"] \in Stream
           /\ \A c \in Credentials : [s EXCEPT !.credentials = @ \ {c}] \in Stream
<1> USE DEF Stream, StreamState, Credentials
<1>1. Start(s) \in Stream
  BY DEF Start
<1>2. BackoffElapsed(s) \in Stream
  BY DEF BackoffElapsed, Start
<1>3. Opened(s) \in Stream
  BY DEF Opened
<1>4. \A b \in BOOLEAN : Close(s, b) \in Stream
  BY DEF Close, IsStarted, IsOpen
<1>5. InhibitBackoff(s) \in Stream /\ MarkIdle(s) \in Stream /\ Write(s) \in Stream
  BY DEF InhibitBackoff, MarkIdle, Write, IsOpen
<1>6. [s EXCEPT !.state = "Healthy"] \in Stream
  OBVIOUS
<1>7. \A c \in Credentials : [s EXCEPT !.credentials = @ \ {c}] \in Stream
  OBVIOUS
<1> QED
  BY <1>1, <1>2, <1>3, <1>4, <1>5, <1>6, <1>7

\* Counting requests and answers keeps a target state one.
LEMMA CountMethods ==
    ASSUME NEW ts \in TargetState
    PROVE  /\ RecordPendingTargetRequest(ts) \in TargetState
           /\ RecordPendingTargetRequest(ts).outstanding = ts.outstanding + 1
           /\ RecordPendingTargetRequest(ts).current = ts.current
           /\ RecordTargetResponse(ts) \in TargetState
           /\ RecordTargetResponse(ts).outstanding = ts.outstanding - 1
           /\ RecordTargetResponse(ts).current = ts.current
BY DEF TargetState, RecordPendingTargetRequest, RecordTargetResponse

-----------------------------------------------------------------------------
\* Raise and HandleOnlineStateChange

\* What a snapshot does to the listeners: each queue is as it was or is longer by
\* a snapshot, and only registered listeners hear of one.
Grown(gs) ==
    \A g \in Gets : \/ events'[g] = events[g]
                    \/ g \in gs /\ \E r \in {"server", "cache"} :
                           events'[g] = Append(events[g], r)

LEMMA RaiseTyped ==
    ASSUME TypeOK, NEW gs \in SUBSET Gets, NEW v, Raise(gs, v)
    PROVE  /\ events' \in [Gets -> Seq(Results)]
           /\ raised' \subseteq Gets
           /\ Grown(gs)
<1>1. \A g \in Gets : events[g] \in Seq(Results)
  BY DEF TypeOK
<1>2. ASSUME NEW g \in Gets
      PROVE  /\ events'[g] \in Seq(Results)
             /\ \/ events'[g] = events[g]
                \/ g \in gs /\ \E r \in {"server", "cache"} :
                       events'[g] = Append(events[g], r)
  BY <1>1, <1>2 DEF Raise, Results
<1>3. events' = [g \in Gets |-> events'[g]]
  BY DEF Raise
<1>4. events' \in [Gets -> Seq(Results)]
  BY <1>2, <1>3
<1> QED
  BY <1>2, <1>4 DEF Raise, Grown, TypeOK

\* A change of the online state: views fall from synced to local, no view comes
\* or goes, and registered listeners may be told.
LEMMA OnlineChange ==
    ASSUME TypeOK, NEW t \in Tracker, HandleOnlineStateChange(t)
    PROVE  /\ tracker' = t
           /\ view' \in [Queries -> View]
           /\ events' \in [Gets -> Seq(Results)]
           /\ raised' \subseteq Gets
           /\ Grown(listeners)
           /\ \A q \in Queries : \/ view'[q] = view[q]
                                 \/ view[q].state # "none" /\ view'[q].state = "local"
<1>1. CASE t.state = "Offline" /\ tracker.state # "Offline"
  <2>1. view' = OfflineView /\ Raise(ToldOffline, OfflineView) /\ tracker' = t
    BY <1>1 DEF HandleOnlineStateChange
  <2>2. ToldOffline \subseteq listeners /\ ToldOffline \in SUBSET Gets
    BY DEF ToldOffline, TypeOK
  <2>3. OfflineView \in [Queries -> View]
    BY DEF OfflineView, TypeOK, View
  <2>4. \A q \in Queries : \/ OfflineView[q] = view[q]
                           \/ view[q].state # "none" /\ OfflineView[q].state = "local"
    BY DEF OfflineView
  <2>5. /\ events' \in [Gets -> Seq(Results)]
        /\ raised' \subseteq Gets
        /\ Grown(ToldOffline)
    BY <2>1, <2>2, RaiseTyped
  <2> QED
    BY <2>1, <2>2, <2>3, <2>4, <2>5 DEF Grown
<1>2. CASE t.state # "Offline" \/ tracker.state = "Offline"
  BY <1>2 DEF HandleOnlineStateChange, TypeOK, Grown
<1> QED
  BY <1>1, <1>2

-----------------------------------------------------------------------------
\* Types

LEMMA ForgetTyped ==
    ASSUME ForgetStream
    PROVE  /\ targetState' \in [Queries -> TargetState]
           /\ requests' \in [Queries -> Seq(Request)]
           /\ served' \in [Queries -> Served]
BY DEF ForgetStream, NewTargetState, TargetState, NotServed, Served

\* The end of a stream by an error.
LEMMA ErrorTyped ==
    ASSUME TypeOK, NEW s \in Stream, StreamClosedByError(s)
    PROVE  /\ stream' \in Stream
           /\ tracker' \in Tracker
           /\ view' \in [Queries -> View]
           /\ events' \in [Gets -> Seq(Results)]
           /\ raised' \subseteq Gets
           /\ targetState' \in [Queries -> TargetState]
           /\ requests' \in [Queries -> Seq(Request)]
           /\ served' \in [Queries -> Served]
<1> DEFINE closed == Close(s, FALSE)
           again == HandleWatchStreamStart(HandleWatchStreamFailure(tracker))
           unknown == UpdateState(tracker, "Unknown")
<1>1. closed \in Stream /\ Start(closed) \in Stream
  BY StreamMethods
<1>2. again \in Tracker /\ unknown \in Tracker
  BY TrackerMethods DEF TypeOK, OnlineState
<1>3. ForgetStream
  BY DEF StreamClosedByError
<1>4. \/ stream' = Start(closed) /\ HandleOnlineStateChange(again)
      \/ stream' = closed /\ HandleOnlineStateChange(unknown)
  BY DEF StreamClosedByError
<1> HIDE DEF closed, again, unknown
<1> QED
  BY <1>1, <1>2, <1>3, <1>4, ForgetTyped, OnlineChange

\* A new listen, and the end of one.
LEMMA ListenTyped ==
    ASSUME TypeOK, NEW q \in Queries, Listen(q) \/ StopListening(q)
    PROVE  /\ targets' \subseteq Queries
           /\ Listen(q) => listens' \in [Queries -> Nat]
           /\ tracker' \in Tracker
           /\ stream' \in Stream
           /\ targetState' \in [Queries -> TargetState]
           /\ requests' \in [Queries -> Seq(Request)]
<1> DEFINE ts == [targetState EXCEPT ![q] = RecordPendingTargetRequest(@)]
<1>1. ts \in [Queries -> TargetState]
  BY CountMethods DEF TypeOK
<1>2. \A r \in Request : [requests EXCEPT ![q] = Append(@, r)] \in [Queries -> Seq(Request)]
  BY DEF TypeOK
<1>3. WatchRequest(listens[q] + 1) \in Request /\ UnwatchRequest \in Request
  BY DEF TypeOK, WatchRequest, UnwatchRequest, Request
<1>4. Start(stream) \in Stream /\ Write(stream) \in Stream
      /\ MarkIdle(Write(stream)) \in Stream
  BY StreamMethods DEF TypeOK
<1>5. HandleWatchStreamStart(tracker) \in Tracker
      /\ UpdateState(tracker, "Unknown") \in Tracker
  BY TrackerMethods DEF TypeOK, OnlineState
<1> HIDE DEF ts
<1>6. CASE Listen(q)
  <2>1. targetState' = ts \/ targetState' = targetState
    BY <1>6 DEF Listen, ts
  <2>2. requests' = [requests EXCEPT ![q] = Append(@, WatchRequest(listens[q] + 1))]
        \/ requests' = requests
    BY <1>6 DEF Listen
  <2>3. stream' \in {Start(stream), Write(stream), stream}
        /\ tracker' \in {HandleWatchStreamStart(tracker), tracker}
    BY <1>6 DEF Listen
  <2>4. targets' \subseteq Queries /\ listens' \in [Queries -> Nat]
    BY <1>6 DEF Listen, TypeOK
  <2> QED
    BY <1>1, <1>2, <1>3, <1>4, <1>5, <2>1, <2>2, <2>3, <2>4 DEF TypeOK
<1>7. CASE StopListening(q)
  <2>1. targetState' = ts \/ targetState' = targetState
    BY <1>7 DEF StopListening, ts
  <2>2. requests' = [requests EXCEPT ![q] = Append(@, UnwatchRequest)]
        \/ requests' = requests
    BY <1>7 DEF StopListening
  <2>3. stream' \in {MarkIdle(Write(stream)), Write(stream), stream}
        /\ tracker' \in {UpdateState(tracker, "Unknown"), tracker}
    BY <1>7 DEF StopListening
  <2>4. targets' \subseteq Queries
    BY <1>7 DEF StopListening, TypeOK
  <2>5. Listen(q) => listens' \in [Queries -> Nat]
    BY DEF Listen, TypeOK
  <2> QED
    BY <1>1, <1>2, <1>3, <1>4, <1>5, <2>1, <2>2, <2>3, <2>4, <2>5 DEF TypeOK
<1> QED
  BY <1>6, <1>7

LEMMA InitTyped == Init => TypeOK
<1> SUFFICES ASSUME Init PROVE TypeOK
  OBVIOUS
<1>1. NewTracker \in Tracker
  BY TrackerAssumption DEF NewTracker, Tracker, OnlineState
<1>2. NewStream \in Stream
  BY DEF NewStream, Stream, StreamState, Credentials
<1>3. NoView \in View /\ NewTargetState \in TargetState /\ NotServed \in Served
  BY DEF NoView, View, NewTargetState, TargetState, NotServed, Served
<1>4. drops \in 0 .. MaxDrops
  BY GetAssumption DEF Init
<1> QED
  BY <1>1, <1>2, <1>3, <1>4 DEF Init, TypeOK

LEMMA AppTyped == TypeOK /\ App => TypeOK'
<1> SUFFICES ASSUME TypeOK, NEW g \in Gets, GetDocuments(g) \/ OnEvent(g)
             PROVE  TypeOK'
  BY DEF App
<1>1. CASE GetDocuments(g)
  BY <1>1 DEF GetDocuments, TypeOK, givenVars, remoteVars, serverVars
<1>2. CASE OnEvent(g)
  <2>1. events[g] \in Seq(Results) /\ events[g] # <<>>
    BY <1>2 DEF OnEvent, TypeOK
  <2>2. Head(events[g]) \in Results /\ Tail(events[g]) \in Seq(Results)
    BY <2>1
  <2>3. events' \in [Gets -> Seq(Results)]
    BY <1>2, <2>2 DEF OnEvent, TypeOK
  <2>4. answers' \in [Gets -> Seq(Results)]
    BY <1>2, <2>2 DEF OnEvent, TypeOK
  <2>5. task' \in [Gets -> {"none", "add", "remove"}] /\ muted' \subseteq Gets
    BY <1>2 DEF OnEvent, TypeOK
  <2> QED
    BY <1>2, <2>3, <2>4, <2>5 DEF OnEvent, TypeOK, givenVars, remoteVars, serverVars
<1> QED
  BY <1>1, <1>2

LEMMA WorkerTyped == TypeOK /\ Worker => TypeOK'
<1> SUFFICES ASSUME TypeOK, NEW g \in Gets, AddQueryListener(g) \/ RemoveQueryListener(g)
             PROVE  TypeOK'
  BY DEF Worker
<1> DEFINE q == query[g]
<1>0. q \in Queries
  BY DEF TypeOK
<1>1. CASE AddQueryListener(g)
  <2> DEFINE shown == IF ListenersOf(q) = {}
                      THEN [view EXCEPT ![q] = [state |-> "local", by |-> 0]] ELSE view
  <2>1. shown \in [Queries -> View]
    BY DEF TypeOK, View
  <2>2. PICK gs \in SUBSET Gets : Raise(gs, shown)
    BY <1>1 DEF AddQueryListener
  <2>3. events' \in [Gets -> Seq(Results)] /\ raised' \subseteq Gets
    BY <2>2, RaiseTyped
  <2>4. view' = shown /\ task' \in [Gets -> {"none", "add", "remove"}]
        /\ listeners' \subseteq Gets
    BY <1>1 DEF AddQueryListener, TypeOK
  <2>5. Listen(q) \/ UNCHANGED <<remoteVars, requests>>
    BY <1>1 DEF AddQueryListener
  <2>6. UNCHANGED <<givenVars, asked, muted, answers, served, drops>>
    BY <1>1 DEF AddQueryListener
  <2> HIDE DEF shown, q
  <2>7. CASE Listen(q)
    BY <1>0, <2>1, <2>3, <2>4, <2>6, <2>7, ListenTyped DEF TypeOK, givenVars
  <2>8. CASE UNCHANGED <<remoteVars, requests>>
    BY <2>1, <2>3, <2>4, <2>6, <2>8 DEF TypeOK, givenVars, remoteVars
  <2> QED
    BY <2>5, <2>7, <2>8
<1>2. CASE RemoveQueryListener(g)
  <2>1. /\ task' \in [Gets -> {"none", "add", "remove"}]
        /\ listeners' \subseteq Gets
        /\ raised' \subseteq Gets
    BY <1>2 DEF RemoveQueryListener, TypeOK
  <2>2. view' \in [Queries -> View]
    <3>1. NoView \in View
      BY DEF NoView, View
    <3>2. view' = [view EXCEPT ![q] = NoView] \/ view' = view
      BY <1>2 DEF RemoveQueryListener
    <3> QED
      BY <3>1, <3>2 DEF TypeOK
  <2>3. StopListening(q) \/ UNCHANGED <<targets, tracker, stream, targetState, requests>>
    BY <1>2 DEF RemoveQueryListener
  <2>4. UNCHANGED <<givenVars, appVars, listens, served, drops>>
    BY <1>2 DEF RemoveQueryListener
  <2> HIDE DEF q
  <2>5. CASE StopListening(q)
    BY <1>0, <2>1, <2>2, <2>4, <2>5, ListenTyped DEF TypeOK, givenVars, appVars
  <2>6. CASE UNCHANGED <<targets, tracker, stream, targetState, requests>>
    BY <2>1, <2>2, <2>4, <2>6 DEF TypeOK, givenVars, appVars
  <2> QED
    BY <2>3, <2>5, <2>6
<1> QED
  BY <1>1, <1>2

LEMMA ConnectionTyped == TypeOK /\ Connection => TypeOK'
<1> SUFFICES ASSUME TypeOK, Connection PROVE TypeOK'
  OBVIOUS
<1> USE DEF givenVars, appVars, engineVars, serverVars
<1>1. CASE CredentialsArrive
  <2>1. stream' \in Stream
    BY <1>1, StreamMethods DEF CredentialsArrive, TypeOK
  <2>2. targetState' \in [Queries -> TargetState]
    BY <1>1, CountMethods DEF CredentialsArrive, TypeOK
  <2>3. \A q \in Queries : WatchRequest(listens[q]) \in Request
    BY DEF TypeOK, WatchRequest, Request
  <2>4. \A q \in Queries : Append(requests[q], WatchRequest(listens[q])) \in Seq(Request)
    BY <2>3 DEF TypeOK
  <2>5. requests' \in [Queries -> Seq(Request)]
    BY <1>1, <2>4 DEF CredentialsArrive, TypeOK
  <2> QED
    BY <1>1, <2>1, <2>2, <2>5 DEF CredentialsArrive, TypeOK
<1>2. CASE CredentialsFail
  <2>1. [stream EXCEPT !.credentials = @ \ {"current"}] \in Stream
    BY StreamMethods DEF TypeOK, Credentials
  <2>2. StreamClosedByError([stream EXCEPT !.credentials = @ \ {"current"}])
    BY <1>2 DEF CredentialsFail
  <2>3. UNCHANGED <<givenVars, asked, muted, answers, task, listeners, targets,
                    listens, drops>>
    BY <1>2 DEF CredentialsFail
  <2> QED
    BY <2>1, <2>2, <2>3, ErrorTyped DEF TypeOK
<1>3. CASE CredentialsLate
  <2>1. stream' \in Stream
    BY <1>3, StreamMethods DEF CredentialsLate, TypeOK, Credentials
  <2> QED
    BY <1>3, <2>1 DEF CredentialsLate, TypeOK
<1>4. CASE OnStreamFinish
  <2>1. StreamClosedByError(stream) /\ stream \in Stream
    BY <1>4 DEF OnStreamFinish, TypeOK
  <2>2. UNCHANGED <<givenVars, asked, muted, answers, task, listeners, targets, listens>>
    BY <1>4 DEF OnStreamFinish
  <2>3. drops' \in 0 .. MaxDrops
    BY <1>4, GetAssumption DEF OnStreamFinish, TypeOK
  <2> QED
    BY <2>1, <2>2, <2>3, ErrorTyped DEF TypeOK
<1>5. CASE BackoffTimer
  <2>1. stream' \in Stream
    BY <1>5, StreamMethods DEF BackoffTimer, TypeOK
  <2> QED
    BY <1>5, <2>1 DEF BackoffTimer, TypeOK
<1>6. CASE HealthCheck
  <2>1. stream' \in Stream
    BY <1>6, StreamMethods DEF HealthCheck, TypeOK
  <2> QED
    BY <1>6, <2>1 DEF HealthCheck, TypeOK
<1>7. CASE IdleTimer
  <2>1. stream' \in Stream
    BY <1>7, StreamMethods DEF IdleTimer, TypeOK
  <2>2. UpdateState(tracker, "Unknown") \in Tracker
    BY TrackerMethods DEF TypeOK, OnlineState
  <2>3. ForgetStream /\ HandleOnlineStateChange(UpdateState(tracker, "Unknown"))
    BY <1>7 DEF IdleTimer
  <2>4. UNCHANGED <<givenVars, asked, muted, answers, task, listeners, targets,
                    listens, drops>>
    BY <1>7 DEF IdleTimer
  <2> QED
    BY <2>1, <2>2, <2>3, <2>4, ForgetTyped, OnlineChange DEF TypeOK
<1>8. CASE OnlineStateTimer
  <2>1. TimerFired(tracker) \in Tracker
    BY TrackerMethods DEF TypeOK
  <2>2. HandleOnlineStateChange(TimerFired(tracker))
    BY <1>8 DEF OnlineStateTimer
  <2>3. UNCHANGED <<givenVars, asked, muted, answers, task, listeners, targets, listens,
                    stream, targetState, serverVars>>
    BY <1>8 DEF OnlineStateTimer
  <2> QED
    BY <2>1, <2>2, <2>3, OnlineChange DEF TypeOK
<1>9. CASE RestartNetwork
  <2> DEFINE stopped == InhibitBackoff(Close(stream, TRUE))
             unknown == UpdateState(tracker, "Unknown")
             t == IF targets # {} THEN HandleWatchStreamStart(unknown) ELSE unknown
  <2>1. stopped \in Stream
    BY StreamMethods DEF TypeOK
  <2>2. stream' \in Stream
    BY <1>9, <2>1, StreamMethods DEF RestartNetwork
  <2>3. unknown \in Tracker
    BY TrackerMethods DEF TypeOK, OnlineState
  <2>4. t \in Tracker
    BY <2>3, TrackerMethods
  <2>5. ForgetStream /\ HandleOnlineStateChange(t) /\ drops' = drops + 1 /\ drops < MaxDrops
    BY <1>9 DEF RestartNetwork
  <2>6. UNCHANGED <<givenVars, asked, muted, answers, task, listeners, targets, listens>>
    BY <1>9 DEF RestartNetwork
  <2>7. drops' \in 0 .. MaxDrops
    BY <2>5, GetAssumption DEF TypeOK
  <2> HIDE DEF t
  <2> QED
    BY <2>2, <2>4, <2>5, <2>6, <2>7, ForgetTyped, OnlineChange DEF TypeOK
<1> QED
  BY <1>1, <1>2, <1>3, <1>4, <1>5, <1>6, <1>7, <1>8, <1>9 DEF Connection

\* A message read: the tracker says Online, the request is answered.
LEMMA ReadTyped ==
    ASSUME TypeOK, MessageRead
    PROVE  /\ stream' \in Stream
           /\ tracker' \in Tracker
           /\ view' \in [Queries -> View]
           /\ events' \in [Gets -> Seq(Results)]
           /\ raised' \subseteq Gets
<1>1. UpdateState(tracker, "Online") \in Tracker
  BY TrackerMethods DEF TypeOK, OnlineState
<1>2. HandleOnlineStateChange(UpdateState(tracker, "Online")) /\ UNCHANGED stream
  BY DEF MessageRead
<1> QED
  BY <1>1, <1>2, OnlineChange DEF TypeOK

LEMMA AnsweredTyped ==
    ASSUME TypeOK, NEW q \in Queries, requests[q] # <<>>, Answered(q)
    PROVE  /\ requests' \in [Queries -> Seq(Request)]
           /\ Head(requests[q]) \in Request
<1>1. requests[q] \in Seq(Request)
  BY DEF TypeOK
<1>2. Tail(requests[q]) \in Seq(Request) /\ Head(requests[q]) \in Request
  BY <1>1
<1> QED
  BY <1>2 DEF Answered, TypeOK

LEMMA MessageTyped == TypeOK /\ Message => TypeOK'
<1> SUFFICES ASSUME TypeOK, Message PROVE TypeOK'
  OBVIOUS
<1> USE DEF givenVars, serverVars
<1>1. ASSUME NEW q \in Queries, ReadAdded(q) PROVE TypeOK'
  <2>1. MessageRead /\ Answered(q) /\ requests[q] # <<>>
    BY <1>1 DEF ReadAdded
  <2>2. Head(requests[q]).listen \in Nat
    BY <2>1, AnsweredTyped DEF Request
  <2>3. served' \in [Queries -> Served]
    BY <1>1, <2>2 DEF ReadAdded, TypeOK, Served
  <2>4. targetState' \in [Queries -> TargetState]
    BY <1>1, CountMethods DEF ReadAdded, TypeOK
  <2>5. UNCHANGED <<givenVars, asked, muted, answers, task, listeners, targets, listens,
                    drops>>
    BY <1>1 DEF ReadAdded
  <2> QED
    BY <2>1, <2>3, <2>4, <2>5, ReadTyped, AnsweredTyped DEF TypeOK
<1>2. ASSUME NEW q \in Queries, ReadRemoved(q) PROVE TypeOK'
  <2>1. MessageRead /\ Answered(q) /\ requests[q] # <<>>
    BY <1>2 DEF ReadRemoved
  <2>2. NotServed \in Served /\ NewTargetState \in TargetState
    BY DEF NotServed, Served, NewTargetState, TargetState
  <2>3. served' \in [Queries -> Served]
    BY <1>2, <2>2 DEF ReadRemoved, TypeOK
  <2>4. targetState' \in [Queries -> TargetState]
    BY <1>2, <2>2, CountMethods DEF ReadRemoved, TypeOK
  <2>5. UNCHANGED <<givenVars, asked, muted, answers, task, listeners, targets, listens,
                    drops>>
    BY <1>2 DEF ReadRemoved
  <2> QED
    BY <2>1, <2>3, <2>4, <2>5, ReadTyped, AnsweredTyped DEF TypeOK
<1>3. ASSUME NEW q \in Queries, ReadRefused(q) PROVE TypeOK'
  <2>1. tracker' \in Tracker
    BY <1>3, TrackerMethods DEF ReadRefused, TypeOK, OnlineState
  <2>2. requests' \in [Queries -> Seq(Request)]
    BY <1>3, AnsweredTyped DEF ReadRefused
  <2>3. NoView \in View /\ NewTargetState \in TargetState
    BY DEF NoView, View, NewTargetState, TargetState
  <2>4. targetState' \in [Queries -> TargetState] /\ view' \in [Queries -> View]
    <3>1. /\ targetState' = targetState \/ targetState' = [targetState EXCEPT ![q] = NewTargetState]
          /\ view' = view \/ view' = [view EXCEPT ![q] = NoView]
      BY <1>3 DEF ReadRefused
    <3>2. targetState' \in [Queries -> TargetState]
      BY <2>3, <3>1 DEF TypeOK
    <3>3. view' \in [Queries -> View]
      BY <2>3, <3>1 DEF TypeOK
    <3> QED
      BY <3>2, <3>3
  <2>5. \A g \in Gets : Append(events[g], "error") \in Seq(Results)
    BY DEF TypeOK, Results
  <2>6. events' \in [Gets -> Seq(Results)]
    <3> DEFINE told == [g \in Gets |-> IF g \in ListenersOf(q) THEN Append(events[g], "error")
                                       ELSE events[g]]
    <3>1. told \in [Gets -> Seq(Results)]
      BY <2>5 DEF TypeOK
    <3>2. events' \in {events, told}
      BY <1>3 DEF ReadRefused
    <3> QED
      BY <3>1, <3>2 DEF TypeOK
  <2> QED
    BY <1>3, <2>1, <2>2, <2>4, <2>6 DEF ReadRefused, TypeOK
<1>4. ASSUME NEW q \in Queries, ReadCurrent(q) PROVE TypeOK'
  <2>1. served' \in [Queries -> Served] /\ targetState' \in [Queries -> TargetState]
    BY <1>4 DEF ReadCurrent, TypeOK, Served, TargetState, IsActiveTarget
  <2>2. MessageRead /\ UNCHANGED <<givenVars, asked, muted, answers, task, listeners,
                                   targets, listens, requests, drops>>
    BY <1>4 DEF ReadCurrent
  <2> QED
    BY <2>1, <2>2, ReadTyped DEF TypeOK
<1>5. ASSUME NEW docs \in SUBSET Queries, ReadSnapshot(docs) PROVE TypeOK'
  <2>1. tracker' \in Tracker
    BY <1>5, TrackerMethods DEF ReadSnapshot, TypeOK, OnlineState
  <2>2. view' \in [Queries -> View]
    BY <1>5 DEF ReadSnapshot, TypeOK, View, Served
  <2>3. \E gs \in SUBSET Gets : Raise(gs, view')
    BY <1>5 DEF ReadSnapshot, TypeOK
  <2>4. events' \in [Gets -> Seq(Results)] /\ raised' \subseteq Gets
    BY <2>3, RaiseTyped
  <2>5. UNCHANGED <<givenVars, asked, muted, answers, task, listeners, targets,
                    listens, stream, targetState, serverVars>>
    BY <1>5 DEF ReadSnapshot
  <2> QED
    BY <2>1, <2>2, <2>4, <2>5 DEF TypeOK
<1> QED
  BY <1>1, <1>2, <1>3, <1>4, <1>5 DEF Message

LEMMA StutterTyped == TypeOK /\ UNCHANGED vars => TypeOK'
BY DEF TypeOK, vars, givenVars, appVars, engineVars, remoteVars, serverVars

\* Every variable keeps its type: in particular the results on their way to the
\* app are those of the completion, and drops stays within its bound.
THEOREM GetTypeCorrect == Spec => []TypeOK
<1>1. TypeOK /\ [Next]_vars => TypeOK'
  BY AppTyped, WorkerTyped, ConnectionTyped, MessageTyped, StutterTyped
  DEF Next, AllAnswered
<1> QED
  BY <1>1, InitTyped, PTL DEF Spec

-----------------------------------------------------------------------------
\* Stream and tracker

ConnectionInv ==
    /\ TypeOK
    /\ TimerWhileConnecting
    /\ CredentialsOfThisStart
    /\ IdleWithoutTarget

\* The properties look only at the stream, the tracker and the targets.
LEMMA ConnectionKept ==
    ASSUME ConnectionInv, TypeOK', UNCHANGED <<stream, tracker, targets>>
    PROVE  ConnectionInv'
BY DEF ConnectionInv, TimerWhileConnecting, CredentialsOfThisStart, IdleWithoutTarget,
       IsStarted, IsOpen

\* A message sets the tracker to Online and leaves the stream alone.
LEMMA ConnectionRead ==
    ASSUME ConnectionInv, TypeOK', UNCHANGED stream, targets' \subseteq targets,
           tracker' = UpdateState(tracker, "Online")
    PROVE  ConnectionInv'
BY DEF ConnectionInv, TimerWhileConnecting, CredentialsOfThisStart, IdleWithoutTarget,
       IsStarted, IsOpen, UpdateState

\* What the stream's methods do to a stream without, and with, credentials.
LEMMA StartedFresh ==
    ASSUME NEW s \in Stream, "current" \notin s.credentials, ~s.idle
    PROVE  /\ "current" \in Start(s).credentials <=> Start(s).state = "Starting"
           /\ IsStarted(Start(s))
           /\ ~Start(s).idle
BY DEF Start, Stream, StreamState, Credentials, IsStarted, IsOpen

LEMMA ClosedByErrorFresh ==
    ASSUME NEW s \in Stream
    PROVE  /\ Close(s, FALSE) \in Stream
           /\ "current" \notin Close(s, FALSE).credentials
           /\ ~Close(s, FALSE).idle
           /\ Close(s, FALSE).state = "Error"
BY StreamMethods DEF Close, Stream, Credentials

LEMMA ConnectionError ==
    ASSUME ConnectionInv, TypeOK', UNCHANGED targets, NEW s \in Stream,
           StreamClosedByError(s)
    PROVE  ConnectionInv'
<1> DEFINE closed == Close(s, FALSE)
<1>1. closed \in Stream /\ "current" \notin closed.credentials /\ ~closed.idle
      /\ closed.state = "Error"
  BY ClosedByErrorFresh
<1>2. tracker \in Tracker
  BY DEF ConnectionInv, TypeOK
<1> HIDE DEF closed
<1>3. CASE targets # {}
  <2> DEFINE failed == HandleWatchStreamFailure(tracker)
             again == HandleWatchStreamStart(failed)
  <2>1. stream' = Start(closed) /\ tracker' = again
    BY <1>3 DEF StreamClosedByError, HandleOnlineStateChange, closed
  <2>2. failed.timer => failed.state = "Unknown"
    BY <1>2 DEF HandleWatchStreamFailure, ConnectionInv, TimerWhileConnecting, Tracker
  <2>3. failed.state = "Online" => FALSE
    BY <1>2, TrackerAssumption DEF HandleWatchStreamFailure, Tracker
  <2>4. failed \in Tracker
    BY <1>2, TrackerMethods
  <2> HIDE DEF failed
  <2>5. /\ again.timer => again.state = "Unknown"
        /\ again.state = "Online" => again.failures = 0
    BY <2>2, <2>3, <2>4 DEF HandleWatchStreamStart, Tracker
  <2> HIDE DEF again
  <2> QED
    BY <1>1, <2>1, <2>5, StartedFresh
    DEF ConnectionInv, TimerWhileConnecting, CredentialsOfThisStart, IdleWithoutTarget
<1>4. CASE targets = {}
  <2>1. stream' = closed /\ tracker' = UpdateState(tracker, "Unknown")
    BY <1>4 DEF StreamClosedByError, HandleOnlineStateChange, closed
  <2> QED
    BY <1>1, <2>1
    DEF ConnectionInv, TimerWhileConnecting, CredentialsOfThisStart, IdleWithoutTarget,
        UpdateState
<1> QED
  BY <1>3, <1>4

LEMMA ConnectionWorker == ConnectionInv /\ Worker /\ TypeOK' => ConnectionInv'
<1> SUFFICES ASSUME ConnectionInv, TypeOK', NEW g \in Gets,
                    AddQueryListener(g) \/ RemoveQueryListener(g)
             PROVE  ConnectionInv'
  BY DEF Worker
<1>0. tracker \in Tracker /\ stream \in Stream
  BY DEF ConnectionInv, TypeOK
<1>1. ASSUME NEW q, Listen(q) PROVE ConnectionInv'
  <2>1. CASE ~IsStarted(stream)
    <3>1. stream' = Start(stream) /\ tracker' = HandleWatchStreamStart(tracker)
      BY <1>1, <2>1 DEF Listen, IsStarted
    <3>2. "current" \notin stream.credentials /\ ~stream.idle /\ ~tracker.timer
      BY <2>1 DEF ConnectionInv, TimerWhileConnecting, CredentialsOfThisStart,
                  IdleWithoutTarget, IsStarted
    <3>3. /\ tracker'.timer => tracker'.state = "Unknown"
          /\ tracker'.state = "Online" => tracker'.failures = 0
      BY <1>0, <3>1, <3>2 DEF HandleWatchStreamStart, ConnectionInv, TimerWhileConnecting,
                              Tracker
    <3> QED
      BY <1>0, <3>1, <3>2, <3>3, StartedFresh
      DEF ConnectionInv, TimerWhileConnecting, CredentialsOfThisStart, IdleWithoutTarget
  <2>2. CASE IsOpen(stream)
    <3>1. stream' = Write(stream) /\ tracker' = tracker
      BY <1>1, <2>2 DEF Listen, IsStarted
    <3> QED
      BY <1>0, <2>2, <3>1
      DEF ConnectionInv, TimerWhileConnecting, CredentialsOfThisStart, IdleWithoutTarget,
          Write, Stream, IsStarted, IsOpen
  <2>3. CASE IsStarted(stream) /\ ~IsOpen(stream)
    <3>1. stream' = stream /\ tracker' = tracker
      BY <1>1, <2>3 DEF Listen
    <3> QED
      BY <2>3, <3>1
      DEF ConnectionInv, TimerWhileConnecting, CredentialsOfThisStart, IdleWithoutTarget
  <2> QED
    BY <2>1, <2>2, <2>3
<1>2. ASSUME NEW q, StopListening(q) PROVE ConnectionInv'
  <2>1. CASE IsOpen(stream)
    <3>1. /\ tracker' = tracker
          /\ stream' = IF targets' = {} THEN MarkIdle(Write(stream)) ELSE Write(stream)
      BY <1>2, <2>1 DEF StopListening
    <3>2. /\ stream'.state = stream.state
          /\ stream'.credentials = stream.credentials
          /\ stream'.idle => targets' = {}
      BY <1>0, <3>1 DEF MarkIdle, Write, Stream, IsOpen
    <3> QED
      BY <2>1, <3>1, <3>2
      DEF ConnectionInv, TimerWhileConnecting, CredentialsOfThisStart, IdleWithoutTarget,
          IsStarted, IsOpen
  <2>2. CASE ~IsOpen(stream)
    <3>1. stream' = stream /\ tracker' \in {tracker, UpdateState(tracker, "Unknown")}
      BY <1>2, <2>2 DEF StopListening
    <3> QED
      BY <2>2, <3>1
      DEF ConnectionInv, TimerWhileConnecting, CredentialsOfThisStart, IdleWithoutTarget,
          UpdateState, IsStarted, IsOpen
  <2> QED
    BY <2>1, <2>2
<1>3. CASE AddQueryListener(g)
  <2>1. Listen(query[g]) \/ UNCHANGED <<stream, tracker, targets>>
    BY <1>3 DEF AddQueryListener, remoteVars
  <2> QED
    BY <1>1, <2>1, ConnectionKept
<1>4. CASE RemoveQueryListener(g)
  <2>1. StopListening(query[g]) \/ UNCHANGED <<stream, tracker, targets>>
    BY <1>4 DEF RemoveQueryListener
  <2> QED
    BY <1>2, <2>1, ConnectionKept
<1> QED
  BY <1>3, <1>4

LEMMA ConnectionOwn == ConnectionInv /\ Connection /\ TypeOK' => ConnectionInv'
<1> SUFFICES ASSUME ConnectionInv, TypeOK', Connection PROVE ConnectionInv'
  OBVIOUS
<1>0. tracker \in Tracker /\ stream \in Stream
  BY DEF ConnectionInv, TypeOK
<1> USE DEF ConnectionInv, TimerWhileConnecting, CredentialsOfThisStart, IdleWithoutTarget
<1>1. CASE CredentialsArrive
  BY <1>0, <1>1 DEF CredentialsArrive, Opened, Stream, IsStarted, IsOpen
<1>2. CASE CredentialsFail
  <2>1. [stream EXCEPT !.credentials = @ \ {"current"}] \in Stream
    BY <1>0, StreamMethods DEF Credentials
  <2>2. StreamClosedByError([stream EXCEPT !.credentials = @ \ {"current"}])
        /\ UNCHANGED targets
    BY <1>2 DEF CredentialsFail
  <2> QED
    BY <2>1, <2>2, ConnectionError
<1>3. CASE CredentialsLate
  <2>1. /\ stream'.state = stream.state
        /\ stream'.idle = stream.idle
        /\ "current" \in stream'.credentials <=> "current" \in stream.credentials
    BY <1>0, <1>3 DEF CredentialsLate, Stream
  <2>2. UNCHANGED <<tracker, targets>>
    BY <1>3 DEF CredentialsLate
  <2> QED
    BY <2>1, <2>2 DEF IsStarted, IsOpen
<1>4. CASE OnStreamFinish
  BY <1>0, <1>4, ConnectionError DEF OnStreamFinish
<1>5. CASE BackoffTimer
  BY <1>0, <1>5 DEF BackoffTimer, BackoffElapsed, Start, Stream, IsStarted, IsOpen
<1>6. CASE HealthCheck
  BY <1>0, <1>6 DEF HealthCheck, Stream, IsStarted, IsOpen
<1>7. CASE IdleTimer
  <2>1. tracker' = UpdateState(tracker, "Unknown") /\ stream' = Close(stream, TRUE)
    BY <1>7 DEF IdleTimer, HandleOnlineStateChange
  <2> QED
    BY <1>0, <2>1 DEF UpdateState, Close, Stream, Credentials, IsStarted, IsOpen
<1>8. CASE OnlineStateTimer
  <2>1. tracker' = TimerFired(tracker) /\ UNCHANGED <<stream, targets>>
    BY <1>8 DEF OnlineStateTimer, HandleOnlineStateChange
  <2> QED
    BY <1>0, <2>1 DEF TimerFired, Tracker, IsStarted, IsOpen
<1>9. CASE RestartNetwork
  <2> DEFINE stopped == InhibitBackoff(Close(stream, TRUE))
             unknown == UpdateState(tracker, "Unknown")
  <2>1. stopped \in Stream
    BY <1>0, StreamMethods
  <2>2. "current" \notin stopped.credentials /\ ~stopped.idle /\ stopped.state = "Initial"
    BY <1>0 DEF InhibitBackoff, Close, Stream, Credentials, IsStarted, IsOpen
  <2>3. CASE targets # {}
    <3>1. stream' = Start(stopped) /\ tracker' = HandleWatchStreamStart(unknown)
      BY <1>9, <2>3 DEF RestartNetwork, HandleOnlineStateChange
    <3>2. tracker'.state = "Unknown"
      BY <3>1 DEF HandleWatchStreamStart, UpdateState
    <3> HIDE DEF stopped
    <3> QED
      BY <2>1, <2>2, <3>1, <3>2, StartedFresh
  <2>4. CASE targets = {}
    <3>1. stream' = stopped /\ tracker' = unknown
      BY <1>9, <2>4 DEF RestartNetwork, HandleOnlineStateChange
    <3> HIDE DEF stopped
    <3> QED
      BY <2>2, <3>1 DEF UpdateState
  <2> QED
    BY <2>3, <2>4
<1> QED
  BY <1>1, <1>2, <1>3, <1>4, <1>5, <1>6, <1>7, <1>8, <1>9 DEF Connection

LEMMA ConnectionMessage == ConnectionInv /\ Message /\ TypeOK' => ConnectionInv'
<1> SUFFICES ASSUME ConnectionInv, TypeOK', Message PROVE ConnectionInv'
  OBVIOUS
<1>1. MessageRead => UNCHANGED stream /\ tracker' = UpdateState(tracker, "Online")
  BY DEF MessageRead, HandleOnlineStateChange
<1>2. ASSUME NEW q \in Queries, ReadAdded(q) \/ ReadRemoved(q) \/ ReadCurrent(q)
      PROVE  ConnectionInv'
  BY <1>1, <1>2, ConnectionRead DEF ReadAdded, ReadRemoved, ReadCurrent
<1>3. ASSUME NEW q \in Queries, ReadRefused(q) PROVE ConnectionInv'
  BY <1>3, ConnectionRead DEF ReadRefused
<1>4. ASSUME NEW docs \in SUBSET Queries, ReadSnapshot(docs) PROVE ConnectionInv'
  BY <1>4, ConnectionRead DEF ReadSnapshot
<1> QED
  BY <1>2, <1>3, <1>4 DEF Message

\* The invariant holds of every state.
LEMMA ConnectionHolds == Spec => []ConnectionInv
<1>1. Init => ConnectionInv
  BY InitTyped DEF Init, ConnectionInv, TimerWhileConnecting, CredentialsOfThisStart,
                   IdleWithoutTarget, NewTracker, NewStream
<1>2. ConnectionInv /\ [Next]_vars => ConnectionInv'
  <2> SUFFICES ASSUME ConnectionInv, [Next]_vars PROVE ConnectionInv'
    OBVIOUS
  <2>1. TypeOK'
    BY AppTyped, WorkerTyped, ConnectionTyped, MessageTyped, StutterTyped
    DEF Next, AllAnswered, ConnectionInv
  <2>2. App \/ UNCHANGED vars => UNCHANGED <<stream, tracker, targets>>
    BY DEF App, GetDocuments, OnEvent, vars, remoteVars
  <2> QED
    BY <2>1, <2>2, ConnectionKept, ConnectionWorker, ConnectionOwn, ConnectionMessage
    DEF Next, AllAnswered
<1> QED
  BY <1>1, <1>2, PTL DEF Spec

\* OnlineStateTracker's timer never fires in a state its callback asserts against,
\* whatever the order of gets, removals, lost streams and messages.
THEOREM TrackerSafe == Spec => []TimerWhileConnecting
<1>1. ConnectionInv => TimerWhileConnecting
  BY DEF ConnectionInv
<1> QED
  BY <1>1, ConnectionHolds, PTL

\* A stream opens with the credentials of its own start, however late those of
\* an earlier one come.
THEOREM CredentialsSafe == Spec => []CredentialsOfThisStart
<1>1. ConnectionInv => CredentialsOfThisStart
  BY DEF ConnectionInv
<1> QED
  BY <1>1, ConnectionHolds, PTL

\* The idleness timer never closes a stream that serves a target.
THEOREM IdleSafe == Spec => []IdleWithoutTarget
<1>1. ConnectionInv => IdleWithoutTarget
  BY DEF ConnectionInv
<1> QED
  BY <1>1, ConnectionHolds, PTL

-----------------------------------------------------------------------------
\* The registries of a query

\* No view comes or goes.
SameViews == \A q \in Queries : view'[q].state = "none" <=> view[q].state = "none"

LEMMA RegistriesKept ==
    ASSUME RegistriesAgree, UNCHANGED <<query, listeners, targets>>, SameViews
    PROVE  RegistriesAgree'
BY DEF RegistriesAgree, ListenersOf, SameViews

LEMMA OnlineViews ==
    ASSUME TypeOK, NEW t \in Tracker, HandleOnlineStateChange(t)
    PROVE  SameViews
BY OnlineChange DEF SameViews

LEMMA ErrorViews ==
    ASSUME TypeOK, NEW s, StreamClosedByError(s)
    PROVE  SameViews
<1> DEFINE again == HandleWatchStreamStart(HandleWatchStreamFailure(tracker))
           unknown == UpdateState(tracker, "Unknown")
<1>1. again \in Tracker /\ unknown \in Tracker
  BY TrackerMethods DEF TypeOK, OnlineState
<1>2. HandleOnlineStateChange(again) \/ HandleOnlineStateChange(unknown)
  BY DEF StreamClosedByError
<1> HIDE DEF again, unknown
<1> QED
  BY <1>1, <1>2, OnlineViews

LEMMA RegistriesWorker == TypeOK /\ RegistriesAgree /\ Worker => RegistriesAgree'
<1> SUFFICES ASSUME TypeOK, RegistriesAgree, NEW g \in Gets,
                    AddQueryListener(g) \/ RemoveQueryListener(g),
                    NEW p \in Queries
             PROVE  /\ p \in targets' <=> ListenersOf(p)' # {}
                    /\ p \in targets' <=> view'[p].state # "none"
  BY DEF Worker, RegistriesAgree
<1> DEFINE q == query[g]
<1>0. /\ q \in Queries
      /\ view \in [Queries -> View]
      /\ p \in targets <=> ListenersOf(p) # {}
      /\ p \in targets <=> view[p].state # "none"
  BY DEF TypeOK, RegistriesAgree
<1>1. CASE AddQueryListener(g)
  <2>1. /\ listeners' = listeners \cup {g} /\ query' = query
        /\ view' = IF ListenersOf(q) = {}
                   THEN [view EXCEPT ![q] = [state |-> "local", by |-> 0]] ELSE view
        /\ \/ ListenersOf(q) = {} /\ targets' = targets \cup {q}
           \/ ListenersOf(q) # {} /\ targets' = targets
    BY <1>1 DEF AddQueryListener, Listen, givenVars, remoteVars
  <2>2. ListenersOf(p)' = IF p = q THEN ListenersOf(p) \cup {g} ELSE ListenersOf(p)
    BY <2>1 DEF ListenersOf
  <2>3. CASE p = q
    BY <1>0, <2>1, <2>2, <2>3
  <2>4. CASE p # q
    BY <1>0, <2>1, <2>2, <2>4
  <2> QED
    BY <2>3, <2>4
<1>2. CASE RemoveQueryListener(g)
  <2>1. /\ listeners' = listeners \ {g} /\ query' = query
        /\ \/ /\ ListenersOf(q) = {g} /\ targets' = targets \ {q}
              /\ view' = [view EXCEPT ![q] = NoView]
           \/ ListenersOf(q) # {g} /\ targets' = targets /\ view' = view
    BY <1>2 DEF RemoveQueryListener, StopListening, givenVars
  <2>2. ListenersOf(p)' = ListenersOf(p) \ {g}
    BY <2>1 DEF ListenersOf
  <2>3. p # q => g \notin ListenersOf(p)
    BY DEF ListenersOf
  <2>4. CASE p = q
    <3>1. CASE ListenersOf(q) = {g}
      BY <1>0, <2>1, <2>2, <2>4, <3>1 DEF NoView
    <3>2. CASE ListenersOf(q) # {g}
      BY <1>0, <2>1, <2>2, <2>4, <3>2
    <3> QED
      BY <3>1, <3>2
  <2>5. CASE p # q
    BY <1>0, <2>1, <2>2, <2>3, <2>5
  <2> QED
    BY <2>4, <2>5
<1> QED
  BY <1>1, <1>2

LEMMA RegistriesConnection == TypeOK /\ RegistriesAgree /\ Connection => RegistriesAgree'
<1> SUFFICES ASSUME TypeOK, RegistriesAgree, Connection PROVE RegistriesAgree'
  OBVIOUS
<1> USE DEF givenVars, engineVars
<1>1. CASE CredentialsArrive \/ CredentialsLate \/ BackoffTimer \/ HealthCheck
  BY <1>1, RegistriesKept
  DEF CredentialsArrive, CredentialsLate, BackoffTimer, HealthCheck, SameViews
<1>2. CASE CredentialsFail \/ OnStreamFinish
  <2>1. PICK s : StreamClosedByError(s)
    BY <1>2 DEF CredentialsFail, OnStreamFinish
  <2>2. UNCHANGED <<query, listeners, targets>>
    BY <1>2 DEF CredentialsFail, OnStreamFinish
  <2> QED
    BY <2>1, <2>2, ErrorViews, RegistriesKept
<1>3. CASE IdleTimer
  <2>1. UpdateState(tracker, "Unknown") \in Tracker
    BY TrackerMethods DEF TypeOK, OnlineState
  <2>2. SameViews
    BY <1>3, <2>1, OnlineViews DEF IdleTimer
  <2> QED
    BY <1>3, <2>2, RegistriesKept DEF IdleTimer
<1>4. CASE OnlineStateTimer
  <2>1. TimerFired(tracker) \in Tracker
    BY TrackerMethods DEF TypeOK
  <2>2. SameViews
    BY <1>4, <2>1, OnlineViews DEF OnlineStateTimer
  <2> QED
    BY <1>4, <2>2, RegistriesKept DEF OnlineStateTimer
<1>5. CASE RestartNetwork
  <2> DEFINE unknown == UpdateState(tracker, "Unknown")
             t == IF targets # {} THEN HandleWatchStreamStart(unknown) ELSE unknown
  <2>1. unknown \in Tracker
    BY TrackerMethods DEF TypeOK, OnlineState
  <2>2. t \in Tracker
    BY <2>1, TrackerMethods
  <2>3. HandleOnlineStateChange(t)
    BY <1>5 DEF RestartNetwork
  <2> HIDE DEF t
  <2>4. SameViews
    BY <2>2, <2>3, OnlineViews
  <2> QED
    BY <1>5, <2>4, RegistriesKept DEF RestartNetwork
<1> QED
  BY <1>1, <1>2, <1>3, <1>4, <1>5 DEF Connection

LEMMA RegistriesMessage == TypeOK /\ RegistriesAgree /\ Message => RegistriesAgree'
<1> SUFFICES ASSUME TypeOK, RegistriesAgree, Message PROVE RegistriesAgree'
  OBVIOUS
<1> USE DEF givenVars
<1>1. MessageRead => SameViews
  <2>1. UpdateState(tracker, "Online") \in Tracker
    BY TrackerMethods DEF TypeOK, OnlineState
  <2> QED
    BY <2>1, OnlineViews DEF MessageRead
<1>2. ASSUME NEW q \in Queries, ReadAdded(q) \/ ReadRemoved(q) \/ ReadCurrent(q)
      PROVE  RegistriesAgree'
  BY <1>1, <1>2, RegistriesKept DEF ReadAdded, ReadRemoved, ReadCurrent
<1>3. ASSUME NEW q \in Queries, ReadRefused(q) PROVE RegistriesAgree'
  <2>1. CASE q \in targets
    <3>1. /\ targets' = targets \ {q} /\ query' = query
          /\ view' = [view EXCEPT ![q] = NoView]
          /\ listeners' = listeners \ ListenersOf(q)
      BY <1>3, <2>1 DEF ReadRefused
    <3>2. \A p \in Queries : ListenersOf(p)' = IF p = q THEN {} ELSE ListenersOf(p)
      BY <3>1 DEF ListenersOf
    <3>3. view \in [Queries -> View]
      BY DEF TypeOK
    <3> QED
      BY <3>1, <3>2, <3>3 DEF RegistriesAgree, NoView
  <2>2. CASE q \notin targets
    BY <1>3, <2>2, RegistriesKept DEF ReadRefused, SameViews
  <2> QED
    BY <2>1, <2>2
<1>4. ASSUME NEW docs \in SUBSET Queries, ReadSnapshot(docs) PROVE RegistriesAgree'
  <2>1. UNCHANGED <<query, listeners, targets>>
    BY <1>4 DEF ReadSnapshot
  <2>2. ASSUME NEW q \in Queries
        PROVE  \/ view'[q] = view[q]
               \/ q \in targets /\ view'[q].state \in {"synced", "local"}
    BY <1>4 DEF ReadSnapshot, IsActiveTarget
  <2>3. SameViews
    BY <2>2 DEF SameViews, RegistriesAgree
  <2> QED
    BY <2>1, <2>3, RegistriesKept
<1> QED
  BY <1>2, <1>3, <1>4 DEF Message

\* EventManager, SyncEngine and RemoteStore agree on the queries that are
\* listened to, for any number of gets that share queries.
THEOREM Registries == Spec => []RegistriesAgree
<1>1. Init => RegistriesAgree
  BY DEF Init, RegistriesAgree, ListenersOf, NoView
<1>2. TypeOK /\ RegistriesAgree /\ [Next]_vars => RegistriesAgree'
  <2>1. App \/ UNCHANGED vars => UNCHANGED <<query, listeners, targets, view>>
    BY DEF App, GetDocuments, OnEvent, vars, givenVars, engineVars, remoteVars
  <2>2. RegistriesAgree /\ UNCHANGED <<query, listeners, targets, view>> => RegistriesAgree'
    BY RegistriesKept DEF SameViews
  <2> QED
    BY <2>1, <2>2, RegistriesWorker, RegistriesConnection, RegistriesMessage
    DEF Next, AllAnswered
<1> QED
  BY <1>1, <1>2, GetTypeCorrect, PTL DEF Spec

=============================================================================
