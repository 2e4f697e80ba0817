---------------------------- MODULE FirestoreGet ----------------------------
(***************************************************************************)
(* How Firestore answers getDocuments, the one call FirebaseService makes. *)
(*                                                                         *)
(* Query::GetDocuments registers a listener and takes it off again with    *)
(* its first event.  Three things run side by side: the app and the user   *)
(* executor (GetDocuments, OnEvent), the worker queue (EventManager,       *)
(* SyncEngine, RemoteStore, the streams and their timers), and the server  *)
(* behind a stream that breaks.  Every operation of the worker queue is    *)
(* one action, with all the calls it makes.                                *)
(*                                                                         *)
(* The tasks of one get and the events of one get are kept in order; the   *)
(* order between gets, and between the targets of the stream, is left      *)
(* open, which allows more behaviours than the code has.                   *)
(***************************************************************************)
EXTENDS OnlineStateTracker, WatchStream, Integers, Sequences

CONSTANTS
    Gets,           \* the calls of getDocuments
    Queries,        \* a query is its own target
    MayRefuse,      \* queries the server may refuse (permission, index)
    MaxEvents,      \* bound: events of a get the user executor is behind
    MaxDrops        \* bound: streams lost while online, connectivity changes

ASSUME GetAssumption ==
    /\ MayRefuse \subseteq Queries
    /\ MaxEvents \in Nat \ {0}
    /\ MaxDrops \in Nat

VARIABLES
    \* given from the start
    query,          \* query[g]: what g asks for
    refused,        \* the queries the server refuses
    \* the app and the user executor
    asked,          \* the gets issued
    events,         \* events[g]: what AsyncEventListener has put on the executor
    muted,          \* the gets whose AsyncEventListener is muted
    answers,        \* answers[g]: what the app's completion got
    \* EventManager and SyncEngine
    task,           \* task[g]: what is on the worker queue for g
    listeners,      \* the gets whose QueryListener EventManager holds
    raised,         \* those of them with raised_initial_event_
    view,           \* view[q]: SyncEngine's view and the listen that synced it
    \* RemoteStore
    targets,        \* listen_targets_
    listens,        \* listens[q]: how often q was listened to (history)
    tracker,
    stream,
    targetState,    \* WatchChangeAggregator's target_states_
    \* the server
    requests,       \* requests[q]: what it has not answered on this stream
    served,         \* served[q]: the listen it serves, and is it caught up?
    drops           \* how often an online stream was lost (bounded)

givenVars == <<query, refused>>
appVars == <<asked, events, muted, answers>>
engineVars == <<task, listeners, raised, view>>
remoteVars == <<targets, listens, tracker, stream, targetState>>
serverVars == <<requests, served, drops>>
vars == <<givenVars, appVars, engineVars, remoteVars, serverVars>>

Results == {"server", "cache", "error"}

NoView == [state |-> "none", by |-> 0]
View == [state : {"none", "local", "synced"}, by : Nat]

NewTargetState == [outstanding |-> 0, current |-> FALSE]
TargetState == [outstanding : Int, current : BOOLEAN]

NotServed == [listen |-> 0, current |-> FALSE]
Served == [listen : Nat, current : BOOLEAN]

WatchRequest(n) == [type |-> "watch", listen |-> n]
UnwatchRequest == [type |-> "unwatch", listen |-> 0]
Request == [type : {"watch", "unwatch"}, listen : Nat]

TypeOK ==
    /\ query \in [Gets -> Queries]
    /\ refused \subseteq MayRefuse
    /\ asked \subseteq Gets
    /\ events \in [Gets -> Seq(Results)]
    /\ muted \subseteq Gets
    /\ answers \in [Gets -> Seq(Results)]
    /\ task \in [Gets -> {"none", "add", "remove"}]
    /\ listeners \subseteq Gets
    /\ raised \subseteq Gets
    /\ view \in [Queries -> View]
    /\ targets \subseteq Queries
    /\ listens \in [Queries -> Nat]
    /\ tracker \in Tracker
    /\ stream \in Stream
    /\ targetState \in [Queries -> TargetState]
    /\ requests \in [Queries -> Seq(Request)]
    /\ served \in [Queries -> Served]
    /\ drops \in 0 .. MaxDrops

Init ==
    /\ query \in [Gets -> Queries]
    /\ refused \in SUBSET MayRefuse
    /\ asked = {}
    /\ events = [g \in Gets |-> <<>>]
    /\ muted = {}
    /\ answers = [g \in Gets |-> <<>>]
    /\ task = [g \in Gets |-> "none"]
    /\ listeners = {}
    /\ raised = {}
    /\ view = [q \in Queries |-> NoView]
    /\ targets = {}
    /\ listens = [q \in Queries |-> 0]
    /\ tracker = NewTracker
    /\ stream = NewStream
    /\ targetState = [q \in Queries |-> NewTargetState]
    /\ requests = [q \in Queries |-> <<>>]
    /\ served = [q \in Queries |-> NotServed]
    /\ drops = 0

-----------------------------------------------------------------------------
\* Events

ListenersOf(q) == {g \in listeners : query[g] = q}

\* Mutant of Raise: the view's state is passed on without the Converter.
RaiseUnconverted(gs, v) ==
    /\ \A g \in gs : Len(events[g]) < MaxEvents
    /\ events' = [g \in Gets |->
          IF g \notin gs THEN events[g] ELSE Append(events[g], v[query[g]].state)]
    /\ raised' = raised \cup gs

\* QueryListener hands a snapshot of the view v to the listeners gs.
Raise(gs, v) ==
    /\ \A g \in gs : Len(events[g]) < MaxEvents
    /\ events' = [g \in Gets |->
          IF g \notin gs THEN events[g]
          ELSE Append(events[g], IF v[query[g]].state = "synced" THEN "server"
                                 ELSE "cache")]
    /\ raised' = raised \cup gs

\* Once offline no view is current (View::ApplyOnlineStateChange) ...
OfflineView == [q \in Queries |->
    IF view[q].state = "synced" THEN [state |-> "local", by |-> 0] ELSE view[q]]

\* ... which is an event for who has had one, and who waits gets the cache.
ToldOffline == {g \in listeners : g \in raised => view[query[g]].state = "synced"}

\* SetAndBroadcast, through SyncEngine and EventManager to the listeners.  Only
\* the change to Offline has an effect there.
HandleOnlineStateChange(t) ==
    /\ tracker' = t
    /\ \/ /\ t.state = "Offline" /\ tracker.state # "Offline"
          /\ view' = OfflineView
          /\ Raise(ToldOffline, OfflineView)
       \/ /\ t.state # "Offline" \/ tracker.state = "Offline"
          /\ UNCHANGED <<view, events, raised>>

-----------------------------------------------------------------------------
\* RemoteStore's helpers

\* Mutant of IsActiveTarget: missing answers are not looked at.
IsListenTarget(q) == q \in targets

\* WatchChangeAggregator::TargetDataForActiveTarget: listened to, and no answer
\* to an earlier request is missing.
IsActiveTarget(q) == q \in targets /\ targetState[q].outstanding = 0

RecordPendingTargetRequest(ts) == [ts EXCEPT !.outstanding = @ + 1]
RecordTargetResponse(ts) == [ts EXCEPT !.outstanding = @ - 1]

\* CleanUpWatchStreamState and a new aggregator; what was on the stream is lost.
ForgetStream ==
    /\ targetState' = [q \in Queries |-> NewTargetState]
    /\ requests' = [q \in Queries |-> <<>>]
    /\ served' = [q \in Queries |-> NotServed]

\* OnWatchStreamClose after an error: retry if there is still a target.
StreamClosedByError(s) ==
    LET closed == Close(s, FALSE)
    IN  /\ ForgetStream
        /\ \/ /\ targets # {}
              /\ stream' = Start(closed)
              /\ HandleOnlineStateChange(
                    HandleWatchStreamStart(HandleWatchStreamFailure(tracker)))
           \/ /\ targets = {}
              /\ stream' = closed
              /\ HandleOnlineStateChange(UpdateState(tracker, "Unknown"))

-----------------------------------------------------------------------------
\* The app and the user executor

\* Query::GetDocuments: the listener goes to the worker queue.
GetDocuments(g) ==
    /\ g \notin asked
    /\ asked' = asked \cup {g}
    /\ task' = [task EXCEPT ![g] = "add"]
    /\ UNCHANGED <<givenVars, events, muted, answers, listeners, raised, view,
                   remoteVars, serverVars>>

\* Mutant of OnEvent: the listener is taken off without being muted.
OnEventUnmuted(g) ==
    LET event == Head(events[g])
    IN  /\ events[g] # <<>>
        /\ events' = [events EXCEPT ![g] = Tail(@)]
        /\ answers' = [answers EXCEPT ![g] = Append(@, event)]
        /\ task' = [task EXCEPT ![g] = IF event # "error" /\ g \in listeners
                                       THEN "remove" ELSE @]
        /\ UNCHANGED <<givenVars, asked, muted, listeners, raised, view, remoteVars,
                       serverVars>>

\* Mutant of OnEvent: the listener is muted and stays registered.
OnEventRegistered(g) ==
    LET event == Head(events[g])
    IN  /\ events[g] # <<>>
        /\ events' = [events EXCEPT ![g] = Tail(@)]
        /\ answers' = [answers EXCEPT ![g] = IF g \in muted THEN @
                                             ELSE Append(@, event)]
        /\ muted' = IF event = "error" THEN muted ELSE muted \cup {g}
        /\ UNCHANGED <<givenVars, asked, task, listeners, raised, view, remoteVars,
                       serverVars>>

\* AsyncEventListener's block on the executor and, unless the listener is muted,
\* ListenOnce::OnEvent: with a snapshot the listener is first muted and, if
\* EventManager still holds it, handed to the worker queue for removal; an error
\* is just passed on.
OnEvent(g) ==
    LET event == Head(events[g])
        first == g \notin muted
        removes == first /\ event # "error"
    IN  /\ events[g] # <<>>
        /\ events' = [events EXCEPT ![g] = Tail(@)]
        /\ answers' = [answers EXCEPT ![g] = IF first THEN Append(@, event) ELSE @]
        /\ muted' = IF removes THEN muted \cup {g} ELSE muted
        /\ task' = [task EXCEPT ![g] = IF removes /\ g \in listeners
                                       THEN "remove" ELSE @]
        /\ UNCHANGED <<givenVars, asked, listeners, raised, view, remoteVars,
                       serverVars>>

-----------------------------------------------------------------------------
\* The worker queue: EventManager, SyncEngine and RemoteStore

\* RemoteStore::Listen with a new target.
Listen(q) ==
    LET n == listens[q] + 1
    IN  /\ targets' = targets \cup {q}
        /\ listens' = [listens EXCEPT ![q] = n]
        /\ \/ /\ ~IsStarted(stream)
              /\ stream' = Start(stream)
              /\ tracker' = HandleWatchStreamStart(tracker)
              /\ UNCHANGED <<targetState, requests>>
           \/ /\ IsOpen(stream)
              /\ stream' = Write(stream)
              /\ targetState' = [targetState EXCEPT ![q] = RecordPendingTargetRequest(@)]
              /\ requests' = [requests EXCEPT ![q] = Append(@, WatchRequest(n))]
              /\ UNCHANGED tracker
           \/ /\ IsStarted(stream) /\ ~IsOpen(stream)
              /\ UNCHANGED <<stream, tracker, targetState, requests>>

\* Mutant of AddQueryListener: the online state is not looked at.
AddQueryListenerWaits(g) ==
    LET q == query[g]
        first == ListenersOf(q) = {}
        shown == IF first THEN [view EXCEPT ![q] = [state |-> "local", by |-> 0]]
                 ELSE view
    IN  /\ task[g] = "add"
        /\ task' = [task EXCEPT ![g] = "none"]
        /\ listeners' = listeners \cup {g}
        /\ view' = shown
        /\ Raise(IF shown[q].state = "synced" THEN {g} ELSE {}, shown)
        /\ \/ first /\ Listen(q)
           \/ ~first /\ UNCHANGED <<remoteVars, requests>>
        /\ UNCHANGED <<givenVars, asked, muted, answers, served, drops>>

\* EventManager::AddQueryListener.  The first listener of a query makes SyncEngine
\* compute its view from the cache; a view is there for the others.  A listener
\* that waits for the sync is told at once only if the view is synced or the
\* client offline.
AddQueryListener(g) ==
    LET q == query[g]
        first == ListenersOf(q) = {}
        shown == IF first THEN [view EXCEPT ![q] = [state |-> "local", by |-> 0]]
                 ELSE view
        told == shown[q].state = "synced" \/ tracker.state = "Offline"
    IN  /\ task[g] = "add"
        /\ task' = [task EXCEPT ![g] = "none"]
        /\ listeners' = listeners \cup {g}
        /\ view' = shown
        /\ Raise(IF told THEN {g} ELSE {}, shown)
        /\ \/ first /\ Listen(q)
           \/ ~first /\ UNCHANGED <<remoteVars, requests>>
        /\ UNCHANGED <<givenVars, asked, muted, answers, served, drops>>

\* RemoteStore::StopListening.
StopListening(q) ==
    /\ targets' = targets \ {q}
    /\ \/ /\ IsOpen(stream)
          /\ targetState' = [targetState EXCEPT ![q] = RecordPendingTargetRequest(@)]
          /\ requests' = [requests EXCEPT ![q] = Append(@, UnwatchRequest)]
          /\ stream' = IF targets' = {} THEN MarkIdle(Write(stream)) ELSE Write(stream)
          /\ UNCHANGED tracker
       \/ /\ ~IsOpen(stream)
          /\ tracker' = IF targets' = {} THEN UpdateState(tracker, "Unknown")
                        ELSE tracker
          /\ UNCHANGED <<targetState, requests, stream>>

\* Mutant of RemoveQueryListener: the query goes with any of its listeners.
RemoveQueryListenerStops(g) ==
    LET q == query[g]
    IN  /\ task[g] = "remove"
        /\ task' = [task EXCEPT ![g] = "none"]
        /\ listeners' = listeners \ {g}
        /\ \/ g \in listeners /\ q \in targets /\ StopListening(q)
              /\ view' = [view EXCEPT ![q] = NoView]
           \/ ~(g \in listeners /\ q \in targets)
              /\ UNCHANGED <<view, targets, tracker, stream, targetState, requests>>
        /\ raised' = raised \ {g}
        /\ UNCHANGED <<givenVars, appVars, listens, served, drops>>

\* EventManager::RemoveQueryListener: with the last listener of the query goes
\* the query, and with it the target.
RemoveQueryListener(g) ==
    LET q == query[g]
        last == ListenersOf(q) = {g}
    IN  /\ task[g] = "remove"
        /\ task' = [task EXCEPT ![g] = "none"]
        /\ listeners' = listeners \ {g}
        /\ \/ last /\ StopListening(q) /\ view' = [view EXCEPT ![q] = NoView]
           \/ ~last /\ UNCHANGED <<view, targets, tracker, stream, targetState,
                                   requests>>
        /\ raised' = raised \ {g}
        /\ UNCHANGED <<givenVars, appVars, listens, served, drops>>

-----------------------------------------------------------------------------
\* The worker queue: the stream and the timers

\* Mutant of CredentialsArrive: the targets are not asked for again.
CredentialsArriveSilently ==
    /\ "current" \in stream.credentials
    /\ stream' = Opened(stream)
    /\ UNCHANGED <<givenVars, appVars, engineVars, targets, listens, tracker,
                   targetState, serverVars>>

\* The credentials are there: OnStreamStart and OnWatchStreamOpen, which sends a
\* request for every target.
CredentialsArrive ==
    /\ "current" \in stream.credentials
    /\ stream' = Opened(stream)
    /\ targetState' = [q \in Queries |->
          IF q \in targets THEN RecordPendingTargetRequest(targetState[q])
          ELSE targetState[q]]
    /\ requests' = [q \in Queries |->
          IF q \in targets THEN Append(requests[q], WatchRequest(listens[q]))
          ELSE requests[q]]
    /\ UNCHANGED <<givenVars, appVars, engineVars, targets, listens, tracker, served,
                   drops>>

\* No token: OnStreamFinish.
CredentialsFail ==
    /\ "current" \in stream.credentials
    /\ StreamClosedByError([stream EXCEPT !.credentials = @ \ {"current"}])
    /\ UNCHANGED <<givenVars, asked, muted, answers, task, listeners, targets, listens,
                   drops>>

\* The close count has moved on: nothing happens.
CredentialsLate ==
    /\ "closed" \in stream.credentials
    /\ stream' = [stream EXCEPT !.credentials = @ \ {"closed"}]
    /\ UNCHANGED <<givenVars, appVars, engineVars, targets, listens, tracker,
                   targetState, serverVars>>

\* gRPC reports the end of the call, or a message cannot be read: OnStreamFinish.
OnStreamFinish ==
    /\ IsOpen(stream)
    /\ \/ tracker.state # "Online" /\ UNCHANGED drops
       \/ tracker.state = "Online" /\ drops < MaxDrops /\ drops' = drops + 1
    /\ StreamClosedByError(stream)
    /\ UNCHANGED <<givenVars, asked, muted, answers, task, listeners, targets, listens>>

BackoffTimer ==
    /\ stream.state = "Backoff"
    /\ stream' = BackoffElapsed(stream)
    /\ UNCHANGED <<givenVars, appVars, engineVars, targets, listens, tracker,
                   targetState, serverVars>>

HealthCheck ==
    /\ stream.state = "Open"
    /\ stream' = [stream EXCEPT !.state = "Healthy"]
    /\ UNCHANGED <<givenVars, appVars, engineVars, targets, listens, tracker,
                   targetState, serverVars>>

\* The idleness timer: Stop, and OnWatchStreamClose with status OK.
IdleTimer ==
    /\ stream.idle
    /\ stream' = Close(stream, TRUE)
    /\ ForgetStream
    /\ HandleOnlineStateChange(UpdateState(tracker, "Unknown"))
    /\ UNCHANGED <<givenVars, asked, muted, answers, task, listeners, targets, listens,
                   drops>>

\* The tracker's timer.
OnlineStateTimer ==
    /\ tracker.timer
    /\ HandleOnlineStateChange(TimerFired(tracker))
    /\ UNCHANGED <<givenVars, asked, muted, answers, task, listeners, targets, listens,
                   stream, targetState, serverVars>>

\* The network is back, or another one: RestartNetwork stops the stream, clears
\* its error and starts it anew if there is a target.
RestartNetwork ==
    LET stopped == InhibitBackoff(Close(stream, TRUE))
        unknown == UpdateState(tracker, "Unknown")
    IN  /\ drops < MaxDrops
        /\ drops' = drops + 1
        /\ ForgetStream
        /\ stream' = IF targets # {} THEN Start(stopped) ELSE stopped
        /\ HandleOnlineStateChange(IF targets # {} THEN HandleWatchStreamStart(unknown)
                                   ELSE unknown)
        /\ UNCHANGED <<givenVars, asked, muted, answers, task, listeners, targets,
                       listens>>

-----------------------------------------------------------------------------
\* The worker queue: messages of the server.  Every one of them shows that the
\* client is online.

Answered(q) == requests' = [requests EXCEPT ![q] = Tail(@)]

MessageRead ==
    /\ IsOpen(stream)
    /\ HandleOnlineStateChange(UpdateState(tracker, "Online"))
    /\ UNCHANGED stream

\* The target was added.
ReadAdded(q) ==
    /\ requests[q] # <<>> /\ Head(requests[q]).type = "watch"
    /\ q \notin refused
    /\ MessageRead
    /\ Answered(q)
    /\ targetState' = [targetState EXCEPT ![q] = RecordTargetResponse(@)]
    /\ served' = [served EXCEPT
          ![q] = [listen |-> Head(requests[q]).listen, current |-> FALSE]]
    /\ UNCHANGED <<givenVars, asked, muted, answers, task, listeners, targets, listens,
                   drops>>

\* Mutant of ReadRemoved: the answer is not counted.
ReadRemovedUncounted(q) ==
    /\ requests[q] # <<>> /\ Head(requests[q]).type = "unwatch"
    /\ MessageRead
    /\ Answered(q)
    /\ served' = [served EXCEPT ![q] = NotServed]
    /\ UNCHANGED <<givenVars, asked, muted, answers, task, listeners, targets, listens,
                   drops, targetState>>

\* The target was removed on the client's request.
ReadRemoved(q) ==
    LET ts == RecordTargetResponse(targetState[q])
    IN  /\ requests[q] # <<>> /\ Head(requests[q]).type = "unwatch"
        /\ MessageRead
        /\ Answered(q)
        /\ targetState' = [targetState EXCEPT
              ![q] = IF ts.outstanding # 0 THEN ts ELSE NewTargetState]
        /\ served' = [served EXCEPT ![q] = NotServed]
        /\ UNCHANGED <<givenVars, asked, muted, answers, task, listeners, targets,
                       listens, drops>>

\* The target was removed because the server refuses it: ProcessTargetError, down
\* to EventManager::OnError, which drops the listeners.  A target no longer
\* listened to is ignored.
ReadRefused(q) ==
    LET gs == ListenersOf(q)
    IN  /\ requests[q] # <<>> /\ Head(requests[q]).type = "watch"
        /\ q \in refused
        /\ IsOpen(stream)
        /\ tracker' = UpdateState(tracker, "Online")
        /\ Answered(q)
        /\ \/ /\ q \in targets
              /\ \A g \in gs : Len(events[g]) < MaxEvents
              /\ targets' = targets \ {q}
              /\ targetState' = [targetState EXCEPT ![q] = NewTargetState]
              /\ view' = [view EXCEPT ![q] = NoView]
              /\ events' = [g \in Gets |-> IF g \in gs THEN Append(events[g], "error")
                                           ELSE events[g]]
              /\ listeners' = listeners \ gs
              /\ raised' = raised \ gs
           \/ /\ q \notin targets
              /\ UNCHANGED <<targets, targetState, view, events, listeners, raised>>
        /\ UNCHANGED <<givenVars, asked, muted, answers, task, listens, stream, served,
                       drops>>

\* The target is up to date.
ReadCurrent(q) ==
    /\ served[q].listen # 0 /\ ~served[q].current
    /\ MessageRead
    /\ served' = [served EXCEPT ![q].current = TRUE]
    /\ targetState' = [targetState EXCEPT ![q].current = @ \/ IsActiveTarget(q)]
    /\ UNCHANGED <<givenVars, asked, muted, answers, task, listeners, targets, listens,
                   requests, drops>>

\* A consistent snapshot of all targets of the stream, with a new resume token and
\* with changed documents of the queries docs: RaiseWatchSnapshot.
ReadSnapshot(docs) ==
    LET active == {q \in Queries : IsActiveTarget(q)}
        shown == [q \in Queries |->
            IF q \notin active THEN view[q]
            ELSE IF targetState[q].current
                 THEN [state |-> "synced", by |-> served[q].listen]
                 ELSE [state |-> "local", by |-> 0]]
        told(g) == LET q == query[g]
                   IN  IF g \in raised
                       THEN shown[q].state # view[q].state \/ q \in docs
                       ELSE shown[q].state = "synced"
    IN  /\ IsOpen(stream)
        /\ \E q \in Queries : served[q].listen # 0
        /\ \A q \in Queries : served[q].listen # 0 => served[q].current
        /\ docs \subseteq active
        /\ tracker' = UpdateState(tracker, "Online")
        /\ view' = shown
        /\ Raise({g \in listeners : told(g)}, shown)
        /\ UNCHANGED <<givenVars, asked, muted, answers, task, listeners, targets,
                       listens, stream, targetState, serverVars>>

-----------------------------------------------------------------------------
App == \E g \in Gets : GetDocuments(g) \/ OnEvent(g)

Worker == \E g \in Gets : AddQueryListener(g) \/ RemoveQueryListener(g)

Connection ==
    \/ CredentialsArrive
    \/ CredentialsFail
    \/ CredentialsLate
    \/ OnStreamFinish
    \/ BackoffTimer
    \/ HealthCheck
    \/ IdleTimer
    \/ OnlineStateTimer
    \/ RestartNetwork

Message ==
    \/ \E q \in Queries : ReadAdded(q) \/ ReadRemoved(q) \/ ReadRefused(q) \/ ReadCurrent(q)
    \/ \E docs \in SUBSET Queries : ReadSnapshot(docs)

\* Every get has been answered and taken off: nothing need happen any more.
AllAnswered ==
    /\ \A g \in Gets : answers[g] # <<>> /\ events[g] = <<>> /\ task[g] = "none"
    /\ UNCHANGED vars

Next == App \/ Worker \/ Connection \/ Message \/ AllAnswered

\* The queues run, the timers fire, the credentials come or are refused.  A request
\* on an open stream is answered or the stream ends: gRPC's keep-alive sees to that.
\* The server completes what it has begun while the stream lasts.
Fairness ==
    /\ \A g \in Gets : /\ WF_vars(OnEvent(g))
                       /\ WF_vars(AddQueryListener(g))
                       /\ WF_vars(RemoveQueryListener(g))
    /\ WF_vars(CredentialsArrive \/ CredentialsFail)
    /\ WF_vars(BackoffTimer)
    /\ WF_vars(OnlineStateTimer)
    /\ \A q \in Queries :
          /\ WF_vars(ReadAdded(q) \/ ReadRemoved(q) \/ ReadRefused(q) \/ OnStreamFinish)
          /\ WF_vars(ReadCurrent(q) \/ OnStreamFinish)
    /\ WF_vars((\E docs \in SUBSET Queries : ReadSnapshot(docs)) \/ OnStreamFinish)

Spec == Init /\ [][Next]_vars /\ Fairness

-----------------------------------------------------------------------------
\* Properties

\* The tracker's timer runs only while the client is waiting for a stream to
\* prove itself: the state is Unknown, and there is a stream that may fail or
\* bring a message.  The HARD_ASSERTs of OnlineStateTracker rest on it: the timer
\* never fires in another state and is never started twice.
TimerWhileConnecting ==
    /\ tracker.timer => tracker.state = "Unknown" /\ IsStarted(stream)
    /\ tracker.state = "Online" => tracker.failures = 0

\* Exactly a starting stream waits for credentials of its own; an answer to a
\* request from before a Close is told apart from it.  ResumeStartWithCredentials
\* asserts it.
CredentialsOfThisStart == "current" \in stream.credentials <=> stream.state = "Starting"

\* The idleness timer runs only while nothing is listened to, so that it never
\* stops a stream that is still needed, as OnWatchStreamClose asserts.
IdleWithoutTarget == stream.idle => IsOpen(stream) /\ targets = {}

\* EventManager's listeners, SyncEngine's views and RemoteStore's targets name
\* the same queries, whichever of removal, error and new get comes first: no
\* target is listened to twice or stopped twice, and none is left behind.
RegistriesAgree ==
    \A q \in Queries :
        /\ q \in targets <=> ListenersOf(q) # {}
        /\ q \in targets <=> view[q].state # "none"

\* A get that was answered and has no task left on the worker queue is not
\* registered any more.
NoListenerLeft ==
    \A g \in Gets : answers[g] # <<>> /\ task[g] = "none" => g \notin listeners

\* The aggregator waits for exactly as many answers as the server owes it for the
\* target: one too few would let an answer to an earlier listen through, one too
\* many would keep the target silent for ever.
OutstandingIsOwed ==
    \A q \in Queries \ refused :
        targetState[q].outstanding = Len(requests[q])

\* A view that counts as synced was synced by the listen it has now, never by
\* what the server still sends for an earlier listen of the same query.
SyncedByThisListen ==
    \A q \in Queries : view[q].state = "synced" => view[q].by = listens[q]

\* To the app it looks like GetOnce, whatever happens to stream and timers.
Once == INSTANCE GetOnce WITH refused <- {g \in Gets : query[g] \in refused}
AnsweredLikeGetOnce == Once!Spec

\* What can bring the first snapshot of q nearer without a further call of the app:
\* credentials or the back-off timer, an answer the server owes, its Current, or
\* the next consistent snapshot.
UnderWay(q) ==
    \/ "current" \in stream.credentials
    \/ stream.state = "Backoff"
    \/ /\ IsOpen(stream)
       /\ \/ requests[q] # <<>>
          \/ /\ served[q].listen = listens[q]
             /\ served[q].current => targetState[q].current /\ IsActiveTarget(q)

\* No get is forgotten: while it has no answer it is on its way to EventManager, or
\* an event is on its way to it, or it is registered, has not been told anything,
\* and something is under way for its query.  An offline client has told everyone.
NoGetForgotten ==
    \A g \in asked : answers[g] = <<>> =>
        \/ task[g] = "add"
        \/ events[g] # <<>>
        \/ g \in listeners \ raised /\ tracker.state # "Offline" /\ UnderWay(query[g])

\* Every get is answered: by the server or, when the client gives up waiting, by
\* the cache.
EveryGetAnswered == \A g \in Gets : g \in asked ~> answers[g] # <<>>
=============================================================================
