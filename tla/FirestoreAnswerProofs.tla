------------------------ MODULE FirestoreAnswerProofs ------------------------
(***************************************************************************)
(* Proofs about what FirestoreGet answers: it implements GetOnce, leaves   *)
(* no listener behind, and takes nothing the server sends for an earlier   *)
(* listen of a query for an answer to the present one.                     *)
(***************************************************************************)
EXTENDS FirestoreGetProofs

-----------------------------------------------------------------------------
\* The inductive invariant of the answers

\* The server serves no query it refuses, so no such query is ever current.
ServerOK(q) ==
    q \in refused => /\ served[q].listen = 0
                     /\ ~targetState[q].current
                     /\ view[q].state # "synced"

\* Before the add task has run, a get has neither events nor an answer.
Untouched(g) ==
    events[g] = <<>> /\ answers[g] = <<>> /\ g \notin listeners /\ g \notin muted

\* An error is the last event of a get, which is no longer registered.
EventsOK(g) ==
    \A i \in 1 .. Len(events[g]) :
        /\ events[g][i] = "error" =>
              i = Len(events[g]) /\ g \notin listeners /\ query[g] \in refused
        /\ events[g][i] = "server" => query[g] \notin refused

\* An answered get is muted and about to be taken off, or it got an error and
\* hears nothing any more.
AnswerOK(g) ==
    /\ g \notin asked => task[g] = "none" /\ Untouched(g)
    /\ task[g] = "add" => Untouched(g)
    /\ EventsOK(g)
    /\ g \notin muted /\ answers[g] # <<>> => events[g] = <<>> /\ g \notin listeners
    /\ g \in muted => task[g] = "remove" \/ g \notin listeners

AnswerInv ==
    /\ TypeOK
    /\ \A q \in Queries : ServerOK(q)
    /\ \A g \in Gets : AnswerOK(g)

-----------------------------------------------------------------------------
\* Snapshots

\* What the listeners in gs may hear: a snapshot, from the server only if the
\* server does not refuse the query.
Told(g, gs) ==
    \/ events'[g] = events[g]
    \/ g \in gs /\ \E r \in {"server", "cache"} :
           /\ events'[g] = Append(events[g], r)
           /\ r = "server" => query[g] \notin refused

LEMMA RaiseTells ==
    ASSUME TypeOK, NEW gs \in SUBSET Gets, NEW v, Raise(gs, v),
           \A q \in Queries : v[q].state = "synced" => q \notin refused,
           NEW g \in Gets
    PROVE  Told(g, gs)
<1>1. query[g] \in Queries
  BY DEF TypeOK
<1>2. CASE g \notin gs
  BY <1>2 DEF Raise, Told
<1>3. CASE g \in gs /\ v[query[g]].state = "synced"
  <2>1. events'[g] = Append(events[g], "server") /\ query[g] \notin refused
    BY <1>1, <1>3 DEF Raise
  <2> QED
    BY <1>3, <2>1 DEF Told
<1>4. CASE g \in gs /\ v[query[g]].state # "synced"
  <2>1. events'[g] = Append(events[g], "cache")
    BY <1>4 DEF Raise
  <2> QED
    BY <1>4, <2>1 DEF Told
<1> QED
  BY <1>2, <1>3, <1>4

LEMMA OnlineTells ==
    ASSUME AnswerInv, NEW t \in Tracker, HandleOnlineStateChange(t)
    PROVE  /\ \A g \in Gets : Told(g, listeners)
           /\ \A q \in Queries : view'[q] = view[q] \/ view'[q].state = "local"
<1>0. TypeOK
  BY DEF AnswerInv
<1>1. \A q \in Queries : view'[q] = view[q] \/ view'[q].state = "local"
  BY <1>0, OnlineChange
<1>2. CASE t.state = "Offline" /\ tracker.state # "Offline"
  <2>1. Raise(ToldOffline, OfflineView)
    BY <1>2 DEF HandleOnlineStateChange
  <2>2. ToldOffline \in SUBSET Gets /\ ToldOffline \subseteq listeners
    BY <1>0 DEF ToldOffline, TypeOK
  <2>3. \A q \in Queries : OfflineView[q].state = "synced" => q \notin refused
    BY DEF OfflineView
  <2>4. \A g \in Gets : Told(g, ToldOffline)
    BY <1>0, <2>1, <2>2, <2>3, RaiseTells
  <2> QED
    BY <1>1, <2>2, <2>4 DEF Told
<1>3. CASE t.state # "Offline" \/ tracker.state = "Offline"
  BY <1>1, <1>3 DEF HandleOnlineStateChange, Told
<1> QED
  BY <1>2, <1>3

\* A snapshot, or none, leaves a get that is otherwise left alone in order.
LEMMA ToldOK ==
    ASSUME TypeOK, NEW g \in Gets, AnswerOK(g), Told(g, listeners),
           UNCHANGED <<query, refused, asked, muted, answers, task, listeners>>
    PROVE  AnswerOK(g)'
<1>1. CASE events'[g] = events[g]
  BY <1>1 DEF AnswerOK, Untouched, EventsOK
<1>2. ASSUME g \in listeners, NEW r \in {"server", "cache"},
             events'[g] = Append(events[g], r),
             r = "server" => query[g] \notin refused
      PROVE  AnswerOK(g)'
  <2>1. events[g] \in Seq(Results)
    BY DEF TypeOK
  <2>2. /\ Len(events'[g]) = Len(events[g]) + 1
        /\ \A i \in 1 .. Len(events[g]) : events'[g][i] = events[g][i]
        /\ events'[g][Len(events[g]) + 1] = r
    BY <1>2, <2>1
  <2>3. \A i \in 1 .. Len(events[g]) : events[g][i] # "error"
    BY <1>2 DEF AnswerOK, EventsOK
  <2>4. EventsOK(g)'
    <3> SUFFICES ASSUME NEW i \in 1 .. Len(events'[g])
                 PROVE  /\ events'[g][i] # "error"
                        /\ events'[g][i] = "server" => query[g] \notin refused
      BY DEF EventsOK
    <3>1. CASE i = Len(events[g]) + 1
      BY <1>2, <2>2, <3>1
    <3>2. CASE i # Len(events[g]) + 1
      <4>1. i \in 1 .. Len(events[g])
        BY <2>1, <2>2, <3>2
      <4> QED
        BY <2>2, <2>3, <4>1 DEF AnswerOK, EventsOK
    <3> QED
      BY <3>1, <3>2
  <2> QED
    BY <1>2, <2>4 DEF AnswerOK, Untouched
<1> QED
  BY <1>1, <1>2 DEF Told

-----------------------------------------------------------------------------
\* Every step keeps the invariant

LEMMA AnswersApp == AnswerInv /\ App /\ TypeOK' => AnswerInv'
<1> SUFFICES ASSUME AnswerInv, TypeOK', NEW g \in Gets, GetDocuments(g) \/ OnEvent(g)
             PROVE  AnswerInv'
  BY DEF App
<1>1. UNCHANGED <<query, refused, listeners, view, targetState, served>>
  BY DEF GetDocuments, OnEvent, givenVars, remoteVars, serverVars
<1>2. \A q \in Queries : ServerOK(q)'
  BY <1>1 DEF AnswerInv, ServerOK
<1>3. ASSUME NEW h \in Gets, h # g PROVE AnswerOK(h)'
  <2>1. AnswerOK(h) /\ TypeOK
    BY DEF AnswerInv
  <2>2. /\ events'[h] = events[h] /\ answers'[h] = answers[h] /\ task'[h] = task[h]
        /\ h \in asked' <=> h \in asked
        /\ h \in muted' <=> h \in muted
    BY <1>3, <2>1 DEF GetDocuments, OnEvent, TypeOK
  <2> QED
    BY <1>1, <2>1, <2>2 DEF AnswerOK, Untouched, EventsOK
<1>4. AnswerOK(g) /\ TypeOK
  BY DEF AnswerInv
<1>5. CASE GetDocuments(g)
  <2>1. /\ task'[g] = "add" /\ g \in asked'
        /\ g \notin asked
        /\ UNCHANGED <<events, answers, muted>>
    BY <1>4, <1>5 DEF GetDocuments, TypeOK
  <2>2. AnswerOK(g)'
    BY <1>1, <1>4, <2>1 DEF AnswerOK, Untouched, EventsOK
  <2> QED
    BY <1>2, <1>3, <2>2 DEF AnswerInv
<1>6. CASE OnEvent(g)
  <2> DEFINE event == Head(events[g])
  <2>1. events[g] \in Seq(Results) /\ events[g] # <<>>
    BY <1>4, <1>6 DEF OnEvent, TypeOK
  <2>2. /\ events'[g] = Tail(events[g])
        /\ answers'[g] = IF g \notin muted THEN Append(answers[g], event) ELSE answers[g]
        /\ muted' = IF g \notin muted /\ event # "error" THEN muted \cup {g} ELSE muted
        /\ task'[g] = IF g \notin muted /\ event # "error" /\ g \in listeners
                      THEN "remove" ELSE task[g]
        /\ asked' = asked
    BY <1>4, <1>6 DEF OnEvent, TypeOK
  <2>3. /\ event = events[g][1]
        /\ Len(events'[g]) = Len(events[g]) - 1
        /\ \A i \in 1 .. Len(events'[g]) : events'[g][i] = events[g][i + 1]
        /\ Len(events[g]) \in Nat \ {0}
    BY <2>1, <2>2
  <2> HIDE DEF event
  <2>4. EventsOK(g)'
    <3> SUFFICES ASSUME NEW i \in 1 .. Len(events'[g])
                 PROVE  /\ events'[g][i] = "error" =>
                              /\ i = Len(events'[g])
                              /\ g \notin listeners /\ query[g] \in refused
                        /\ events'[g][i] = "server" => query[g] \notin refused
      BY <1>1 DEF EventsOK
    <3>1. i + 1 \in 1 .. Len(events[g]) /\ events'[g][i] = events[g][i + 1]
      BY <2>3
    <3> QED
      BY <1>4, <2>3, <3>1 DEF AnswerOK, EventsOK
  <2>5. g \in asked /\ task[g] # "add"
    BY <1>4, <2>1 DEF AnswerOK, Untouched
  <2>6. event = "error" => events'[g] = <<>> /\ g \notin listeners
    <3> SUFFICES ASSUME event = "error"
                 PROVE  events'[g] = <<>> /\ g \notin listeners
      OBVIOUS
    <3>1. 1 \in 1 .. Len(events[g])
      BY <2>3
    <3>2. Len(events[g]) = 1 /\ g \notin listeners
      BY <1>4, <2>3, <3>1 DEF AnswerOK, EventsOK
    <3>3. events'[g] \in Seq(Results) /\ Len(events'[g]) = 0
      BY <2>1, <2>2, <2>3, <3>2
    <3> QED
      BY <3>2, <3>3
  <2>7. g \notin muted => answers[g] = <<>>
    BY <1>4, <2>1 DEF AnswerOK
  <2>8. AnswerOK(g)'
    <3>1. CASE g \in muted
      BY <1>1, <1>4, <2>2, <2>4, <2>5, <3>1 DEF AnswerOK
    <3>2. CASE g \notin muted /\ event = "error"
      BY <1>1, <1>4, <2>2, <2>4, <2>5, <2>6, <3>2 DEF AnswerOK
    <3>3. CASE g \notin muted /\ event # "error"
      BY <1>1, <1>4, <2>2, <2>4, <2>5, <3>3 DEF AnswerOK
    <3> QED
      BY <3>1, <3>2, <3>3
  <2> QED
    BY <1>2, <1>3, <2>8 DEF AnswerInv
<1> QED
  BY <1>5, <1>6

LEMMA AnswersWorker == AnswerInv /\ Worker /\ TypeOK' => AnswerInv'
<1> SUFFICES ASSUME AnswerInv, TypeOK', NEW g \in Gets,
                    AddQueryListener(g) \/ RemoveQueryListener(g)
             PROVE  AnswerInv'
  BY DEF Worker
<1> DEFINE q == query[g]
<1>0. /\ TypeOK /\ q \in Queries
      /\ \A p \in Queries : ServerOK(p)
      /\ \A h \in Gets : AnswerOK(h)
  BY DEF AnswerInv, TypeOK
<1>1. /\ UNCHANGED <<query, refused, asked, muted, answers, served>>
      /\ task'[g] = "none"
      /\ \A h \in Gets : h # g => task'[h] = task[h] /\ (h \in listeners' <=> h \in listeners)
  BY <1>0 DEF AddQueryListener, RemoveQueryListener, givenVars, appVars, TypeOK
<1>2. \A p \in Queries : targetState'[p].current = targetState[p].current
  <2>1. \/ UNCHANGED targetState
        \/ targetState' = [targetState EXCEPT ![q] = RecordPendingTargetRequest(@)]
    BY DEF AddQueryListener, RemoveQueryListener, Listen, StopListening, remoteVars
  <2>2. targetState \in [Queries -> TargetState]
    BY <1>0 DEF TypeOK
  <2>3. CASE UNCHANGED targetState
    BY <2>3
  <2>4. CASE targetState' = [targetState EXCEPT ![q] = RecordPendingTargetRequest(@)]
    BY <1>0, <2>2, <2>4, CountMethods
  <2> QED
    BY <2>1, <2>3, <2>4
<1>3. \A p \in Queries : view'[p] = view[p] \/ view'[p].state \in {"local", "none"}
  <2>1. \/ view' = view
        \/ view' = [view EXCEPT ![q] = [state |-> "local", by |-> 0]]
        \/ view' = [view EXCEPT ![q] = NoView]
    BY DEF AddQueryListener, RemoveQueryListener
  <2> QED
    BY <1>0, <2>1 DEF TypeOK, NoView
<1>4. \A p \in Queries : ServerOK(p)'
  BY <1>0, <1>1, <1>2, <1>3 DEF ServerOK
<1>5. CASE AddQueryListener(g)
  <2>1. listeners' = listeners \cup {g} /\ task[g] = "add"
    BY <1>5 DEF AddQueryListener
  <2>2. PICK gs \in SUBSET {g} : Raise(gs, view')
    BY <1>5 DEF AddQueryListener
  <2>3. \A p \in Queries : view'[p].state = "synced" => p \notin refused
    BY <1>0, <1>3 DEF ServerOK
  <2>4. \A h \in Gets : Told(h, gs)
    BY <1>0, <2>2, <2>3, RaiseTells
  <2>5. Untouched(g) /\ g \in asked
    BY <1>0, <2>1 DEF AnswerOK
  <2>6. ASSUME NEW h \in Gets, h # g PROVE AnswerOK(h)'
    <3>1. events'[h] = events[h]
      BY <2>4, <2>6 DEF Told
    <3> QED
      BY <1>0, <1>1, <2>6, <3>1 DEF AnswerOK, Untouched, EventsOK
  <2>7. \A i \in 1 .. Len(events'[g]) : /\ events'[g][i] # "error"
                                        /\ events'[g][i] = "server" => query[g] \notin refused
    <3>1. CASE events'[g] = <<>>
      BY <3>1
    <3>2. ASSUME NEW r \in {"server", "cache"}, events'[g] = Append(<<>>, r),
                 r = "server" => query[g] \notin refused
          PROVE  \A i \in 1 .. Len(events'[g]) :
                     /\ events'[g][i] # "error"
                     /\ events'[g][i] = "server" => query[g] \notin refused
      BY <3>2
    <3> QED
      BY <2>4, <2>5, <3>1, <3>2 DEF Told, Untouched
  <2>8. AnswerOK(g)'
    BY <1>1, <2>5, <2>7 DEF AnswerOK, EventsOK, Untouched
  <2> QED
    BY <1>4, <2>6, <2>8 DEF AnswerInv
<1>6. CASE RemoveQueryListener(g)
  <2>1. listeners' = listeners \ {g} /\ UNCHANGED events /\ task[g] = "remove"
    BY <1>6 DEF RemoveQueryListener, appVars
  <2>2. \A h \in Gets : AnswerOK(h)'
    BY <1>0, <1>1, <2>1 DEF AnswerOK, Untouched, EventsOK
  <2> QED
    BY <1>4, <2>2 DEF AnswerInv
<1> QED
  BY <1>5, <1>6

\* A step that only may tell of the online state, and may lose what the aggregator
\* and the server knew.
LEMMA AnswersOnline ==
    ASSUME AnswerInv, TypeOK', NEW t \in Tracker, HandleOnlineStateChange(t),
           UNCHANGED <<query, refused, asked, muted, answers, task, listeners>>,
           \A q \in Queries : q \in refused =>
               served'[q].listen = 0 /\ ~targetState'[q].current
    PROVE  AnswerInv'
<1>1. /\ \A g \in Gets : Told(g, listeners)
      /\ \A q \in Queries : view'[q] = view[q] \/ view'[q].state = "local"
  BY OnlineTells
<1>2. \A q \in Queries : ServerOK(q)'
  BY <1>1 DEF AnswerInv, ServerOK
<1>3. \A g \in Gets : AnswerOK(g)'
  BY <1>1, ToldOK DEF AnswerInv
<1> QED
  BY <1>2, <1>3 DEF AnswerInv

LEMMA ForgottenOK ==
    ASSUME ForgetStream
    PROVE  \A q \in Queries : served'[q].listen = 0 /\ ~targetState'[q].current
BY DEF ForgetStream, NotServed, NewTargetState

LEMMA AnswersConnection == AnswerInv /\ Connection /\ TypeOK' => AnswerInv'
<1> SUFFICES ASSUME AnswerInv, TypeOK', Connection PROVE AnswerInv'
  OBVIOUS
<1>0. TypeOK /\ tracker \in Tracker
  BY DEF AnswerInv, TypeOK
<1> USE DEF givenVars, appVars, engineVars, serverVars
<1>1. CASE CredentialsArrive \/ CredentialsLate \/ BackoffTimer \/ HealthCheck
  <2>1. UNCHANGED <<query, refused, asked, events, muted, answers, task, listeners, view,
                    served>>
    BY <1>1 DEF CredentialsArrive, CredentialsLate, BackoffTimer, HealthCheck
  <2>2. \A q \in Queries : targetState'[q].current = targetState[q].current
    <3>1. CredentialsArrive => \A q \in Queries :
              targetState'[q] \in {targetState[q], RecordPendingTargetRequest(targetState[q])}
      BY DEF CredentialsArrive
    <3>2. CredentialsArrive \/ UNCHANGED targetState
      BY <1>1 DEF CredentialsLate, BackoffTimer, HealthCheck
    <3> QED
      BY <1>0, <3>1, <3>2, CountMethods DEF TypeOK
  <2> QED
    BY <2>1, <2>2 DEF AnswerInv, ServerOK, AnswerOK, Untouched, EventsOK
<1>2. CASE CredentialsFail \/ OnStreamFinish
  <2> DEFINE again == HandleWatchStreamStart(HandleWatchStreamFailure(tracker))
             unknown == UpdateState(tracker, "Unknown")
  <2>1. PICK s : StreamClosedByError(s)
    BY <1>2 DEF CredentialsFail, OnStreamFinish
  <2>2. ForgetStream /\ (HandleOnlineStateChange(again) \/ HandleOnlineStateChange(unknown))
    BY <2>1 DEF StreamClosedByError
  <2>3. again \in Tracker /\ unknown \in Tracker
    BY <1>0, TrackerMethods DEF OnlineState
  <2>4. UNCHANGED <<query, refused, asked, muted, answers, task, listeners>>
    BY <1>2 DEF CredentialsFail, OnStreamFinish
  <2> HIDE DEF again, unknown
  <2> QED
    BY <2>2, <2>3, <2>4, ForgottenOK, AnswersOnline
<1>3. CASE IdleTimer
  <2>1. ForgetStream /\ HandleOnlineStateChange(UpdateState(tracker, "Unknown"))
    BY <1>3 DEF IdleTimer
  <2>2. UpdateState(tracker, "Unknown") \in Tracker
    BY <1>0, TrackerMethods DEF OnlineState
  <2>3. UNCHANGED <<query, refused, asked, muted, answers, task, listeners>>
    BY <1>3 DEF IdleTimer
  <2> QED
    BY <2>1, <2>2, <2>3, ForgottenOK, AnswersOnline
<1>4. CASE OnlineStateTimer
  <2>1. HandleOnlineStateChange(TimerFired(tracker)) /\ TimerFired(tracker) \in Tracker
    BY <1>0, <1>4, TrackerMethods DEF OnlineStateTimer
  <2>2. UNCHANGED <<query, refused, asked, muted, answers, task, listeners, targetState,
                    served>>
    BY <1>4 DEF OnlineStateTimer
  <2>3. \A q \in Queries : q \in refused => served'[q].listen = 0 /\ ~targetState'[q].current
    BY <2>2 DEF AnswerInv, ServerOK
  <2> QED
    BY <2>1, <2>2, <2>3, AnswersOnline
<1>5. CASE RestartNetwork
  <2> DEFINE unknown == UpdateState(tracker, "Unknown")
             t == IF targets # {} THEN HandleWatchStreamStart(unknown) ELSE unknown
  <2>1. unknown \in Tracker
    BY <1>0, TrackerMethods DEF OnlineState
  <2>2. t \in Tracker
    BY <2>1, TrackerMethods
  <2>3. ForgetStream /\ HandleOnlineStateChange(t)
    BY <1>5 DEF RestartNetwork
  <2>4. UNCHANGED <<query, refused, asked, muted, answers, task, listeners>>
    BY <1>5 DEF RestartNetwork
  <2> HIDE DEF t
  <2> QED
    BY <2>2, <2>3, <2>4, ForgottenOK, AnswersOnline
<1> QED
  BY <1>1, <1>2, <1>3, <1>4, <1>5 DEF Connection

LEMMA AnswersMessage == AnswerInv /\ Message /\ TypeOK' => AnswerInv'
<1> SUFFICES ASSUME AnswerInv, TypeOK', Message PROVE AnswerInv'
  OBVIOUS
<1>0. /\ TypeOK
      /\ \A p \in Queries : ServerOK(p)
      /\ \A h \in Gets : AnswerOK(h)
  BY DEF AnswerInv
<1>1. UpdateState(tracker, "Online") \in Tracker
  BY <1>0, TrackerMethods DEF OnlineState, TypeOK
<1> USE DEF givenVars, serverVars
<1>2. ASSUME NEW q \in Queries, ReadAdded(q) \/ ReadRemoved(q) \/ ReadCurrent(q)
      PROVE  AnswerInv'
  <2>1. HandleOnlineStateChange(UpdateState(tracker, "Online"))
    BY <1>2 DEF ReadAdded, ReadRemoved, ReadCurrent, MessageRead
  <2>2. UNCHANGED <<query, refused, asked, muted, answers, task, listeners>>
    BY <1>2 DEF ReadAdded, ReadRemoved, ReadCurrent
  <2>3. ASSUME NEW p \in Queries, p \in refused
        PROVE  served'[p].listen = 0 /\ ~targetState'[p].current
    <3>1. served[p].listen = 0 /\ ~targetState[p].current
      BY <1>0, <2>3 DEF ServerOK
    <3>2. served \in [Queries -> Served] /\ targetState \in [Queries -> TargetState]
      BY <1>0 DEF TypeOK
    <3>3. CASE ReadAdded(q)
      BY <2>3, <3>1, <3>2, <3>3 DEF ReadAdded
    <3>4. CASE ReadRemoved(q)
      BY <3>1, <3>2, <3>4, CountMethods DEF ReadRemoved, NotServed, NewTargetState
    <3>5. CASE ReadCurrent(q)
      BY <3>1, <3>2, <3>5 DEF ReadCurrent
    <3> QED
      BY <1>2, <3>3, <3>4, <3>5
  <2> QED
    BY <1>1, <2>1, <2>2, <2>3, AnswersOnline
<1>3. ASSUME NEW q \in Queries, ReadRefused(q) PROVE AnswerInv'
  <2>1. UNCHANGED <<query, refused, asked, muted, answers, task, served>>
    BY <1>3 DEF ReadRefused
  <2>2. \A p \in Queries : ServerOK(p)'
    <3>1. /\ targetState' = targetState \/ targetState' = [targetState EXCEPT ![q] = NewTargetState]
          /\ view' = view \/ view' = [view EXCEPT ![q] = NoView]
      BY <1>3 DEF ReadRefused
    <3>2. targetState \in [Queries -> TargetState] /\ view \in [Queries -> View]
      BY <1>0 DEF TypeOK
    <3>3. \A p \in Queries : targetState'[p].current => targetState[p].current
      BY <3>1, <3>2 DEF NewTargetState
    <3>4. \A p \in Queries : view'[p].state = "synced" => view[p].state = "synced"
      BY <3>1, <3>2 DEF NoView
    <3> QED
      BY <1>0, <2>1, <3>3, <3>4 DEF ServerOK
  <2>3. ASSUME NEW h \in Gets PROVE AnswerOK(h)'
    <3>1. CASE q \in targets /\ h \in ListenersOf(q)
      <4>1. /\ events'[h] = Append(events[h], "error")
            /\ h \notin listeners' /\ h \in listeners
            /\ query[h] \in refused
        BY <1>3, <3>1 DEF ReadRefused, ListenersOf
      <4>2. events[h] \in Seq(Results)
        BY <1>0 DEF TypeOK
      <4>3. /\ Len(events'[h]) = Len(events[h]) + 1
            /\ \A i \in 1 .. Len(events[h]) : events'[h][i] = events[h][i]
            /\ events'[h][Len(events[h]) + 1] = "error"
        BY <4>1, <4>2
      <4>4. EventsOK(h)'
        <5> SUFFICES ASSUME NEW i \in 1 .. Len(events'[h])
                     PROVE  /\ events'[h][i] = "error" => i = Len(events'[h])
                            /\ events'[h][i] = "server" => query[h] \notin refused
          BY <2>1, <4>1 DEF EventsOK
        <5>1. CASE i = Len(events[h]) + 1
          BY <4>3, <5>1
        <5>2. CASE i # Len(events[h]) + 1
          <6>1. i \in 1 .. Len(events[h])
            BY <4>2, <4>3, <5>2
          <6> QED
            BY <1>0, <4>1, <4>3, <6>1 DEF AnswerOK, EventsOK
        <5> QED
          BY <5>1, <5>2
      <4> QED
        BY <1>0, <2>1, <4>1, <4>4 DEF AnswerOK, Untouched
    <3>2. CASE ~(q \in targets /\ h \in ListenersOf(q))
      <4>1. events'[h] = events[h] /\ (h \in listeners' <=> h \in listeners)
        BY <1>0, <1>3, <3>2 DEF ReadRefused, TypeOK
      <4> QED
        BY <1>0, <2>1, <4>1 DEF AnswerOK, Untouched, EventsOK
    <3> QED
      BY <3>1, <3>2
  <2> QED
    BY <2>2, <2>3 DEF AnswerInv
<1>4. ASSUME NEW docs \in SUBSET Queries, ReadSnapshot(docs) PROVE AnswerInv'
  <2>1. UNCHANGED <<query, refused, asked, muted, answers, task, listeners, targetState,
                    served>>
    BY <1>4 DEF ReadSnapshot
  <2>2. ASSUME NEW p \in Queries, p \in refused PROVE view'[p].state # "synced"
    <3>1. ~targetState[p].current /\ view[p].state # "synced"
      BY <1>0, <2>2 DEF ServerOK
    <3> QED
      BY <1>4, <3>1 DEF ReadSnapshot
  <2>3. PICK gs \in SUBSET listeners : Raise(gs, view')
    BY <1>4 DEF ReadSnapshot
  <2>4. gs \in SUBSET Gets
    BY <1>0, <2>3 DEF TypeOK
  <2>5. \A h \in Gets : Told(h, gs)
    BY <1>0, <2>2, <2>3, <2>4, RaiseTells
  <2>6. \A h \in Gets : Told(h, listeners)
    BY <2>3, <2>5 DEF Told
  <2>7. \A h \in Gets : AnswerOK(h)'
    BY <1>0, <2>1, <2>6, ToldOK
  <2>8. \A p \in Queries : ServerOK(p)'
    BY <1>0, <2>1, <2>2 DEF ServerOK
  <2> QED
    BY <2>7, <2>8 DEF AnswerInv
<1> QED
  BY <1>2, <1>3, <1>4 DEF Message

LEMMA NextTyped == TypeOK /\ [Next]_vars => TypeOK'
BY AppTyped, WorkerTyped, ConnectionTyped, MessageTyped, StutterTyped DEF Next, AllAnswered

LEMMA AnswersInit == Init => AnswerInv
<1> SUFFICES ASSUME Init PROVE AnswerInv
  OBVIOUS
<1>1. \A g \in Gets : AnswerOK(g)
  BY DEF Init, AnswerOK, Untouched, EventsOK
<1>2. \A q \in Queries : ServerOK(q)
  BY DEF Init, ServerOK, NotServed, NewTargetState, NoView
<1> QED
  BY <1>1, <1>2, InitTyped DEF AnswerInv

LEMMA AnswersNext == AnswerInv /\ [Next]_vars => AnswerInv'
<1> SUFFICES ASSUME AnswerInv, [Next]_vars PROVE AnswerInv'
  OBVIOUS
<1>1. TypeOK'
  BY NextTyped DEF AnswerInv
<1>2. UNCHANGED vars => AnswerInv'
  BY <1>1 DEF AnswerInv, ServerOK, AnswerOK, Untouched, EventsOK, vars, givenVars, appVars,
              engineVars, remoteVars, serverVars
<1> QED
  BY <1>1, <1>2, AnswersApp, AnswersWorker, AnswersConnection, AnswersMessage
  DEF Next, AllAnswered

-----------------------------------------------------------------------------
\* What the invariant is for

\* ListenOnce leaves no listener behind: an answered get without a task on the
\* worker queue is not registered with EventManager.
THEOREM NoneLeft == Spec => []NoListenerLeft
<1>1. AnswerInv => NoListenerLeft
  BY DEF AnswerInv, AnswerOK, NoListenerLeft
<1> QED
  BY <1>1, AnswersInit, AnswersNext, PTL DEF Spec

\* Which queries a get asks for and which of them the server refuses is given.
LEMMA GivenKept == [Next]_vars => UNCHANGED <<query, refused>>
BY DEF Next, App, GetDocuments, OnEvent, Worker, AddQueryListener, RemoveQueryListener,
       Connection, CredentialsArrive, CredentialsFail, CredentialsLate, OnStreamFinish,
       BackoffTimer, HealthCheck, IdleTimer, OnlineStateTimer, RestartNetwork,
       Message, ReadAdded, ReadRemoved, ReadRefused, ReadCurrent, ReadSnapshot,
       AllAnswered, vars, givenVars

\* Only the app and the user executor touch what the app sees.
LEMMA SeenKept ==
    Worker \/ Connection \/ Message \/ AllAnswered \/ UNCHANGED vars =>
        UNCHANGED <<asked, answers>>
BY DEF Worker, AddQueryListener, RemoveQueryListener,
       Connection, CredentialsArrive, CredentialsFail, CredentialsLate, OnStreamFinish,
       BackoffTimer, HealthCheck, IdleTimer, OnlineStateTimer, RestartNetwork,
       Message, ReadAdded, ReadRemoved, ReadRefused, ReadCurrent, ReadSnapshot,
       AllAnswered, vars, appVars

LEMMA OnceStep ==
    ASSUME AnswerInv, [Next]_vars
    PROVE  [Once!Next]_Once!getVars
<1> DEFINE mapped == {g \in Gets : query[g] \in refused}
<1>0. TypeOK
  BY DEF AnswerInv
<1>1. mapped' = mapped
  BY GivenKept
<1>2. CASE UNCHANGED <<asked, answers>>
  BY <1>1, <1>2 DEF Once!getVars
<1>3. ASSUME NEW g \in Gets, GetDocuments(g) PROVE Once!Ask(g)
  BY <1>1, <1>3 DEF GetDocuments, Once!Ask
<1>4. ASSUME NEW g \in Gets, OnEvent(g)
      PROVE  Once!Answer(g) \/ UNCHANGED <<asked, answers>>
  <2> DEFINE event == Head(events[g])
  <2>1. events[g] \in Seq(Results) /\ events[g] # <<>> /\ asked' = asked
    BY <1>0, <1>4 DEF OnEvent, TypeOK
  <2>2. AnswerOK(g)
    BY DEF AnswerInv
  <2>3. CASE g \in muted
    BY <1>0, <1>4, <2>1, <2>3 DEF OnEvent, TypeOK
  <2>4. CASE g \notin muted
    <3>1. g \in asked /\ answers[g] = <<>>
      BY <2>1, <2>2, <2>4 DEF AnswerOK, Untouched
    <3>2. answers' = [answers EXCEPT ![g] = Append(answers[g], event)]
      BY <1>4, <2>4 DEF OnEvent
    <3>3. Append(<<>>, event) = <<event>>
      OBVIOUS
    <3>4. answers' = [answers EXCEPT ![g] = <<event>>]
      BY <3>1, <3>2, <3>3
    <3>5. event = events[g][1] /\ 1 \in 1 .. Len(events[g]) /\ event \in Results
      BY <2>1
    <3>6. event \in Once!Possible(g)
      BY <2>2, <3>5 DEF AnswerOK, EventsOK, Results, Once!Possible
    <3> HIDE DEF event
    <3> QED
      BY <1>1, <2>1, <3>1, <3>4, <3>6 DEF Once!Answer
  <2> QED
    BY <2>3, <2>4
<1>5. App => (\E g \in Gets : Once!Ask(g) \/ Once!Answer(g)) \/ UNCHANGED <<asked, answers>>
  BY <1>3, <1>4 DEF App
<1> QED
  BY <1>2, <1>5, SeenKept DEF Next, Once!Next

\* To the app getDocuments is GetOnce, for any number of gets and queries: at most
\* one answer per get, an error exactly for queries the server refuses, however
\* events, muting, removal, lost streams and timers interleave.
THEOREM ImplementsGetOnce == Spec => AnsweredLikeGetOnce
<1>1. Init => Once!Init
  BY DEF Init, Once!Init
<1> QED
  BY <1>1, AnswersInit, AnswersNext, OnceStep, PTL DEF Spec, AnsweredLikeGetOnce, Once!Spec

-----------------------------------------------------------------------------
\* Requests and the answers to them

\* The last thing asked of the server for a target that is listened to is its
\* present listen, or the server serves that listen already.
LastRequestOK(q) ==
    q \in targets /\ IsOpen(stream) =>
        IF requests[q] = <<>> THEN served[q].listen = listens[q]
        ELSE requests[q][Len(requests[q])] = WatchRequest(listens[q])

OwedOK(q) == targetState[q].outstanding = Len(requests[q])

SyncInv ==
    /\ AnswerInv
    /\ \A q \in Queries \ refused : OwedOK(q) /\ LastRequestOK(q)
    /\ SyncedByThisListen

\* Steps that forget the stream leave none open and nothing owed.
LEMMA SyncForgotten ==
    ASSUME SyncInv, AnswerInv', ForgetStream, ~IsOpen(stream'), UNCHANGED listens,
           \A q \in Queries : view'[q] = view[q] \/ view'[q].state = "local"
    PROVE  SyncInv'
<1>1. \A q \in Queries : OwedOK(q)'
  BY DEF ForgetStream, OwedOK, NewTargetState
<1>2. \A q \in Queries : LastRequestOK(q)'
  BY DEF LastRequestOK, IsOpen
<1>3. SyncedByThisListen'
  BY DEF SyncInv, SyncedByThisListen
<1> QED
  BY <1>1, <1>2, <1>3 DEF SyncInv

\* Steps that leave RemoteStore's books and the server alone.
LEMMA SyncKept ==
    ASSUME SyncInv, AnswerInv', UNCHANGED <<refused, targets, listens, targetState, requests,
                                            served>>,
           IsOpen(stream') => IsOpen(stream),
           \A q \in Queries : view'[q] = view[q] \/ view'[q].state = "local"
    PROVE  SyncInv'
<1>1. \A q \in Queries \ refused : OwedOK(q)' /\ LastRequestOK(q)'
  BY DEF SyncInv, OwedOK, LastRequestOK, IsOpen
<1>2. SyncedByThisListen'
  BY DEF SyncInv, SyncedByThisListen
<1> QED
  BY <1>1, <1>2 DEF SyncInv

\* A request is put on the stream: one more is owed, and it is the last one.
LEMMA RequestAdded ==
    ASSUME TypeOK, NEW q \in Queries, NEW r \in Request, OwedOK(q),
           targetState'[q] = RecordPendingTargetRequest(targetState[q]),
           requests'[q] = Append(requests[q], r)
    PROVE  /\ OwedOK(q)'
           /\ requests'[q] # <<>>
           /\ requests'[q][Len(requests'[q])] = r
<1>1. targetState[q] \in TargetState /\ requests[q] \in Seq(Request)
  BY DEF TypeOK
<1>2. targetState'[q].outstanding = targetState[q].outstanding + 1
  BY <1>1, CountMethods
<1>3. /\ Len(requests'[q]) = Len(requests[q]) + 1
      /\ requests'[q][Len(requests[q]) + 1] = r
      /\ Len(requests[q]) \in Nat
  BY <1>1
<1>4. requests'[q] # <<>>
  BY <1>1
<1> QED
  BY <1>2, <1>3, <1>4 DEF OwedOK

\* The first request is answered: one less is owed, and the last stays the last.
LEMMA RequestAnswered ==
    ASSUME TypeOK, NEW q \in Queries, OwedOK(q), requests[q] # <<>>, Answered(q)
    PROVE  /\ Len(requests'[q]) = targetState[q].outstanding - 1
           /\ requests'[q] # <<>> =>
                 requests'[q][Len(requests'[q])] = requests[q][Len(requests[q])]
           /\ requests'[q] = <<>> => Head(requests[q]) = requests[q][Len(requests[q])]
           /\ \A p \in Queries : p # q => requests'[p] = requests[p]
<1>1. requests[q] \in Seq(Request) /\ requests'[q] = Tail(requests[q])
      /\ \A p \in Queries : p # q => requests'[p] = requests[p]
  BY DEF TypeOK, Answered
<1>2. /\ Len(requests[q]) \in Nat \ {0}
      /\ Len(requests'[q]) = Len(requests[q]) - 1
      /\ requests'[q] \in Seq(Request)
      /\ \A i \in 1 .. Len(requests'[q]) : requests'[q][i] = requests[q][i + 1]
      /\ Head(requests[q]) = requests[q][1]
  BY <1>1
<1>3. requests'[q] # <<>> => Len(requests'[q]) \in 1 .. Len(requests'[q])
  BY <1>2
<1>4. requests'[q] = <<>> => Len(requests[q]) = 1
  BY <1>2
<1>5. requests'[q] # <<>> => requests'[q][Len(requests'[q])] = requests[q][Len(requests[q])]
  BY <1>2, <1>3
<1> QED
  BY <1>1, <1>2, <1>4, <1>5 DEF OwedOK

LEMMA SyncWorker == SyncInv /\ Worker /\ AnswerInv' => SyncInv'
<1> SUFFICES ASSUME SyncInv, AnswerInv', NEW g \in Gets,
                    AddQueryListener(g) \/ RemoveQueryListener(g)
             PROVE  SyncInv'
  BY DEF Worker
<1>0. /\ TypeOK /\ query[g] \in Queries /\ stream \in Stream
      /\ refused' = refused /\ served' = served
      /\ \A p \in Queries \ refused : OwedOK(p) /\ LastRequestOK(p)
  BY DEF SyncInv, AnswerInv, TypeOK, AddQueryListener, RemoveQueryListener, givenVars
<1>1. ASSUME NEW q \in Queries, Listen(q), view' = [view EXCEPT ![q] = [state |-> "local", by |-> 0]]
      PROVE  SyncInv'
  <2> DEFINE n == listens[q] + 1
  <2>1. n \in Nat /\ listens'[q] = n
        /\ \A p \in Queries : p # q => listens'[p] = listens[p]
        /\ targets' = targets \cup {q}
    BY <1>0, <1>1 DEF Listen, TypeOK
  <2>2. SyncedByThisListen'
    BY <1>0, <1>1, <2>1 DEF SyncInv, SyncedByThisListen, TypeOK
  <2>3. CASE IsOpen(stream)
    <3>1. /\ targetState' = [targetState EXCEPT ![q] = RecordPendingTargetRequest(@)]
          /\ requests' = [requests EXCEPT ![q] = Append(@, WatchRequest(n))]
          /\ stream' = Write(stream)
      BY <1>1, <2>3 DEF Listen, IsStarted
    <3>2. WatchRequest(n) \in Request
      BY <2>1 DEF WatchRequest, Request
    <3>3. /\ targetState'[q] = RecordPendingTargetRequest(targetState[q])
          /\ requests'[q] = Append(requests[q], WatchRequest(n))
          /\ \A p \in Queries : p # q => /\ targetState'[p] = targetState[p]
                                         /\ requests'[p] = requests[p]
      BY <1>0, <3>1 DEF TypeOK
    <3>4. ASSUME NEW p \in Queries \ refused PROVE OwedOK(p)' /\ LastRequestOK(p)'
      <4>1. CASE p = q
        <5>1. OwedOK(q)
          BY <1>0, <4>1
        <5>2. /\ OwedOK(q)' /\ requests'[q] # <<>>
              /\ requests'[q][Len(requests'[q])] = WatchRequest(n)
          BY <1>0, <3>2, <3>3, <5>1, RequestAdded
        <5> QED
          BY <2>1, <4>1, <5>2 DEF LastRequestOK, WatchRequest
      <4>2. CASE p # q
        BY <1>0, <2>1, <2>3, <3>3, <4>2 DEF OwedOK, LastRequestOK, WatchRequest
      <4> QED
        BY <4>1, <4>2
    <3> QED
      BY <1>0, <2>2, <3>4 DEF SyncInv
  <2>4. CASE ~IsOpen(stream)
    <3>1. UNCHANGED <<targetState, requests>> /\ stream' \in {stream, Start(stream)}
      BY <1>1, <2>4 DEF Listen
    <3>2. ~IsOpen(stream')
      BY <1>0, <2>4, <3>1 DEF IsOpen, Start, Stream
    <3>3. \A p \in Queries \ refused : OwedOK(p)' /\ LastRequestOK(p)'
      BY <1>0, <3>1, <3>2 DEF OwedOK, LastRequestOK, IsOpen
    <3> QED
      BY <1>0, <2>2, <3>3 DEF SyncInv
  <2> QED
    BY <2>3, <2>4
<1>2. ASSUME NEW q \in Queries, StopListening(q), view' = [view EXCEPT ![q] = NoView], UNCHANGED listens
      PROVE  SyncInv'
  <2>1. targets' = targets \ {q}
    BY <1>2 DEF StopListening
  <2>2. SyncedByThisListen'
    BY <1>0, <1>2 DEF SyncInv, SyncedByThisListen, NoView, TypeOK
  <2>3. IsOpen(stream') => IsOpen(stream)
    BY <1>0, <1>2 DEF StopListening, MarkIdle, Write, IsOpen, Stream
  <2>4. CASE IsOpen(stream)
    <3>1. /\ targetState' = [targetState EXCEPT ![q] = RecordPendingTargetRequest(@)]
          /\ requests' = [requests EXCEPT ![q] = Append(@, UnwatchRequest)]
      BY <1>2, <2>4 DEF StopListening
    <3>2. UnwatchRequest \in Request
      BY DEF UnwatchRequest, Request
    <3>3. /\ targetState'[q] = RecordPendingTargetRequest(targetState[q])
          /\ requests'[q] = Append(requests[q], UnwatchRequest)
          /\ \A p \in Queries : p # q => /\ targetState'[p] = targetState[p]
                                         /\ requests'[p] = requests[p]
      BY <1>0, <3>1 DEF TypeOK
    <3>4. ASSUME NEW p \in Queries \ refused PROVE OwedOK(p)' /\ LastRequestOK(p)'
      <4>1. CASE p = q
        <5>1. OwedOK(q)
          BY <1>0, <4>1
        <5>2. OwedOK(q)'
          BY <1>0, <3>2, <3>3, <5>1, RequestAdded
        <5> QED
          BY <2>1, <4>1, <5>2 DEF LastRequestOK
      <4>2. CASE p # q
        BY <1>0, <1>2, <2>1, <2>4, <3>3, <4>2 DEF OwedOK, LastRequestOK
      <4> QED
        BY <4>1, <4>2
    <3> QED
      BY <1>0, <2>2, <3>4 DEF SyncInv
  <2>5. CASE ~IsOpen(stream)
    <3>1. UNCHANGED <<targetState, requests>>
      BY <1>2, <2>5 DEF StopListening
    <3>2. \A p \in Queries \ refused : OwedOK(p)' /\ LastRequestOK(p)'
      BY <1>0, <2>3, <2>5, <3>1 DEF OwedOK, LastRequestOK, IsOpen
    <3> QED
      BY <1>0, <2>2, <3>2 DEF SyncInv
  <2> QED
    BY <2>4, <2>5
<1>3. CASE AddQueryListener(g)
  <2>1. \/ Listen(query[g]) /\ view' = [view EXCEPT ![query[g]] = [state |-> "local", by |-> 0]]
        \/ UNCHANGED <<remoteVars, requests, view>>
    BY <1>3 DEF AddQueryListener
  <2>2. CASE UNCHANGED <<remoteVars, requests, view>>
    BY <1>0, <2>2, SyncKept DEF remoteVars
  <2> QED
    BY <1>0, <1>1, <2>1, <2>2
<1>4. CASE RemoveQueryListener(g)
  <2>1. /\ UNCHANGED listens
        /\ \/ StopListening(query[g]) /\ view' = [view EXCEPT ![query[g]] = NoView]
           \/ UNCHANGED <<view, targets, tracker, stream, targetState, requests>>
    BY <1>4 DEF RemoveQueryListener
  <2>2. CASE UNCHANGED <<view, targets, tracker, stream, targetState, requests>>
    BY <1>0, <2>1, <2>2, SyncKept
  <2> QED
    BY <1>0, <1>2, <2>1, <2>2
<1> QED
  BY <1>3, <1>4

LEMMA SyncConnection == SyncInv /\ Connection /\ AnswerInv' => SyncInv'
<1> SUFFICES ASSUME SyncInv, AnswerInv', Connection PROVE SyncInv'
  OBVIOUS
<1>0. /\ TypeOK /\ AnswerInv /\ stream \in Stream /\ tracker \in Tracker
      /\ \A p \in Queries \ refused : OwedOK(p) /\ LastRequestOK(p)
  BY DEF SyncInv, AnswerInv, TypeOK
<1> USE DEF givenVars, appVars, engineVars, serverVars
<1>1. CASE CredentialsArrive
  <2>1. /\ \A q \in Queries :
              /\ targetState'[q] = IF q \in targets THEN RecordPendingTargetRequest(targetState[q])
                                   ELSE targetState[q]
              /\ requests'[q] = IF q \in targets
                                THEN Append(requests[q], WatchRequest(listens[q]))
                                ELSE requests[q]
        /\ UNCHANGED <<refused, targets, listens, view>>
    BY <1>1 DEF CredentialsArrive
  <2>2. ASSUME NEW q \in Queries \ refused PROVE OwedOK(q)' /\ LastRequestOK(q)'
    <3>1. WatchRequest(listens[q]) \in Request
      BY <1>0 DEF TypeOK, WatchRequest, Request
    <3>2. CASE q \in targets
      <4>1. /\ OwedOK(q)' /\ requests'[q] # <<>>
            /\ requests'[q][Len(requests'[q])] = WatchRequest(listens[q])
        BY <1>0, <2>1, <3>1, <3>2, RequestAdded
      <4> QED
        BY <2>1, <4>1 DEF LastRequestOK, WatchRequest
    <3>3. CASE q \notin targets
      BY <1>0, <2>1, <3>3 DEF OwedOK, LastRequestOK
    <3> QED
      BY <3>2, <3>3
  <2> QED
    BY <2>1, <2>2 DEF SyncInv, SyncedByThisListen
<1>2. CASE CredentialsLate \/ BackoffTimer \/ HealthCheck
  <2>1. UNCHANGED <<refused, targets, listens, targetState, requests, served, view>>
    BY <1>2 DEF CredentialsLate, BackoffTimer, HealthCheck
  <2>2. IsOpen(stream') => IsOpen(stream)
    BY <1>0, <1>2 DEF CredentialsLate, BackoffTimer, HealthCheck, BackoffElapsed, Start,
                      IsOpen, Stream
  <2> QED
    BY <2>1, <2>2, SyncKept
<1>3. CASE CredentialsFail \/ OnStreamFinish
  <2> DEFINE again == HandleWatchStreamStart(HandleWatchStreamFailure(tracker))
             unknown == UpdateState(tracker, "Unknown")
  <2>1. PICK s \in Stream : StreamClosedByError(s)
    <3>1. [stream EXCEPT !.credentials = @ \ {"current"}] \in Stream
      BY <1>0, StreamMethods DEF Credentials
    <3> QED
      BY <1>0, <1>3, <3>1 DEF CredentialsFail, OnStreamFinish
  <2>2. /\ ForgetStream
        /\ HandleOnlineStateChange(again) \/ HandleOnlineStateChange(unknown)
        /\ stream' \in {Close(s, FALSE), Start(Close(s, FALSE))}
    BY <2>1 DEF StreamClosedByError
  <2>3. again \in Tracker /\ unknown \in Tracker
    BY <1>0, TrackerMethods DEF OnlineState
  <2>4. ~IsOpen(stream')
    BY <2>1, <2>2, ClosedByErrorFresh DEF Start, IsOpen, Stream
  <2>5. UNCHANGED listens
    BY <1>3 DEF CredentialsFail, OnStreamFinish
  <2> HIDE DEF again, unknown
  <2>6. \A q \in Queries : view'[q] = view[q] \/ view'[q].state = "local"
    BY <1>0, <2>2, <2>3, OnlineTells
  <2> QED
    BY <2>2, <2>4, <2>5, <2>6, SyncForgotten
<1>4. CASE IdleTimer
  <2>1. ForgetStream /\ HandleOnlineStateChange(UpdateState(tracker, "Unknown"))
        /\ stream' = Close(stream, TRUE) /\ UNCHANGED listens
    BY <1>4 DEF IdleTimer
  <2>2. UpdateState(tracker, "Unknown") \in Tracker
    BY <1>0, TrackerMethods DEF OnlineState
  <2>3. ~IsOpen(stream')
    BY <1>0, <2>1 DEF Close, IsStarted, IsOpen
  <2>4. \A q \in Queries : view'[q] = view[q] \/ view'[q].state = "local"
    BY <1>0, <2>1, <2>2, OnlineTells
  <2> QED
    BY <2>1, <2>3, <2>4, SyncForgotten
<1>5. CASE OnlineStateTimer
  <2>1. HandleOnlineStateChange(TimerFired(tracker)) /\ TimerFired(tracker) \in Tracker
    BY <1>0, <1>5, TrackerMethods DEF OnlineStateTimer
  <2>2. UNCHANGED <<refused, targets, listens, stream, targetState, requests, served>>
    BY <1>5 DEF OnlineStateTimer
  <2>3. \A q \in Queries : view'[q] = view[q] \/ view'[q].state = "local"
    BY <1>0, <2>1, OnlineTells
  <2> QED
    BY <2>2, <2>3, SyncKept
<1>6. CASE RestartNetwork
  <2> DEFINE unknown == UpdateState(tracker, "Unknown")
             stopped == InhibitBackoff(Close(stream, TRUE))
             t == IF targets # {} THEN HandleWatchStreamStart(unknown) ELSE unknown
  <2>1. unknown \in Tracker /\ stopped \in Stream
    BY <1>0, TrackerMethods, StreamMethods DEF OnlineState
  <2>2. t \in Tracker
    BY <2>1, TrackerMethods
  <2>3. ForgetStream /\ HandleOnlineStateChange(t) /\ UNCHANGED listens
        /\ stream' \in {stopped, Start(stopped)}
    BY <1>6 DEF RestartNetwork
  <2>4. stopped.state = "Initial"
    BY <1>0, StreamMethods DEF InhibitBackoff, Stream
  <2> HIDE DEF t, stopped
  <2>5. ~IsOpen(stream')
    BY <2>1, <2>3, <2>4 DEF Start, IsOpen, Stream
  <2>6. \A q \in Queries : view'[q] = view[q] \/ view'[q].state = "local"
    BY <1>0, <2>2, <2>3, OnlineTells
  <2> QED
    BY <2>3, <2>5, <2>6, SyncForgotten
<1> QED
  BY <1>1, <1>2, <1>3, <1>4, <1>5, <1>6 DEF Connection

\* A message changes views only as a change of the online state does.
LEMMA MessageViews ==
    ASSUME AnswerInv, MessageRead
    PROVE  /\ \A q \in Queries : view'[q] = view[q] \/ view'[q].state = "local"
           /\ UNCHANGED stream /\ IsOpen(stream)
<1>1. UpdateState(tracker, "Online") \in Tracker
  BY TrackerMethods DEF AnswerInv, TypeOK, OnlineState
<1> QED
  BY <1>1, OnlineTells DEF MessageRead

LEMMA SyncMessage == SyncInv /\ Message /\ AnswerInv' => SyncInv'
<1> SUFFICES ASSUME SyncInv, AnswerInv', Message PROVE SyncInv'
  OBVIOUS
<1>0. /\ TypeOK /\ AnswerInv
      /\ targetState \in [Queries -> TargetState]
      /\ served \in [Queries -> Served]
      /\ \A q \in Queries \ refused : OwedOK(q) /\ LastRequestOK(q)
      /\ \A q \in Queries : ServerOK(q)
  BY DEF SyncInv, AnswerInv, TypeOK
<1> USE DEF givenVars, serverVars
<1>1. ASSUME NEW q \in Queries, ReadAdded(q) PROVE SyncInv'
  <2>1. MessageRead /\ Answered(q) /\ requests[q] # <<>> /\ q \notin refused
        /\ UNCHANGED <<refused, targets, listens>>
    BY <1>1 DEF ReadAdded
  <2>2. /\ \A p \in Queries : view'[p] = view[p] \/ view'[p].state = "local"
        /\ UNCHANGED stream /\ IsOpen(stream)
    BY <1>0, <2>1, MessageViews
  <2>3. /\ targetState'[q].outstanding = targetState[q].outstanding - 1
        /\ served'[q].listen = Head(requests[q]).listen
        /\ \A p \in Queries : p # q => targetState'[p] = targetState[p] /\ served'[p] = served[p]
    BY <1>0, <1>1, CountMethods DEF ReadAdded
  <2>4. /\ Len(requests'[q]) = targetState[q].outstanding - 1
        /\ requests'[q] # <<>> => requests'[q][Len(requests'[q])] = requests[q][Len(requests[q])]
        /\ requests'[q] = <<>> => Head(requests[q]) = requests[q][Len(requests[q])]
        /\ \A p \in Queries : p # q => requests'[p] = requests[p]
    BY <1>0, <2>1, RequestAnswered
  <2>5. OwedOK(q)'
    BY <2>3, <2>4 DEF OwedOK
  <2>6. LastRequestOK(q)'
    BY <1>0, <2>1, <2>2, <2>3, <2>4 DEF LastRequestOK, WatchRequest
  <2>7. \A p \in Queries \ refused : p # q => OwedOK(p)' /\ LastRequestOK(p)'
    BY <1>0, <2>1, <2>2, <2>3, <2>4 DEF OwedOK, LastRequestOK, WatchRequest
  <2>8. SyncedByThisListen'
    BY <2>1, <2>2 DEF SyncInv, SyncedByThisListen
  <2> QED
    BY <2>1, <2>5, <2>6, <2>7, <2>8 DEF SyncInv
<1>2. ASSUME NEW q \in Queries, ReadRemoved(q) PROVE SyncInv'
  <2>1. MessageRead /\ Answered(q) /\ requests[q] # <<>>
        /\ Head(requests[q]).type = "unwatch"
        /\ UNCHANGED <<refused, targets, listens>>
    BY <1>2 DEF ReadRemoved
  <2>2. /\ \A p \in Queries : view'[p] = view[p] \/ view'[p].state = "local"
        /\ UNCHANGED stream /\ IsOpen(stream)
    BY <1>0, <2>1, MessageViews
  <2>3. /\ targetState'[q].outstanding = targetState[q].outstanding - 1
        /\ \A p \in Queries : p # q => targetState'[p] = targetState[p] /\ served'[p] = served[p]
    BY <1>0, <1>2, CountMethods DEF ReadRemoved, NewTargetState
  <2>4. q \notin refused =>
        /\ Len(requests'[q]) = targetState[q].outstanding - 1
        /\ requests'[q] # <<>> => requests'[q][Len(requests'[q])] = requests[q][Len(requests[q])]
        /\ requests'[q] = <<>> => Head(requests[q]) = requests[q][Len(requests[q])]
    BY <1>0, <2>1, RequestAnswered
  <2>5. \A p \in Queries : p # q => requests'[p] = requests[p]
    BY <1>0, <2>1 DEF Answered, TypeOK
  <2>6. q \notin refused => OwedOK(q)'
    BY <2>3, <2>4 DEF OwedOK
  <2>7. q \notin refused => LastRequestOK(q)'
    <3> SUFFICES ASSUME q \notin refused, q \in targets
                 PROVE  /\ requests'[q] # <<>>
                        /\ requests'[q][Len(requests'[q])] = WatchRequest(listens[q])
      BY <2>1 DEF LastRequestOK, WatchRequest
    <3>1. requests[q][Len(requests[q])] = WatchRequest(listens[q])
      BY <1>0, <2>1, <2>2 DEF LastRequestOK
    <3>2. Head(requests[q]) # WatchRequest(listens[q])
      BY <2>1 DEF WatchRequest
    <3> QED
      BY <2>4, <3>1, <3>2
  <2>8. \A p \in Queries \ refused : p # q => OwedOK(p)' /\ LastRequestOK(p)'
    BY <1>0, <2>1, <2>2, <2>3, <2>5 DEF OwedOK, LastRequestOK, WatchRequest
  <2>9. SyncedByThisListen'
    BY <2>1, <2>2 DEF SyncInv, SyncedByThisListen
  <2> QED
    BY <2>1, <2>6, <2>7, <2>8, <2>9 DEF SyncInv
<1>3. ASSUME NEW q \in Queries, ReadRefused(q) PROVE SyncInv'
  <2>1. q \in refused /\ targets' \subseteq targets
        /\ UNCHANGED <<refused, listens, stream, served>>
    BY <1>3 DEF ReadRefused
  <2>2. \A p \in Queries : p # q => targetState'[p] = targetState[p] /\ view'[p] = view[p]
                                    /\ requests'[p] = requests[p]
    BY <1>0, <1>3 DEF ReadRefused, Answered, TypeOK
  <2>3. \A p \in Queries \ refused : OwedOK(p)' /\ LastRequestOK(p)'
    BY <1>0, <2>1, <2>2 DEF OwedOK, LastRequestOK, WatchRequest
  <2>4. view'[q].state # "synced"
    BY <2>1 DEF AnswerInv, ServerOK
  <2>5. SyncedByThisListen'
    BY <2>1, <2>2, <2>4 DEF SyncInv, SyncedByThisListen
  <2> QED
    BY <2>1, <2>3, <2>5 DEF SyncInv
<1>4. ASSUME NEW q \in Queries, ReadCurrent(q) PROVE SyncInv'
  <2>1. MessageRead /\ UNCHANGED <<refused, targets, listens, requests>>
    BY <1>4 DEF ReadCurrent
  <2>2. /\ \A p \in Queries : view'[p] = view[p] \/ view'[p].state = "local"
        /\ UNCHANGED stream /\ IsOpen(stream)
    BY <1>0, <2>1, MessageViews
  <2>3. \A p \in Queries : /\ targetState'[p].outstanding = targetState[p].outstanding
                           /\ served'[p].listen = served[p].listen
    BY <1>0, <1>4 DEF ReadCurrent, TargetState, Served
  <2>4. \A p \in Queries \ refused : OwedOK(p)' /\ LastRequestOK(p)'
    BY <1>0, <2>1, <2>2, <2>3 DEF OwedOK, LastRequestOK, WatchRequest
  <2>5. SyncedByThisListen'
    BY <2>1, <2>2 DEF SyncInv, SyncedByThisListen
  <2> QED
    BY <2>1, <2>4, <2>5 DEF SyncInv
<1>5. ASSUME NEW docs \in SUBSET Queries, ReadSnapshot(docs) PROVE SyncInv'
  <2>1. IsOpen(stream) /\ UNCHANGED <<refused, targets, listens, stream, targetState,
                                      requests, served>>
    BY <1>5 DEF ReadSnapshot
  <2>2. \A p \in Queries \ refused : OwedOK(p)' /\ LastRequestOK(p)'
    BY <1>0, <2>1 DEF OwedOK, LastRequestOK, WatchRequest
  <2>3. ASSUME NEW p \in Queries, view'[p].state = "synced"
        PROVE  view'[p].by = listens[p]
    <3>1. \/ view'[p] = view[p]
          \/ /\ IsActiveTarget(p) /\ targetState[p].current
             /\ view'[p].by = served[p].listen
      BY <1>5, <2>3 DEF ReadSnapshot
    <3>2. CASE view'[p] = view[p]
      BY <2>3, <3>2 DEF SyncInv, SyncedByThisListen
    <3>3. CASE IsActiveTarget(p) /\ targetState[p].current /\ view'[p].by = served[p].listen
      <4>1. p \notin refused
        BY <1>0, <3>3 DEF ServerOK
      <4>2. requests[p] \in Seq(Request) /\ Len(requests[p]) = 0
        BY <1>0, <3>3, <4>1 DEF OwedOK, IsActiveTarget, TypeOK
      <4>3. requests[p] = <<>>
        BY <4>2
      <4> QED
        BY <1>0, <2>1, <3>3, <4>1, <4>3 DEF LastRequestOK, IsActiveTarget
    <3> QED
      BY <3>1, <3>2, <3>3
  <2> QED
    BY <2>1, <2>2, <2>3 DEF SyncInv, SyncedByThisListen
<1> QED
  BY <1>1, <1>2, <1>3, <1>4, <1>5 DEF Message

LEMMA SyncInit == Init => SyncInv
BY AnswersInit DEF Init, SyncInv, OwedOK, LastRequestOK, SyncedByThisListen, NewTargetState,
                   NoView

LEMMA SyncNext == SyncInv /\ [Next]_vars => SyncInv'
<1> SUFFICES ASSUME SyncInv, [Next]_vars PROVE SyncInv'
  OBVIOUS
<1>1. AnswerInv'
  BY AnswersNext DEF SyncInv
<1>2. App \/ AllAnswered \/ UNCHANGED vars =>
        UNCHANGED <<refused, targets, listens, stream, targetState, requests, served, view>>
  BY DEF App, GetDocuments, OnEvent, AllAnswered, vars, givenVars, engineVars, remoteVars,
         serverVars
<1> QED
  BY <1>1, <1>2, SyncKept, SyncWorker, SyncConnection, SyncMessage DEF Next

\* The aggregator's count of missing answers is exact for every query the server
\* does not refuse.
THEOREM CountExact == Spec => []OutstandingIsOwed
<1>1. SyncInv => OutstandingIsOwed
  BY DEF SyncInv, OwedOK, OutstandingIsOwed
<1> QED
  BY <1>1, SyncInit, SyncNext, PTL DEF Spec

\* No view is synced by what the server still sends for an earlier listen of its
\* query, although current_ is never reset.
THEOREM SyncedRight == Spec => []SyncedByThisListen
<1>1. SyncInv => SyncedByThisListen
  BY DEF SyncInv
<1> QED
  BY <1>1, SyncInit, SyncNext, PTL DEF Spec

-----------------------------------------------------------------------------
\* No get is forgotten: the stream

\* Whoever listens has a stream that was started.
StartedInv == targets # {} => IsStarted(stream)

LEMMA StartStarts ==
    ASSUME NEW s \in Stream
    PROVE  IsStarted(Start(s)) /\ IsStarted(BackoffElapsed(s))
BY DEF Stream, Start, BackoffElapsed, IsStarted, IsOpen

LEMMA StartedWorker == TypeOK /\ StartedInv /\ Worker => StartedInv'
<1> SUFFICES ASSUME TypeOK, StartedInv, NEW g \in Gets,
                    AddQueryListener(g) \/ RemoveQueryListener(g)
             PROVE  StartedInv'
  BY DEF Worker
<1>0. stream \in Stream
  BY DEF TypeOK
<1>1. ASSUME NEW q, Listen(q) PROVE IsStarted(stream')
  <2>1. CASE ~IsStarted(stream)
    BY <1>0, <1>1, <2>1, StartStarts DEF Listen, IsStarted
  <2>2. CASE IsStarted(stream)
    <3>1. stream'.state = stream.state
      BY <1>0, <1>1, <2>2 DEF Listen, Write, Stream
    <3> QED
      BY <2>2, <3>1 DEF IsStarted, IsOpen
  <2> QED
    BY <2>1, <2>2
<1>2. ASSUME NEW q, StopListening(q) PROVE StartedInv'
  <2>1. stream'.state = stream.state /\ targets' \subseteq targets
    BY <1>0, <1>2 DEF StopListening, MarkIdle, Write, Stream, IsOpen
  <2> QED
    BY <2>1 DEF StartedInv, IsStarted, IsOpen
<1>3. CASE AddQueryListener(g)
  <2>1. Listen(query[g]) \/ UNCHANGED <<stream, targets>>
    BY <1>3 DEF AddQueryListener, remoteVars
  <2> QED
    BY <1>1, <2>1 DEF StartedInv, IsStarted, IsOpen
<1>4. CASE RemoveQueryListener(g)
  <2>1. StopListening(query[g]) \/ UNCHANGED <<stream, targets>>
    BY <1>4 DEF RemoveQueryListener
  <2> QED
    BY <1>2, <2>1 DEF StartedInv, IsStarted, IsOpen
<1> QED
  BY <1>3, <1>4

LEMMA StartedConnection == ConnectionInv /\ StartedInv /\ Connection => StartedInv'
<1> SUFFICES ASSUME ConnectionInv, StartedInv, Connection PROVE StartedInv'
  OBVIOUS
<1>0. stream \in Stream
  BY DEF ConnectionInv, TypeOK
<1>1. CASE CredentialsArrive \/ CredentialsLate \/ HealthCheck \/ OnlineStateTimer
  <2>1. UNCHANGED targets /\ stream'.state \in {stream.state, "Open", "Healthy"}
    BY <1>0, <1>1 DEF CredentialsArrive, CredentialsLate, HealthCheck, OnlineStateTimer,
                      Opened, Stream
  <2> QED
    BY <2>1 DEF StartedInv, IsStarted, IsOpen
<1>2. CASE CredentialsFail \/ OnStreamFinish
  <2>1. PICK s \in Stream : StreamClosedByError(s)
    <3>1. [stream EXCEPT !.credentials = @ \ {"current"}] \in Stream
      BY <1>0, StreamMethods DEF Credentials
    <3> QED
      BY <1>0, <1>2, <3>1 DEF CredentialsFail, OnStreamFinish
  <2>2. UNCHANGED targets
    BY <1>2 DEF CredentialsFail, OnStreamFinish
  <2> QED
    BY <2>1, <2>2, ClosedByErrorFresh, StartStarts DEF StreamClosedByError, StartedInv
<1>3. CASE BackoffTimer
  BY <1>0, <1>3, StartStarts DEF BackoffTimer, StartedInv
<1>4. CASE IdleTimer
  BY <1>4 DEF IdleTimer, ConnectionInv, IdleWithoutTarget, StartedInv
<1>5. CASE RestartNetwork
  <2>1. InhibitBackoff(Close(stream, TRUE)) \in Stream
    BY <1>0, StreamMethods
  <2> QED
    BY <1>5, <2>1, StartStarts DEF RestartNetwork, StartedInv
<1> QED
  BY <1>1, <1>2, <1>3, <1>4, <1>5 DEF Connection

LEMMA StartedStep == ConnectionInv /\ StartedInv /\ [Next]_vars => StartedInv'
<1> SUFFICES ASSUME ConnectionInv, StartedInv, [Next]_vars PROVE StartedInv'
  OBVIOUS
<1>1. App \/ Message \/ AllAnswered \/ UNCHANGED vars
         => UNCHANGED stream /\ targets' \subseteq targets
  BY DEF App, GetDocuments, OnEvent, Message, MessageRead, ReadAdded, ReadRemoved,
         ReadRefused, ReadCurrent, ReadSnapshot, AllAnswered, vars, remoteVars
<1>2. UNCHANGED stream /\ targets' \subseteq targets => StartedInv'
  BY DEF StartedInv, IsStarted, IsOpen
<1> QED
  BY <1>1, <1>2, StartedWorker, StartedConnection DEF Next, ConnectionInv

-----------------------------------------------------------------------------
\* No get is forgotten: the listeners

\* Offline, nobody who is registered still waits for a first event.
OfflineInv ==
    /\ raised \subseteq listeners
    /\ tracker.state = "Offline" => listeners \subseteq raised

\* The change to Offline tells everyone who waits.
LEMMA OfflineChange ==
    ASSUME OfflineInv, NEW t, HandleOnlineStateChange(t), UNCHANGED listeners
    PROVE  OfflineInv'
BY DEF OfflineInv, HandleOnlineStateChange, Raise, ToldOffline

LEMMA OfflineWorker == TypeOK /\ OfflineInv /\ Worker => OfflineInv'
<1> SUFFICES ASSUME TypeOK, OfflineInv, NEW g \in Gets,
                    AddQueryListener(g) \/ RemoveQueryListener(g)
             PROVE  OfflineInv'
  BY DEF Worker
<1>0. tracker \in Tracker
  BY DEF TypeOK
<1>1. CASE AddQueryListener(g)
  <2>1. tracker'.state = "Offline" => tracker.state = "Offline"
    BY <1>0, <1>1 DEF AddQueryListener, Listen, HandleWatchStreamStart, Tracker, remoteVars
  <2>2. /\ listeners' = listeners \cup {g}
        /\ raised' = raised \/ raised' = raised \cup {g}
        /\ tracker.state = "Offline" => raised' = raised \cup {g}
    BY <1>1 DEF AddQueryListener, Raise
  <2> QED
    BY <2>1, <2>2 DEF OfflineInv
<1>2. CASE RemoveQueryListener(g)
  <2>1. tracker'.state = "Offline" => tracker.state = "Offline"
    BY <1>0, <1>2 DEF RemoveQueryListener, StopListening, UpdateState
  <2>2. listeners' = listeners \ {g} /\ raised' = raised \ {g}
    BY <1>2 DEF RemoveQueryListener
  <2> QED
    BY <2>1, <2>2 DEF OfflineInv
<1> QED
  BY <1>1, <1>2

LEMMA OfflineStep == TypeOK /\ OfflineInv /\ [Next]_vars => OfflineInv'
<1> SUFFICES ASSUME TypeOK, OfflineInv, [Next]_vars PROVE OfflineInv'
  OBVIOUS
<1>1. CASE UNCHANGED <<listeners, raised, tracker>>
  BY <1>1 DEF OfflineInv
<1>2. CASE App \/ AllAnswered \/ UNCHANGED vars
  BY <1>1, <1>2 DEF App, GetDocuments, OnEvent, AllAnswered, vars, engineVars, remoteVars
<1>3. CASE Connection
  <2>1. \/ UNCHANGED <<listeners, raised, tracker>>
        \/ UNCHANGED listeners /\ \E t : HandleOnlineStateChange(t)
    BY <1>3 DEF Connection, CredentialsArrive, CredentialsFail, CredentialsLate,
                OnStreamFinish, BackoffTimer, HealthCheck, IdleTimer, OnlineStateTimer,
                RestartNetwork, StreamClosedByError, engineVars
  <2> QED
    BY <1>1, <2>1, OfflineChange
<1>4. ASSUME NEW q \in Queries, ReadAdded(q) \/ ReadRemoved(q) \/ ReadCurrent(q)
      PROVE  OfflineInv'
  <2>1. UNCHANGED listeners /\ \E t : HandleOnlineStateChange(t)
    BY <1>4 DEF ReadAdded, ReadRemoved, ReadCurrent, MessageRead
  <2> QED
    BY <2>1, OfflineChange
<1>5. ASSUME NEW q \in Queries, ReadRefused(q) PROVE OfflineInv'
  <2>1. tracker'.state = "Online" /\ raised' \subseteq listeners'
    BY <1>5 DEF ReadRefused, UpdateState, OfflineInv
  <2> QED
    BY <2>1 DEF OfflineInv
<1>6. ASSUME NEW docs \in SUBSET Queries, ReadSnapshot(docs) PROVE OfflineInv'
  <2>1. tracker'.state = "Online" /\ raised' \subseteq listeners'
    BY <1>6 DEF ReadSnapshot, Raise, UpdateState, OfflineInv
  <2> QED
    BY <2>1 DEF OfflineInv
<1> QED
  BY <1>2, <1>3, <1>4, <1>5, <1>6, OfflineWorker DEF Next, Message

-----------------------------------------------------------------------------
\* No get is forgotten: the events

\* A get without an answer is on its way to EventManager, or an event to it, or it
\* is registered and waits for its first; only an answered get is taken off.
WaitOK(g) ==
    /\ g \in asked /\ answers[g] = <<>> =>
          \/ task[g] = "add"
          \/ events[g] # <<>>
          \/ g \in listeners \ raised
    /\ g \in muted \/ task[g] = "remove" => answers[g] # <<>>

WaitInv == \A g \in Gets : WaitOK(g)

\* No event of a get is lost, and who counts as told has been sent one.
Heard(g) ==
    /\ events[g] # <<>> => events'[g] # <<>>
    /\ g \in raised' => g \in raised \/ events'[g] # <<>>

LEMMA RaiseHeard ==
    ASSUME TypeOK, NEW gs, NEW v, Raise(gs, v), NEW g \in Gets
    PROVE  Heard(g) /\ (g \in gs => events'[g] # <<>>)
<1>1. events[g] \in Seq(Results)
  BY DEF TypeOK
<1>2. \/ g \notin gs /\ events'[g] = events[g]
      \/ \E r : events'[g] = Append(events[g], r)
  BY DEF Raise
<1>3. \A r : Append(events[g], r) # <<>>
  BY <1>1
<1> QED
  BY <1>2, <1>3 DEF Heard, Raise

LEMMA OnlineHeard ==
    ASSUME TypeOK, NEW t, HandleOnlineStateChange(t), NEW g \in Gets
    PROVE  Heard(g)
<1>1. \/ Raise(ToldOffline, OfflineView)
      \/ UNCHANGED <<events, raised>>
  BY DEF HandleOnlineStateChange
<1>2. CASE Raise(ToldOffline, OfflineView)
  BY <1>2, RaiseHeard
<1>3. CASE UNCHANGED <<events, raised>>
  BY <1>3 DEF Heard
<1> QED
  BY <1>1, <1>2, <1>3

\* Steps that only tell the listeners something.
LEMMA HeardOK ==
    ASSUME WaitInv, \A g \in Gets : Heard(g),
           UNCHANGED <<asked, muted, answers, task, listeners>>
    PROVE  WaitInv'
BY DEF WaitInv, WaitOK, Heard

LEMMA WaitApp == TypeOK /\ WaitInv /\ App => WaitInv'
<1> SUFFICES ASSUME TypeOK, WaitInv, NEW g \in Gets, GetDocuments(g) \/ OnEvent(g),
                    NEW h \in Gets
             PROVE  WaitOK(h)'
  BY DEF App, WaitInv
<1>0. /\ WaitOK(h)
      /\ task \in [Gets -> {"none", "add", "remove"}]
      /\ events \in [Gets -> Seq(Results)] /\ answers \in [Gets -> Seq(Results)]
  BY DEF WaitInv, TypeOK
<1>1. CASE GetDocuments(g)
  BY <1>0, <1>1 DEF GetDocuments, WaitOK, engineVars
<1>2. CASE OnEvent(g)
  <2>1. UNCHANGED <<asked, listeners, raised>>
    BY <1>2 DEF OnEvent
  <2>2. CASE h # g
    <3>1. /\ events'[h] = events[h] /\ answers'[h] = answers[h] /\ task'[h] = task[h]
          /\ h \in muted' <=> h \in muted
      BY <1>0, <1>2, <2>2 DEF OnEvent
    <3> QED
      BY <1>0, <2>1, <3>1 DEF WaitOK
  <2>3. CASE h = g /\ g \in muted
    <3>1. answers[g] # <<>> /\ answers' = answers
      BY <1>0, <1>2, <2>3 DEF OnEvent, WaitOK
    <3> QED
      BY <2>3, <3>1 DEF WaitOK
  <2>4. CASE h = g /\ g \notin muted
    <3>1. answers'[g] = Append(answers[g], Head(events[g]))
      BY <1>0, <1>2, <2>4 DEF OnEvent
    <3>2. events[g] # <<>>
      BY <1>2 DEF OnEvent
    <3>3. Head(events[g]) \in Results /\ answers[g] \in Seq(Results)
      BY <1>0, <3>2
    <3>4. answers'[g] # <<>>
      BY <3>1, <3>3
    <3> QED
      BY <2>4, <3>4 DEF WaitOK
  <2> QED
    BY <2>2, <2>3, <2>4
<1> QED
  BY <1>1, <1>2

LEMMA WaitWorker == AnswerInv /\ OfflineInv /\ WaitInv /\ Worker => WaitInv'
<1> SUFFICES ASSUME AnswerInv, OfflineInv, WaitInv, NEW g \in Gets,
                    AddQueryListener(g) \/ RemoveQueryListener(g), NEW h \in Gets
             PROVE  WaitOK(h)'
  BY DEF Worker, WaitInv
<1>0. /\ TypeOK /\ WaitOK(h) /\ AnswerOK(h)
      /\ task \in [Gets -> {"none", "add", "remove"}]
      /\ UNCHANGED <<asked, muted, answers>>
  BY DEF WaitInv, AnswerInv, TypeOK, AddQueryListener, RemoveQueryListener, appVars
<1>1. CASE AddQueryListener(g)
  <2>1. Heard(h)
    BY <1>0, <1>1, RaiseHeard DEF AddQueryListener
  <2>2. /\ listeners' = listeners \cup {g}
        /\ task' = [task EXCEPT ![g] = "none"] /\ task[g] = "add"
    BY <1>1 DEF AddQueryListener
  <2>3. CASE h # g
    BY <1>0, <2>1, <2>2, <2>3 DEF WaitOK, Heard
  <2>4. CASE h = g
    <3>1. g \notin raised /\ g \notin muted
      BY <1>0, <2>2, <2>4 DEF AnswerOK, Untouched, OfflineInv
    <3> QED
      BY <1>0, <2>1, <2>2, <2>4, <3>1 DEF WaitOK, Heard
  <2> QED
    BY <2>3, <2>4
<1>2. CASE RemoveQueryListener(g)
  <2>1. /\ listeners' = listeners \ {g} /\ raised' = raised \ {g} /\ events' = events
        /\ task' = [task EXCEPT ![g] = "none"] /\ task[g] = "remove"
    BY <1>2 DEF RemoveQueryListener, appVars
  <2> QED
    BY <1>0, <2>1 DEF WaitOK
<1> QED
  BY <1>1, <1>2

LEMMA WaitConnection == TypeOK /\ WaitInv /\ Connection => WaitInv'
<1> SUFFICES ASSUME TypeOK, WaitInv, Connection PROVE WaitInv'
  OBVIOUS
<1>1. /\ UNCHANGED <<asked, muted, answers, task, listeners>>
      /\ UNCHANGED <<events, raised>> \/ \E t : HandleOnlineStateChange(t)
  BY DEF Connection, CredentialsArrive, CredentialsFail, CredentialsLate, OnStreamFinish,
         BackoffTimer, HealthCheck, IdleTimer, OnlineStateTimer, RestartNetwork,
         StreamClosedByError, engineVars, appVars
<1>2. \A g \in Gets : Heard(g)
  BY <1>1, OnlineHeard DEF Heard
<1> QED
  BY <1>1, <1>2, HeardOK

LEMMA WaitMessage == TypeOK /\ WaitInv /\ Message => WaitInv'
<1> SUFFICES ASSUME TypeOK, WaitInv, Message PROVE WaitInv'
  OBVIOUS
<1>1. ASSUME NEW q \in Queries, ReadAdded(q) \/ ReadRemoved(q) \/ ReadCurrent(q)
      PROVE  WaitInv'
  <2>1. /\ UNCHANGED <<asked, muted, answers, task, listeners>>
        /\ \E t : HandleOnlineStateChange(t)
    BY <1>1 DEF ReadAdded, ReadRemoved, ReadCurrent, MessageRead
  <2> QED
    BY <2>1, OnlineHeard, HeardOK
<1>2. ASSUME NEW q \in Queries, ReadRefused(q) PROVE WaitInv'
  <2> SUFFICES ASSUME NEW g \in Gets PROVE WaitOK(g)'
    BY DEF WaitInv
  <2>1. WaitOK(g) /\ UNCHANGED <<asked, muted, answers, task>> /\ events[g] \in Seq(Results)
    BY <1>2 DEF WaitInv, ReadRefused, TypeOK
  <2>2. CASE UNCHANGED <<events, listeners, raised>>
    BY <2>1, <2>2 DEF WaitOK
  <2>3. CASE /\ events' = [k \in Gets |-> IF k \in ListenersOf(q) THEN Append(events[k], "error")
                                          ELSE events[k]]
             /\ listeners' = listeners \ ListenersOf(q)
             /\ raised' = raised \ ListenersOf(q)
    <3>1. CASE g \in ListenersOf(q)
      <4>1. events'[g] = Append(events[g], "error")
        BY <2>3, <3>1
      <4>2. events'[g] # <<>>
        BY <2>1, <4>1
      <4> QED
        BY <2>1, <4>2 DEF WaitOK
    <3>2. CASE g \notin ListenersOf(q)
      BY <2>1, <2>3, <3>2 DEF WaitOK
    <3> QED
      BY <3>1, <3>2
  <2> QED
    BY <1>2, <2>2, <2>3 DEF ReadRefused
<1>3. ASSUME NEW docs \in SUBSET Queries, ReadSnapshot(docs) PROVE WaitInv'
  <2>1. /\ UNCHANGED <<asked, muted, answers, task, listeners>>
        /\ \E gs, v : Raise(gs, v)
    BY <1>3 DEF ReadSnapshot
  <2> QED
    BY <2>1, RaiseHeard, HeardOK
<1> QED
  BY <1>1, <1>2, <1>3 DEF Message

LEMMA WaitStep == AnswerInv /\ OfflineInv /\ WaitInv /\ [Next]_vars => WaitInv'
<1>1. WaitInv /\ (AllAnswered \/ UNCHANGED vars) => WaitInv'
  BY DEF WaitInv, WaitOK, AllAnswered, vars, appVars, engineVars
<1> QED
  BY <1>1, WaitApp, WaitWorker, WaitConnection, WaitMessage DEF Next, AnswerInv

-----------------------------------------------------------------------------
\* No get is forgotten: the requests

\* On an open stream a target of a refused query has its refusal to come, and a
\* target that the server has caught up with, and owes nothing, knows that it is
\* current.
AskedOK(q) ==
    q \in targets /\ IsOpen(stream) =>
        /\ q \in refused => /\ requests[q] # <<>>
                            /\ requests[q][Len(requests[q])] = WatchRequest(listens[q])
        /\ requests[q] = <<>> /\ served[q].current => targetState[q].current

AskedInv == \A q \in Queries : AskedOK(q)

\* A request is put on the stream: it is the last one.
LEMMA LastAppended ==
    ASSUME NEW rs \in Seq(Request), NEW r \in Request
    PROVE  Append(rs, r) # <<>> /\ Append(rs, r)[Len(Append(rs, r))] = r
OBVIOUS

\* The first request is answered: a last one of another type stays the last.
LEMMA LastStays ==
    ASSUME NEW rs \in Seq(Request), rs # <<>>, Head(rs) # rs[Len(rs)]
    PROVE  Tail(rs) # <<>> /\ Tail(rs)[Len(Tail(rs))] = rs[Len(rs)]
<1>1. Len(rs) \in Nat \ {0} /\ Head(rs) = rs[1]
  OBVIOUS
<1>2. Len(rs) > 1
  BY <1>1
<1>3. /\ Tail(rs) \in Seq(Request) /\ Len(Tail(rs)) = Len(rs) - 1
      /\ \A i \in 1 .. Len(Tail(rs)) : Tail(rs)[i] = rs[i + 1]
  BY <1>1
<1>4. Len(Tail(rs)) \in 1 .. Len(Tail(rs)) /\ Tail(rs) # <<>>
  BY <1>1, <1>2, <1>3
<1> QED
  BY <1>1, <1>3, <1>4

\* Steps that leave the books of a query alone, or no stream open.
LEMMA AskedKept ==
    ASSUME NEW q \in Queries, AskedOK(q), refused' = refused, q \in targets' => q \in targets,
           IsOpen(stream') => /\ IsOpen(stream)
                              /\ listens'[q] = listens[q]
                              /\ requests'[q] = requests[q]
                              /\ served'[q] = served[q]
                              /\ targetState'[q] = targetState[q]
    PROVE  AskedOK(q)'
BY DEF AskedOK, IsOpen, WatchRequest

LEMMA AskedWorker == TypeOK /\ AskedInv /\ Worker => AskedInv'
<1> SUFFICES ASSUME TypeOK, AskedInv, NEW g \in Gets,
                    AddQueryListener(g) \/ RemoveQueryListener(g), NEW p \in Queries
             PROVE  AskedOK(p)'
  BY DEF Worker, AskedInv
<1>0. /\ AskedOK(p) /\ query[g] \in Queries /\ stream \in Stream
      /\ requests \in [Queries -> Seq(Request)] /\ listens \in [Queries -> Nat]
      /\ targetState \in [Queries -> TargetState]
      /\ refused' = refused /\ served' = served
  BY DEF AskedInv, TypeOK, AddQueryListener, RemoveQueryListener, givenVars
<1>1. ASSUME NEW q \in Queries, Listen(q) PROVE AskedOK(p)'
  <2>1. CASE IsOpen(stream)
    <3> DEFINE n == listens[q] + 1
    <3>1. /\ targets' = targets \cup {q}
          /\ listens' = [listens EXCEPT ![q] = n]
          /\ stream' = Write(stream)
          /\ targetState' = [targetState EXCEPT ![q] = RecordPendingTargetRequest(@)]
          /\ requests' = [requests EXCEPT ![q] = Append(@, WatchRequest(n))]
      BY <1>1, <2>1 DEF Listen, IsStarted
    <3>2. WatchRequest(n) \in Request
      BY <1>0 DEF WatchRequest, Request
    <3>3. CASE p = q
      <4>1. requests'[q] = Append(requests[q], WatchRequest(n)) /\ listens'[q] = n
        BY <1>0, <3>1
      <4> QED
        BY <1>0, <3>2, <3>3, <4>1, LastAppended DEF AskedOK, WatchRequest
    <3>4. CASE p # q
      BY <1>0, <2>1, <3>1, <3>4, AskedKept
    <3> QED
      BY <3>3, <3>4
  <2>2. CASE ~IsOpen(stream)
    <3>1. ~IsOpen(stream')
      BY <1>0, <1>1, <2>2 DEF Listen, Start, IsStarted, IsOpen, Stream
    <3> QED
      BY <3>1 DEF AskedOK, IsOpen
  <2> QED
    BY <2>1, <2>2
<1>2. ASSUME NEW q \in Queries, StopListening(q), UNCHANGED listens PROVE AskedOK(p)'
  <2>1. CASE p = q
    BY <1>2, <2>1 DEF StopListening, AskedOK
  <2>2. CASE p # q
    <3>1. /\ targetState'[p] = targetState[p] /\ requests'[p] = requests[p]
          /\ targets' \subseteq targets
          /\ IsOpen(stream') => IsOpen(stream)
      BY <1>0, <1>2, <2>2 DEF StopListening
    <3> QED
      BY <1>0, <1>2, <3>1, AskedKept
  <2> QED
    BY <2>1, <2>2
<1>3. CASE AddQueryListener(g)
  <2>1. Listen(query[g]) \/ UNCHANGED <<targets, listens, stream, targetState, requests>>
    BY <1>3 DEF AddQueryListener, remoteVars
  <2> QED
    BY <1>0, <1>1, <2>1, AskedKept
<1>4. CASE RemoveQueryListener(g)
  <2>1. /\ UNCHANGED listens
        /\ StopListening(query[g]) \/ UNCHANGED <<targets, stream, targetState, requests>>
    BY <1>4 DEF RemoveQueryListener
  <2> QED
    BY <1>0, <1>2, <2>1, AskedKept
<1> QED
  BY <1>3, <1>4

LEMMA AskedConnection == TypeOK /\ AskedInv /\ Connection => AskedInv'
<1> SUFFICES ASSUME TypeOK, AskedInv, Connection, NEW p \in Queries PROVE AskedOK(p)'
  BY DEF AskedInv
<1>0. /\ AskedOK(p) /\ stream \in Stream /\ refused' = refused
      /\ requests \in [Queries -> Seq(Request)] /\ listens \in [Queries -> Nat]
  BY DEF AskedInv, TypeOK, Connection, CredentialsArrive, CredentialsFail, CredentialsLate,
         OnStreamFinish, BackoffTimer, HealthCheck, IdleTimer, OnlineStateTimer,
         RestartNetwork, givenVars
<1>1. CASE CredentialsArrive
  <2>1. CASE p \in targets
    <3>1. requests'[p] = Append(requests[p], WatchRequest(listens[p])) /\ listens'[p] = listens[p]
      BY <1>1, <2>1 DEF CredentialsArrive
    <3>2. WatchRequest(listens[p]) \in Request
      BY <1>0 DEF WatchRequest, Request
    <3> QED
      BY <1>0, <3>1, <3>2, LastAppended DEF AskedOK, WatchRequest
  <2>2. CASE p \notin targets
    BY <1>1, <2>2 DEF CredentialsArrive, AskedOK
  <2> QED
    BY <2>1, <2>2
<1>2. CASE CredentialsLate \/ BackoffTimer \/ HealthCheck \/ OnlineStateTimer
  <2>1. UNCHANGED <<targets, listens, targetState, requests, served>>
    BY <1>2 DEF CredentialsLate, BackoffTimer, HealthCheck, OnlineStateTimer, serverVars
  <2>2. IsOpen(stream') => IsOpen(stream)
    BY <1>0, <1>2 DEF CredentialsLate, BackoffTimer, HealthCheck, OnlineStateTimer,
                      BackoffElapsed, Start, IsOpen, Stream
  <2> QED
    BY <1>0, <2>1, <2>2, AskedKept
<1>3. CASE CredentialsFail \/ OnStreamFinish
  <2>1. PICK s \in Stream : StreamClosedByError(s)
    <3>1. [stream EXCEPT !.credentials = @ \ {"current"}] \in Stream
      BY <1>0, StreamMethods DEF Credentials
    <3> QED
      BY <1>0, <1>3, <3>1 DEF CredentialsFail, OnStreamFinish
  <2>2. stream' \in {Close(s, FALSE), Start(Close(s, FALSE))}
    BY <2>1 DEF StreamClosedByError
  <2>3. ~IsOpen(stream')
    BY <2>2, ClosedByErrorFresh DEF Start, IsOpen, Stream
  <2> QED
    BY <2>3 DEF AskedOK, IsOpen
<1>4. CASE IdleTimer
  <2>1. ~IsOpen(stream')
    BY <1>0, <1>4 DEF IdleTimer, Close, IsStarted, IsOpen
  <2> QED
    BY <2>1 DEF AskedOK, IsOpen
<1>5. CASE RestartNetwork
  <2> DEFINE stopped == InhibitBackoff(Close(stream, TRUE))
  <2>1. stopped \in Stream /\ stopped.state = "Initial"
    BY <1>0, StreamMethods DEF InhibitBackoff, Stream
  <2>2. stream' \in {stopped, Start(stopped)}
    BY <1>5 DEF RestartNetwork
  <2> HIDE DEF stopped
  <2>3. ~IsOpen(stream')
    BY <2>1, <2>2 DEF Start, IsOpen, Stream
  <2> QED
    BY <2>3 DEF AskedOK, IsOpen
<1> QED
  BY <1>1, <1>2, <1>3, <1>4, <1>5 DEF Connection

LEMMA AskedMessage == SyncInv /\ AskedInv /\ Message => AskedInv'
<1> SUFFICES ASSUME SyncInv, AskedInv, Message, NEW p \in Queries PROVE AskedOK(p)'
  BY DEF AskedInv
<1>0. /\ TypeOK /\ AskedOK(p) /\ ServerOK(p) /\ (p \notin refused => OwedOK(p))
      /\ requests \in [Queries -> Seq(Request)]
      /\ served \in [Queries -> Served] /\ targetState \in [Queries -> TargetState]
  BY DEF SyncInv, AnswerInv, AskedInv, TypeOK
<1> USE DEF givenVars, serverVars
<1>1. ASSUME NEW q \in Queries, ReadAdded(q) PROVE AskedOK(p)'
  <2>1. /\ UNCHANGED <<refused, targets, listens, stream>>
        /\ served' = [served EXCEPT ![q] = [listen |-> Head(requests[q]).listen,
                                            current |-> FALSE]]
        /\ targetState' = [targetState EXCEPT ![q] = RecordTargetResponse(@)]
        /\ requests' = [requests EXCEPT ![q] = Tail(@)]
        /\ q \notin refused
    BY <1>1 DEF ReadAdded, MessageRead, Answered
  <2>2. CASE p = q
    BY <1>0, <2>1, <2>2 DEF AskedOK
  <2>3. CASE p # q
    BY <1>0, <2>1, <2>3, AskedKept
  <2> QED
    BY <2>2, <2>3
<1>2. ASSUME NEW q \in Queries, ReadRemoved(q) PROVE AskedOK(p)'
  <2>1. /\ UNCHANGED <<refused, targets, listens, stream>> /\ IsOpen(stream)
        /\ served' = [served EXCEPT ![q] = NotServed]
        /\ requests' = [requests EXCEPT ![q] = Tail(@)]
        /\ requests[q] # <<>> /\ Head(requests[q]).type = "unwatch"
    BY <1>2 DEF ReadRemoved, MessageRead, Answered
  <2>2. CASE p = q
    <3>1. ~served'[q].current /\ requests'[q] = Tail(requests[q])
      BY <1>0, <2>1 DEF NotServed
    <3>2. ASSUME q \in targets, q \in refused
          PROVE  /\ requests'[q] # <<>>
                 /\ requests'[q][Len(requests'[q])] = WatchRequest(listens[q])
      <4>1. requests[q][Len(requests[q])] = WatchRequest(listens[q])
        BY <1>0, <2>1, <2>2, <3>2 DEF AskedOK
      <4>2. Head(requests[q]) # requests[q][Len(requests[q])]
        BY <2>1, <4>1 DEF WatchRequest
      <4> QED
        BY <1>0, <2>1, <3>1, <4>1, <4>2, LastStays
    <3> QED
      BY <2>1, <2>2, <3>1, <3>2 DEF AskedOK, WatchRequest
  <2>3. CASE p # q
    <3>1. targetState'[p] = targetState[p]
      BY <1>2, <2>3 DEF ReadRemoved
    <3> QED
      BY <1>0, <2>1, <2>3, <3>1, AskedKept
  <2> QED
    BY <2>2, <2>3
<1>3. ASSUME NEW q \in Queries, ReadRefused(q) PROVE AskedOK(p)'
  <2>1. /\ UNCHANGED <<refused, listens, stream, served>> /\ IsOpen(stream)
        /\ targets' \subseteq targets /\ q \notin targets'
        /\ requests' = [requests EXCEPT ![q] = Tail(@)]
    BY <1>3 DEF ReadRefused, Answered
  <2>2. CASE p = q
    BY <2>1, <2>2 DEF AskedOK
  <2>3. CASE p # q
    <3>1. targetState'[p] = targetState[p]
      BY <1>0, <1>3, <2>3 DEF ReadRefused
    <3> QED
      BY <1>0, <2>1, <2>3, <3>1, AskedKept
  <2> QED
    BY <2>2, <2>3
<1>4. ASSUME NEW q \in Queries, ReadCurrent(q) PROVE AskedOK(p)'
  <2>1. /\ UNCHANGED <<refused, targets, listens, stream, requests>> /\ served[q].listen # 0
        /\ served' = [served EXCEPT ![q].current = TRUE]
        /\ targetState' = [targetState EXCEPT ![q].current = @ \/ IsActiveTarget(q)]
    BY <1>4 DEF ReadCurrent, MessageRead
  <2>2. CASE p = q
    <3>1. q \notin refused
      BY <1>0, <2>1, <2>2 DEF ServerOK
    <3>2. requests[q] = <<>> => targetState[q].outstanding = 0
      BY <1>0, <2>2, <3>1 DEF OwedOK
    <3>3. requests[q] = <<>> /\ q \in targets => targetState'[q].current
      BY <1>0, <2>1, <3>2 DEF IsActiveTarget, TargetState
    <3> QED
      BY <2>1, <2>2, <3>1, <3>3 DEF AskedOK
  <2>3. CASE p # q
    BY <1>0, <2>1, <2>3, AskedKept
  <2> QED
    BY <2>2, <2>3
<1>5. ASSUME NEW docs \in SUBSET Queries, ReadSnapshot(docs) PROVE AskedOK(p)'
  BY <1>0, <1>5, AskedKept DEF ReadSnapshot
<1> QED
  BY <1>1, <1>2, <1>3, <1>4, <1>5 DEF Message

LEMMA AskedStep == SyncInv /\ AskedInv /\ [Next]_vars => AskedInv'
<1>1. AskedInv /\ (App \/ AllAnswered \/ UNCHANGED vars) => AskedInv'
  <2> SUFFICES ASSUME AskedInv, App \/ AllAnswered \/ UNCHANGED vars, NEW q \in Queries
               PROVE  AskedOK(q)'
    BY DEF AskedInv
  <2>1. UNCHANGED <<refused, targets, listens, stream, requests, served, targetState>>
    BY DEF App, GetDocuments, OnEvent, AllAnswered, vars, givenVars, remoteVars, serverVars
  <2> QED
    BY <2>1, AskedKept DEF AskedInv
<1> QED
  BY <1>1, AskedWorker, AskedConnection, AskedMessage DEF Next, SyncInv, AnswerInv

-----------------------------------------------------------------------------
\* No get is forgotten

\* The four invariants together leave a waiting get no state in which nothing can
\* happen for it.
LEMMA NothingForgotten ==
    /\ ConnectionInv /\ RegistriesAgree /\ SyncInv
    /\ StartedInv /\ OfflineInv /\ WaitInv /\ AskedInv
    => NoGetForgotten
<1> SUFFICES ASSUME ConnectionInv, RegistriesAgree, SyncInv,
                    StartedInv, OfflineInv, WaitInv, AskedInv,
                    NEW g \in asked, answers[g] = <<>>, task[g] # "add", events[g] = <<>>
             PROVE  g \in listeners \ raised /\ tracker.state # "Offline" /\ UnderWay(query[g])
  BY DEF NoGetForgotten
<1>1. g \in Gets /\ query[g] \in Queries /\ targetState \in [Queries -> TargetState]
  BY DEF ConnectionInv, TypeOK
<1>2. g \in listeners \ raised
  BY <1>1 DEF WaitInv, WaitOK
<1>3. tracker.state # "Offline"
  BY <1>2 DEF OfflineInv
<1>4. PICK q \in Queries : q = query[g]
  BY <1>1
<1>5. q \in targets
  BY <1>2, <1>4 DEF RegistriesAgree, ListenersOf
<1>6. CASE stream.state \in {"Starting", "Backoff"}
  BY <1>2, <1>3, <1>4, <1>6 DEF ConnectionInv, CredentialsOfThisStart, UnderWay
<1>7. CASE IsOpen(stream) /\ requests[q] = <<>>
  <2>1. q \notin refused
    BY <1>5, <1>7 DEF AskedInv, AskedOK
  <2>2. targetState[q].outstanding = 0 /\ served[q].listen = listens[q]
    BY <1>5, <1>7, <2>1 DEF SyncInv, OwedOK, LastRequestOK
  <2>3. served[q].current => targetState[q].current
    BY <1>5, <1>7 DEF AskedInv, AskedOK
  <2> QED
    BY <1>2, <1>3, <1>4, <1>5, <1>7, <2>2, <2>3 DEF UnderWay, IsActiveTarget
<1>8. CASE IsOpen(stream) /\ requests[q] # <<>>
  BY <1>2, <1>3, <1>4, <1>8 DEF UnderWay
<1> QED
  BY <1>5, <1>6, <1>7, <1>8 DEF StartedInv, IsStarted

\* At the start nothing is asked and nobody listens.
LEMMA NobodyWaits == Init => StartedInv /\ OfflineInv /\ WaitInv /\ AskedInv
BY DEF Init, StartedInv, OfflineInv, WaitInv, WaitOK, AskedInv, AskedOK, NewTracker

\* No get is forgotten, for any number of gets, queries, lost streams and failures:
\* until it is answered, a queue, a timer, the credentials or the server has
\* something to do for it, and an offline client has told it already.  This is
\* what remains of EveryGetAnswered once fairness is taken away.
THEOREM NoneForgotten == Spec => []NoGetForgotten
<1>1. Spec => []RegistriesAgree
  BY Registries
<1>2. SyncInv => AnswerInv /\ TypeOK
  BY DEF SyncInv, AnswerInv
<1> QED
  BY <1>1, <1>2, ConnectionHolds, SyncInit, SyncNext, NobodyWaits, StartedStep, OfflineStep,
     WaitStep, AskedStep, NothingForgotten, PTL DEF Spec

=============================================================================
