------------------------- MODULE OnlineStateTracker -------------------------
(***************************************************************************)
(* Firestore's OnlineStateTracker: is the client to be taken for online?   *)
(* RemoteStore tells it when the watch stream starts, fails or brings a    *)
(* message, and listeners that wait for the server get the cache instead   *)
(* once it says Offline.                                                   *)
(*                                                                         *)
(* A tracker is a value; every method is an operator from the tracker      *)
(* before the call to the tracker after it.  What SetAndBroadcast tells    *)
(* the listeners is seen by the caller, which has both.                    *)
(***************************************************************************)
EXTENDS Naturals

CONSTANT kMaxWatchStreamFailures    \* 1 in the code

ASSUME TrackerAssumption == kMaxWatchStreamFailures \in Nat \ {0}

OnlineState == {"Unknown", "Online", "Offline"}

\* The code asks of watch_stream_failures_ only whether it is 0 and whether it
\* has reached the maximum: it is counted up to the maximum.
Tracker == [state : OnlineState,
            timer : BOOLEAN,        \* is online_state_timer_ running?
            failures : 0 .. kMaxWatchStreamFailures]

NewTracker == [state |-> "Unknown", timer |-> FALSE, failures |-> 0]

OneMoreFailure(t) == IF t.failures < kMaxWatchStreamFailures THEN t.failures + 1
                     ELSE t.failures

HandleWatchStreamStart(t) ==
    IF t.failures # 0 THEN t
    ELSE [t EXCEPT !.state = "Unknown", !.timer = TRUE]

HandleWatchStreamFailure(t) ==
    CASE t.state = "Online" -> [t EXCEPT !.state = "Unknown"]
      [] t.state # "Online" /\ OneMoreFailure(t) < kMaxWatchStreamFailures ->
            [t EXCEPT !.failures = OneMoreFailure(t)]
      [] OTHER -> [state |-> "Offline", timer |-> FALSE,
                   failures |-> OneMoreFailure(t)]

\* Mutant of UpdateState: the timer goes on running.
UpdateStateKeepsTimer(t, s) == [t EXCEPT !.state = s, !.failures = 0]

UpdateState(t, s) == [state |-> s, timer |-> FALSE, failures |-> 0]

\* The timer's callback.
TimerFired(t) == [t EXCEPT !.state = "Offline", !.timer = FALSE]
=============================================================================
