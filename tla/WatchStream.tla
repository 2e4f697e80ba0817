----------------------------- MODULE WatchStream -----------------------------
(***************************************************************************)
(* Firestore's Stream, as WatchStream uses it: the life of one long-lived  *)
(* call to the server.  A stream is a value; every method is an operator   *)
(* from the stream before the call to the stream after it.                 *)
(*                                                                         *)
(* gRPC takes the call as started without waiting for the server, so the   *)
(* stream is open as soon as the credentials are there (GrpcStream::Start).*)
(* The health check runs exactly in state Open and the back-off timer      *)
(* exactly in state Backoff: the state says which of them may fire.        *)
(***************************************************************************)

StreamState == {"Initial", "Starting", "Open", "Healthy", "Error", "Backoff"}

\* The outstanding answers to RequestCredentials.  An answer whose close count
\* is that of the stream is "current"; those from before the last Close, however
\* many, are "closed".
Credentials == {"current", "closed"}

Stream == [state : StreamState,
           idle : BOOLEAN,          \* is idleness_timer_ running?
           credentials : SUBSET Credentials]

NewStream == [state |-> "Initial", idle |-> FALSE, credentials |-> {}]

IsOpen(s) == s.state \in {"Open", "Healthy"}
IsStarted(s) == s.state \in {"Starting", "Backoff"} \/ IsOpen(s)

\* After an error the next start is put off (BackoffAndTryRestarting).
Start(s) ==
    IF s.state = "Error" THEN [s EXCEPT !.state = "Backoff"]
    ELSE [s EXCEPT !.state = "Starting", !.credentials = @ \cup {"current"}]

BackoffElapsed(s) == Start([s EXCEPT !.state = "Initial"])

\* ResumeStartWithCredentials, down to OnStreamStart.
Opened(s) == [s EXCEPT !.state = "Open", !.credentials = @ \ {"current"}]

\* Mutant of Close: the close count stays what it was.
CloseCountKept(s, graceful) ==
    IF graceful /\ ~IsStarted(s) THEN s
    ELSE [s EXCEPT !.state = IF graceful THEN "Initial" ELSE "Error",
                   !.idle = FALSE]

\* Close with status OK (Stop) or with an error (OnStreamFinish), up to
\* NotifyStreamClose.
Close(s, graceful) ==
    IF graceful /\ ~IsStarted(s) THEN s
    ELSE [state |-> IF graceful THEN "Initial" ELSE "Error",
          idle |-> FALSE,
          credentials |-> IF s.credentials = {} THEN {} ELSE {"closed"}]

InhibitBackoff(s) == [s EXCEPT !.state = "Initial"]

MarkIdle(s) == IF IsOpen(s) THEN [s EXCEPT !.idle = TRUE] ELSE s

\* Mutant of Write: the idleness timer goes on running.
WriteOnly(s) == s

Write(s) == [s EXCEPT !.idle = FALSE]
==============================================================================
