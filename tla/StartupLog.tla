----------------------------- MODULE StartupLog -----------------------------
(***************************************************************************)
(* StartupLog of tools/service.py, the /dev/log of the sandbox: a thread   *)
(* drains what the vendor daemon logs, the main thread (serve) calls       *)
(* ready() once the daemon is up, and __exit__ prints what was retained if *)
(* the service ends with an error.  What is done with the lock held is one *)
(* step; a message is what the daemon was doing when it logged it.         *)
(***************************************************************************)
EXTENDS Naturals, Sequences

CONSTANTS
  MaxLen,    \* messages retained (24)
  Datagrams  \* bound: messages the daemon logs

ASSUME LogAssumption == MaxLen \in Nat \ {0} /\ Datagrams \in Nat

VARIABLES
  main,      \* the main thread: "boot", "serve", "join", "over"
  error,     \* it leaves because of an error
  logged,    \* how many messages the daemon has sent
  socket,    \* those nobody has received
  drain,     \* the thread: "check", "recv", "got", "over"
  message,   \* what its last recv returned
  record, messages,  \* self.record and self.messages
  stopping,  \* self.stop is set
  printed    \* what __exit__ has printed

worker  == <<drain, message>>
kept    == <<record, messages>>
ending  == <<error, stopping, printed>>
logVars == <<main, logged, socket, worker, kept, ending>>

Messages == {"startup", "capture"}

LogInit ==
  /\ main = "boot" /\ error = FALSE /\ logged = 0 /\ socket = <<>>
  /\ drain = "check" /\ message = "startup"
  /\ record = TRUE /\ messages = <<>> /\ stopping = FALSE /\ printed = <<>>

\* The daemon logs; it captures only once the service serves.
Log ==
  /\ logged < Datagrams /\ logged' = logged + 1
  /\ \E m \in Messages :
       /\ m = "capture" => main = "serve"
       /\ socket' = IF main = "over" THEN socket ELSE Append(socket, m)
  /\ UNCHANGED <<main, worker, kept, ending>>

-----------------------------------------------------------------------------
(* drain, in its own thread                                                *)

CheckStop ==
  /\ drain = "check" /\ drain' = IF stopping THEN "over" ELSE "recv"
  /\ UNCHANGED <<main, logged, socket, message, kept, ending>>

\* recv, or its time-out after 0.1 seconds
Receive ==
  /\ drain = "recv"
  /\ \/ /\ socket # <<>> /\ message' = Head(socket) /\ socket' = Tail(socket)
        /\ drain' = "got"
     \/ socket = <<>> /\ drain' = "check" /\ UNCHANGED <<message, socket>>
  /\ UNCHANGED <<main, logged, kept, ending>>

Kept(m) == LET all == Append(messages, m)
           IN IF Len(all) > MaxLen THEN Tail(all) ELSE all

\* Wrong: whether to record is not looked at once the message has come.
AppendStale ==
  /\ drain = "got" /\ drain' = "check"
  /\ messages' = Kept(message)
  /\ UNCHANGED <<main, logged, socket, message, record, ending>>

AppendIfRecording ==
  /\ drain = "got" /\ drain' = "check"
  /\ messages' = IF record THEN Kept(message) ELSE messages
  /\ UNCHANGED <<main, logged, socket, message, record, ending>>

-----------------------------------------------------------------------------
(* The main thread                                                         *)

\* ready(), when the daemon is up and before anything is served
Ready ==
  /\ main = "boot" /\ main' = "serve"
  /\ record' = FALSE /\ messages' = <<>>
  /\ UNCHANGED <<logged, socket, worker, ending>>

\* serve_with_log raises, or returns after a signal once it serves.
Leave ==
  /\ \/ main \in {"boot", "serve"} /\ error' = TRUE
     \/ main = "serve" /\ error' = FALSE
  /\ main' = "join" /\ stopping' = TRUE
  /\ UNCHANGED <<logged, socket, worker, kept, printed>>

\* __exit__: the thread ends well within the second join gives it, ten of its
\* time-outs; it takes nothing more from the socket.
Exit ==
  /\ main = "join" /\ drain = "over" /\ main' = "over"
  /\ printed' = IF error THEN messages ELSE <<>>
  /\ UNCHANGED <<logged, socket, worker, kept, error, stopping>>

LogNext == Log \/ CheckStop \/ Receive \/ AppendIfRecording \/ Ready \/ Leave \/ Exit

LogSpec == LogInit /\ [][LogNext]_logVars

-----------------------------------------------------------------------------
\* Only startup messages reach the journal, at most MaxLen of them, and none once
\* the service was ready: wherever the thread stood between recv and the lock
\* when ready() ran, nothing is retained after it.
RetainsOnlyStartup ==
  /\ \A i \in DOMAIN messages : messages[i] = "startup"
  /\ \A i \in DOMAIN printed : printed[i] = "startup"
  /\ Len(printed) <= MaxLen
  /\ ~record => messages = <<>> /\ printed = <<>>
=============================================================================
