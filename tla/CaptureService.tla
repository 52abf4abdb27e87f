--------------------------- MODULE CaptureService ---------------------------
(***************************************************************************)
(* The capture service inside the sandbox: the request loop of             *)
(* tools/service.py (serve_with_log), the supervisor of one capture        *)
(* (tools/capture.py, collect), the helper process group it spawns, the    *)
(* vendor daemon as DaemonMonitor.check sees it, and the clients.          *)
(*                                                                         *)
(* The service is one thread; everything else runs at any time.  A pipe    *)
(* holds blocks, not bytes: a well-formed image is FrameBlocks blocks on   *)
(* stdout.  The module starts where the service has begun to listen; what  *)
(* comes before is DaemonMonitor.tla.                                      *)
(***************************************************************************)
EXTENDS Integers, Sequences, FiniteSets

Bytes   == {"S", "C", "X"}     \* status, capture, anything else
Answers == {"ready", "error", "part", "frame"}
Pipes   == {"stdout", "stderr"}

CONSTANTS
  Clients,      \* processes that connect to the socket, each once
  Backlog,      \* connections the kernel queues for a listener of listen(1)
  FrameBlocks,  \* blocks in the helper's complete image
  LimitBlocks,  \* blocks collect accepts from one pipe
  MaxBlocks,    \* bound: blocks written to each pipe
  Descendants,  \* processes the helper may fork
  Words,        \* what a client may send: its command and whatever follows
  NoClient      \* no connection is being served

ASSUME ServiceAssumption ==
  /\ IsFiniteSet(Clients) /\ NoClient \notin Clients
  /\ Backlog \in Nat \ {0}
  /\ FrameBlocks \in Nat \ {0} /\ LimitBlocks \in Nat
  /\ FrameBlocks <= LimitBlocks /\ MaxBlocks \in [Pipes -> Nat]
  /\ "helper" \notin Descendants
  /\ Words \subseteq Seq(Bytes)

Keys  == Pipes \cup {"cancel"}          \* what collect's selector may watch
Procs == {"helper"} \cup Descendants    \* the helper's process group

Collecting == {"head", "events", "wait", "cleanup"}     \* inside collect
Places == {"loop", "accept", "recv", "dispatch", "send", "except", "close",
           "exited"} \cup Collecting

VARIABLES
  pc,       \* where the service stands
  cur,      \* the client whose connection is being served
  served,   \* clients whose connection the loop has closed
  stopped,  \* SIGTERM or SIGINT has been handled
  daemon,   \* is a process DaemonMonitor watches alive?
  backlog,  \* connections waiting for accept
  client,   \* each client: "new", "open", "sent", "closed"
  inbox,    \* what each client has sent and the service has not read
  reply,    \* what each client has been sent, in order
  group,    \* live processes of the helper's group
  code,     \* exit status of the helper: "none" before it ends
  good,     \* does what the helper writes on stdout decode as an image?
  holders,  \* for each pipe, the processes that hold its write end
  written,  \* for each pipe, the blocks written to it
  got,      \* for each pipe, the blocks collect has read
  watched,  \* the selector's map
  ready,    \* events of the last select not yet handled
  expired,  \* collect's deadline has passed
  outcome   \* what collect is about to return or raise

world   == <<stopped, daemon, backlog, client>>
helper  == <<group, code, good, holders, written>>
collect == <<got, watched, ready, outcome>>
vars == <<pc, cur, served, world, inbox, reply, helper, collect, expired>>

Init ==
  /\ pc = "loop" /\ cur = NoClient /\ served = {}
  /\ stopped = FALSE /\ daemon = "live"
  /\ backlog = <<>> /\ client = [c \in Clients |-> "new"]
  /\ inbox = [c \in Clients |-> <<>>] /\ reply = [c \in Clients |-> <<>>]
  /\ group = {} /\ code = "none" /\ good = FALSE
  /\ holders = [f \in Pipes |-> {}]
  /\ written = [f \in Pipes |-> 0] /\ got = [f \in Pipes |-> 0]
  /\ watched = {} /\ ready = {} /\ expired = FALSE /\ outcome = "none"

-----------------------------------------------------------------------------
(* The service: one action per step of serve_with_log's loop.              *)

\* A step of the service that only moves on.
Jump(from, to) ==
  /\ pc = from /\ pc' = to
  /\ UNCHANGED <<cur, served, world, inbox, reply, helper, collect, expired>>

\* What belongs to one capture and means nothing between two requests.
Forget ==
  /\ code' = "none" /\ good' = FALSE /\ outcome' = "none" /\ expired' = FALSE
  /\ written' = [f \in Pipes |-> 0] /\ got' = [f \in Pipes |-> 0]

\* The PID namespace ends with the service: nobody in it survives.
Shutdown ==
  /\ pc' = "exited" /\ cur' = NoClient
  /\ daemon' = "dead" /\ group' = {} /\ holders' = [f \in Pipes |-> {}]
  /\ ready' = {} /\ watched' = {} /\ Forget
  /\ UNCHANGED <<served, stopped, backlog, client, inbox, reply>>

\* `while not stopped` ends, or the check at its head raises out of serve.
LoopEnds == pc = "loop" /\ (stopped \/ daemon = "dead") /\ Shutdown

\* Wrong: the readiness marker is trusted for the whole life of the service.
LoopTrustsMarker == ~stopped /\ Jump("loop", "accept")

LoopContinues == ~stopped /\ daemon = "live" /\ Jump("loop", "accept")

\* accept returns a queued connection, even one its client has left.
Accept ==
  /\ pc = "accept" /\ backlog # <<>>
  /\ cur' = Head(backlog) /\ backlog' = Tail(backlog)
  /\ pc' = "recv"
  /\ UNCHANGED <<served, stopped, daemon, client, inbox, reply, helper,
                 collect, expired>>

AcceptTimeout == backlog = <<>> /\ Jump("accept", "loop")

\* recv(1) returns a byte, or nothing when the client has gone; after five
\* seconds of silence it raises.
Heard == inbox[cur] # <<>> \/ client[cur] = "closed"
Recv == Jump("recv", "dispatch") /\ Heard

\* Wrong: a time-out that leaves the handler and closes without a word.
RecvTimeoutSilent == Jump("recv", "close") /\ ~Heard
\* Wrong: no settimeout(5) on the connection.
RecvForever == FALSE /\ Jump("recv", "except")

RecvTimeout == Jump("recv", "except") /\ ~Heard

Command == IF inbox[cur] = <<>> THEN "" ELSE Head(inbox[cur])
Consumed ==
  inbox' = IF inbox[cur] = <<>> THEN inbox
           ELSE [inbox EXCEPT ![cur] = Tail(@)]

\* monitor.check() raises, or collect's Popen does: the client is told.
DispatchFails ==
  /\ pc = "dispatch" /\ (daemon = "dead" \/ Command = "C")
  /\ pc' = "except" /\ Consumed
  /\ UNCHANGED <<cur, served, world, reply, helper, collect, expired>>

\* Status, or a command the service does not know: one short answer.
DispatchAnswer ==
  /\ pc = "dispatch" /\ daemon = "live" /\ Command # "C" /\ Consumed
  /\ IF client[cur] = "closed"
     THEN pc' = "except" /\ UNCHANGED reply
     ELSE LET answer == IF Command = "S" THEN "ready" ELSE "error"
          IN /\ reply' = [reply EXCEPT ![cur] = Append(@, answer)]
             /\ pc' = "close"
  /\ UNCHANGED <<cur, served, world, helper, collect, expired>>

\* collect starts the helper and registers its pipes and the connection.
Start(keys) ==
  /\ pc = "dispatch" /\ daemon = "live" /\ Command = "C" /\ Consumed
  /\ pc' = "head"
  /\ group' = {"helper"} /\ code' = "none" /\ good' \in BOOLEAN
  /\ holders' = [f \in Pipes |-> {"helper"}]
  /\ written' = [f \in Pipes |-> 0] /\ got' = [f \in Pipes |-> 0]
  /\ watched' = keys /\ ready' = {}
  /\ expired' = FALSE /\ outcome' = "none"
  /\ UNCHANGED <<cur, served, world, reply>>

\* Wrong: the connection is not registered with the selector.
DispatchNoCancel == Start(Pipes)

DispatchCapture == Start(Keys)

-----------------------------------------------------------------------------
(* collect                                                                 *)

\* An exception in collect's try: on to its finally.
Raise ==
  /\ outcome' = "error" /\ pc' = "cleanup" /\ ready' = {}
  /\ UNCHANGED <<cur, served, world, inbox, reply, helper, watched, expired>>

PipesOpen == watched \cap Pipes # {}
HeadDone == ~PipesOpen /\ Jump("head", "wait")

\* health_check() raises, or no time remains.
HeadRaises ==
  /\ pc = "head" /\ PipesOpen /\ (daemon = "dead" \/ expired)
  /\ Raise /\ UNCHANGED got

Readable(k) ==
  IF k = "cancel" THEN Heard ELSE got[k] < written[k] \/ holders[k] = {}

\* All is well: select returns what is readable, after .2 s perhaps nothing.
HeadSelects ==
  /\ pc = "head" /\ PipesOpen /\ daemon = "live" /\ ~expired
  /\ ready' = {k \in watched : Readable(k)}
  /\ pc' = "events"
  /\ UNCHANGED <<cur, served, world, inbox, reply, helper, got, watched,
                 outcome, expired>>

EventsDone == ready = {} /\ Jump("events", "head")

\* The client has gone, or has sent more than its command.
EventCancel == pc = "events" /\ "cancel" \in ready /\ Raise /\ UNCHANGED got

\* os.read returns n blocks: they are kept unless they exceed the limit.
EventRead ==
  /\ pc = "events"
  /\ \E f \in ready \cap Pipes : \E n \in 1..(written[f] - got[f]) :
       IF got[f] + n > LimitBlocks
       THEN Raise /\ UNCHANGED got
       ELSE /\ got' = [got EXCEPT ![f] = @ + n]
            /\ ready' = ready \ {f}
            /\ UNCHANGED <<pc, cur, served, world, inbox, reply, helper,
                           watched, outcome, expired>>

\* os.read returns nothing: every holder has closed the pipe.
EventEOF ==
  /\ pc = "events"
  /\ \E f \in ready \cap Pipes :
       /\ got[f] = written[f] /\ holders[f] = {}
       /\ watched' = watched \ {f} /\ ready' = ready \ {f}
  /\ UNCHANGED <<pc, cur, served, world, inbox, reply, helper, got, outcome,
                 expired>>

\* decode accepts exactly the header and the pixels it announces.
Decodes == good /\ got["stdout"] = FrameBlocks

Waited(success) ==
  /\ pc = "wait" /\ code # "none"
  /\ outcome' = IF success /\ Decodes THEN "frame" ELSE "error"
  /\ pc' = "cleanup"
  /\ UNCHANGED <<cur, served, world, inbox, reply, helper, got, watched,
                 ready, expired>>

\* Wrong: the exit status is not looked at.
WaitIgnoresStatus == Waited(TRUE)

\* proc.wait returned: a non-zero status raises, else decode may.
WaitExited == Waited(code = "ok")

\* The helper closed its pipes but does not end: "Capture cleanup timed out".
WaitTimeout ==
  pc = "wait" /\ code = "none" /\ expired /\ Raise /\ UNCHANGED got

Finally(killed) ==
  /\ pc = "cleanup"
  /\ group' = group \ killed
  /\ holders' = [f \in Pipes |-> holders[f] \ killed]
  /\ code' = IF code = "none" THEN "fail" ELSE code
  /\ watched' = {}
  /\ pc' = IF outcome = "frame" THEN "send" ELSE "except"
  /\ UNCHANGED <<cur, served, world, inbox, reply, good, written, got, ready,
                 outcome, expired>>

\* Wrong: the helper alone is killed, not its group.
CleanupHelperOnly == Finally({"helper"})

\* The observer's exception is swallowed; then the whole group is killed,
\* whatever happened before, and the helper is waited for.
Cleanup == Finally(Procs)

-----------------------------------------------------------------------------
(* The answer                                                              *)

\* Wrong: a complete answer falls through into the error handler.
SendThenError ==
  /\ pc = "send" /\ pc' = "except"
  /\ IF client[cur] = "closed" THEN UNCHANGED reply
     ELSE reply' = [reply EXCEPT ![cur] = Append(@, "frame")]
  /\ UNCHANGED <<cur, served, world, inbox, helper, collect, expired>>

\* sendall of the frame: all of it, or a part of it before the time-out of a
\* client that does not read, or an error because the client has gone.
Send ==
  /\ pc = "send"
  /\ IF client[cur] = "closed"
     THEN pc' = "except" /\ UNCHANGED reply
     ELSE \E sent \in {"frame", "part"} :
            /\ reply' = [reply EXCEPT ![cur] = Append(@, sent)]
            /\ pc' = IF sent = "frame" THEN "close" ELSE "except"
  /\ UNCHANGED <<cur, served, world, inbox, helper, collect, expired>>

\* except: try to send ERROR.  A client that has gone gets nothing, and one
\* whose buffer a partial frame filled may not get it either.
Except ==
  /\ pc = "except" /\ pc' = "close"
  /\ \/ /\ client[cur] # "closed"
        /\ reply' = [reply EXCEPT ![cur] = Append(@, "error")]
     \/ /\ client[cur] = "closed" \/ reply[cur] # <<>>
        /\ UNCHANGED reply
  /\ UNCHANGED <<cur, served, world, inbox, helper, collect, expired>>

\* `with connection` closes it; what was local to collect is forgotten.
Close ==
  /\ pc = "close" /\ pc' = "loop"
  /\ served' = served \cup {cur} /\ cur' = NoClient
  /\ Forget
  /\ UNCHANGED <<world, inbox, reply, group, holders, watched, ready>>

-----------------------------------------------------------------------------
(* What runs beside the service                                            *)

service == <<pc, cur, served, reply, collect>>

\* The helper may fork; the descendant inherits the pipes it has open.
Fork(d) ==
  /\ "helper" \in group /\ d \notin group
  /\ group' = group \cup {d}
  /\ holders' = [f \in Pipes |-> IF "helper" \in holders[f]
                                 THEN holders[f] \cup {d} ELSE holders[f]]
  /\ UNCHANGED <<service, world, inbox, code, good, written, expired>>

Write(p, f) ==
  /\ p \in holders[f] /\ written[f] < MaxBlocks[f]
  /\ written' = [written EXCEPT ![f] = @ + 1]
  /\ UNCHANGED <<service, world, inbox, group, code, good, holders, expired>>

ClosePipe(p, f) ==
  /\ p \in holders[f]
  /\ holders' = [holders EXCEPT ![f] = @ \ {p}]
  /\ UNCHANGED <<service, world, inbox, group, code, good, written, expired>>

Exit(p) ==
  /\ p \in group
  /\ group' = group \ {p}
  /\ holders' = [f \in Pipes |-> holders[f] \ {p}]
  /\ IF p = "helper" THEN code' \in {"ok", "fail"} ELSE UNCHANGED code
  /\ UNCHANGED <<service, world, inbox, good, written, expired>>

DaemonDies ==
  /\ daemon = "live" /\ daemon' = "dead"
  /\ UNCHANGED <<service, stopped, backlog, client, inbox, helper, expired>>

\* The clock passes collect's deadline.
DeadlinePasses ==
  /\ pc \in Collecting \ {"cleanup"} /\ ~expired
  /\ expired' = TRUE
  /\ UNCHANGED <<service, world, inbox, helper>>

\* SIGTERM or SIGINT: the handler only sets a flag.
Stop ==
  /\ pc # "exited" /\ ~stopped
  /\ stopped' = TRUE
  /\ UNCHANGED <<service, daemon, backlog, client, inbox, helper, expired>>

\* The launcher or systemd kills the sandbox.
Kill == pc # "exited" /\ Shutdown

Connect(c) ==
  /\ client[c] = "new" /\ pc # "exited" /\ Len(backlog) < Backlog
  /\ client' = [client EXCEPT ![c] = "open"]
  /\ backlog' = Append(backlog, c)
  /\ UNCHANGED <<service, stopped, daemon, inbox, helper, expired>>

SendCommand(c) ==
  /\ client[c] = "open" /\ c \notin served
  /\ client' = [client EXCEPT ![c] = "sent"]
  /\ \E w \in Words : inbox' = [inbox EXCEPT ![c] = w]
  /\ UNCHANGED <<service, stopped, daemon, backlog, helper, expired>>

\* The client has its answer, timed out, was cancelled or died.
Leave(c) ==
  /\ client[c] \in {"open", "sent"}
  /\ client' = [client EXCEPT ![c] = "closed"]
  /\ UNCHANGED <<service, stopped, daemon, backlog, inbox, helper, expired>>

-----------------------------------------------------------------------------
Serve ==
  \/ LoopEnds \/ LoopContinues \/ Accept \/ AcceptTimeout
  \/ Recv \/ RecvTimeout \/ DispatchFails \/ DispatchAnswer \/ DispatchCapture
  \/ HeadDone \/ HeadRaises \/ HeadSelects
  \/ EventsDone \/ EventCancel \/ EventRead \/ EventEOF
  \/ WaitExited \/ WaitTimeout \/ Cleanup
  \/ Send \/ Except \/ Close

Environment ==
  \/ \E d \in Descendants : Fork(d)
  \/ \E p \in Procs, f \in Pipes : Write(p, f) \/ ClosePipe(p, f)
  \/ \E p \in Procs : Exit(p)
  \/ DaemonDies \/ DeadlinePasses \/ Stop \/ Kill
  \/ \E c \in Clients : Connect(c) \/ SendCommand(c) \/ Leave(c)

Next == Serve \/ Environment

Spec == Init /\ [][Next]_vars

\* The service's thread runs and its clock advances; nothing is assumed of
\* the clients, the helper or the daemon.
FairSpec == Spec /\ WF_vars(Serve) /\ WF_vars(DeadlinePasses)

\* The same without the clock: what the service does before any deadline.
NoClockSpec == Spec /\ WF_vars(Serve)

-----------------------------------------------------------------------------
\* Types: the selector's events are of descriptors it still watches, and only
\* known answers are sent.
TypeOK ==
  /\ pc \in Places /\ cur \in Clients \cup {NoClient} /\ served \subseteq Clients
  /\ stopped \in BOOLEAN /\ daemon \in {"live", "dead"}
  /\ backlog \in Seq(Clients)
  /\ client \in [Clients -> {"new", "open", "sent", "closed"}]
  /\ inbox \in [Clients -> Seq(Bytes)]
  /\ reply \in [Clients -> Seq(Answers)]
  /\ group \subseteq Procs /\ code \in {"none", "ok", "fail"}
  /\ good \in BOOLEAN /\ holders \in [Pipes -> SUBSET Procs]
  /\ written \in [Pipes -> Nat] /\ got \in [Pipes -> Nat]
  /\ watched \subseteq Keys /\ ready \subseteq watched
  /\ expired \in BOOLEAN /\ outcome \in {"none", "frame", "error"}

\* No process of a helper's group outlives the capture it was started for:
\* collect's finally kills the group, whichever way collect ends, before the
\* client is answered, and shutting down takes it with the namespace.
HelperConfined == group # {} => pc \in Collecting /\ cur \in Clients

\* What is sent as an image is the helper's whole output and nothing was left
\* in the pipe, it has the length its header says, and the helper ended by
\* itself with status 0: an image of a helper that crashed, timed out or was
\* cut short never reaches a client.
ImageIsWhole ==
  pc = "send" => /\ got["stdout"] = FrameBlocks
                 /\ written["stdout"] = FrameBlocks
                 /\ good /\ code = "ok"

\* serve_with_log never closes a connection without a word to a client that
\* still listens: every failure on the way (no command, the daemon gone, the
\* helper not started, failed or late) ends in an answer.
NoSilentClose ==
  \A c \in served : reply[c] = <<>> => client[c] = "closed"

\* The abstract service: the sensor is leased to one request at a time.
Phase(c) ==
  CASE reply[c] # <<>> -> "answered"
    [] reply[c] = <<>> /\ (pc = "exited" \/ c \in served) -> "over"
    [] reply[c] = <<>> /\ pc # "exited" /\ c \notin served ->
         IF c = cur /\ pc \in Collecting THEN "held"
         ELSE IF c = cur /\ pc = "send" THEN "taken"
         ELSE IF c = cur /\ pc \in {"except", "close"} THEN "over" ELSE "idle"

Answer(c) == IF reply[c] = <<>> THEN "none"
             ELSE IF reply[c] = <<"frame">> THEN "image" ELSE "other"

Lease == INSTANCE SensorLease WITH
           phase  <- [c \in Clients |-> Phase(c)],
           answer <- [c \in Clients |-> Answer(c)]

\* The loop, collect and the clients together implement SensorLease: requests
\* take the sensor one at a time, an image goes only to the request that took
\* it, and only after the sensor is free again, and an answer is never revised.
LeaseSpec == Lease!Spec

-----------------------------------------------------------------------------
\* Every connection the kernel has queued is closed, or the service ends: a
\* mute client, a hung helper or a daemon that dies delays it, no more.
EveryConnectionEnds ==
  \A c \in Clients :
    (c = cur \/ \E i \in DOMAIN backlog : backlog[i] = c)
      ~> (c \in served \/ pc = "exited")

\* Without a live daemon the service does not stay up behind its readiness
\* marker, and SIGTERM, whose handler only sets a flag that the loop reads
\* between two requests, ends it: wherever they find the service, it ends.
ServiceEnds == (stopped \/ daemon = "dead") ~> (pc = "exited")

\* A client that leaves while its helper's pipes are open frees the sensor
\* without waiting for the 35 seconds to pass.
LeavingFreesSensor ==
  \A c \in Clients :
    (c = cur /\ pc \in {"head", "events"} /\ client[c] = "closed")
      ~> (group = {} \/ pc = "wait")
=============================================================================
