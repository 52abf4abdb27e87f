------------------------------ MODULE Registry ------------------------------
(***************************************************************************)
(* The graphical client's back end, regis/backend.py: connecting to the    *)
(* reader, reading registers, and one job (enroll, verify, delete) at a    *)
(* time, all chains of asynchronous D-Bus calls whose callbacks run in one *)
(* main loop, with the window of regis/ui.py: its buttons, the modal       *)
(* dialog of a job, and its closing while a job runs.                      *)
(*                                                                         *)
(* fprintd and the bus are not the repository's.  fprintd reads its calls  *)
(* in order; those that need an authorization wait for the user's answer.  *)
(* The bus keeps the order of messages, but a status signal may be handled *)
(* before the reply that preceded it.  When fprintd disappears the client  *)
(* sees its owner vanish, then an error for every call left unanswered;    *)
(* the next call starts it again.  Nobody else uses the reader, and a      *)
(* register is about one finger: enrolled or not.                          *)
(***************************************************************************)
EXTENDS Integers, Sequences, FiniteSets

CONSTANTS
  Users,        \* users whose register the client shows
  Own,          \* the one who runs it
  TimesOut,     \* methods whose call may end before fprintd answers it
  Refuses,      \* may fprintd or the user refuse a call?
  Closes,       \* may the user close the window while a job runs?
  MaxJobs,      \* bound: jobs started
  MaxConnects,  \* bound: connects started
  MaxRefreshes, \* bound: refreshes, after which the user asks for no more
  MaxDeaths     \* bound: times fprintd disappears

Modes == {"enroll", "verify", "delete"}
StartOf == [enroll |-> "EnrollStart", verify |-> "VerifyStart", delete |-> "Delete"]
Linking == {"Manager", "GetDevices", "Proxy"}
Asking  == {"Claim", "EnrollStart", "VerifyStart", "Delete", "List"}
Methods == Linking \cup Asking \cup {"Stop", "Release"}

Nobody == "nobody"

ASSUME RegistryAssumption ==
  /\ Own \in Users /\ IsFiniteSet(Users) /\ Nobody \notin Users
  /\ TimesOut \subseteq Methods /\ {Refuses, Closes} \subseteq BOOLEAN
  /\ MaxJobs \in Nat /\ MaxConnects \in Nat
  /\ MaxRefreshes \in Nat /\ MaxDeaths \in Nat

NoJob  == [id |-> 0]
NoDialog == [state |-> "none"]
Ready(mode, u) == [state |-> "ready", mode |-> mode, user |-> u]
Running  == [state |-> "running"]
Finished == [state |-> "finished"]
Ended    == [state |-> "ended"]

VARIABLES
  device,    \* self.device: the number of the connect that made it, or 0
  busy,      \* self.busy
  job,       \* self.job
  shown,     \* user['fingers'] of each user: "unknown", "yes", "no"
  dialog,    \* the window's self.dialog and its state; Ended: the program has
  closing,   \* the window's self.closing
  calls,     \* calls whose callback has not run
  inbox,     \* what the bus has delivered and the main loop not handled
  sent,      \* calls fprintd has not read, in order
  asked,     \* calls that wait for an authorization
  claimed,   \* fprintd: the user this client claimed the device for, or Nobody
  action,    \* fprintd: "none", "enroll", "verify", or "done" but not stopped
  stored,    \* fprintd: is the user's finger enrolled?
  count      \* the bounded things so far

gui     == <<dialog, closing>>
client  == <<device, busy, job, shown, gui>>
fprintd == <<claimed, action, stored>>
vars == <<client, calls, inbox, sent, asked, fprintd, count>>

Init ==
  /\ device = 0 /\ busy = FALSE /\ job = NoJob
  /\ shown = [u \in Users |-> "unknown"]
  /\ dialog = NoDialog /\ closing = FALSE
  /\ calls = {} /\ inbox = <<>> /\ sent = <<>> /\ asked = {}
  /\ claimed = Nobody /\ action = "none"
  /\ stored \in [Users -> BOOLEAN]
  /\ count = [jobs |-> 0, connects |-> 0, refreshes |-> 0, deaths |-> 0]

-----------------------------------------------------------------------------
(* Calls and callbacks                                                     *)

\* A call: its method, the number of its chain, the user it is about and,
\* for a refresh, the users still in the queue.
Call(m, id, u, rest) == [m |-> m, id |-> id, user |-> u, rest |-> rest]
JobCall(m, j) == Call(m, j.id, j.user, {})
NoCall == Call("none", 0, Own, {})

\* _call of at most one call.  A proxy calls the owner it knows: while `queue`
\* still holds the news that it is gone, the bus answers with an error.
ReplyTo(c, v) == [kind |-> "reply", call |-> c, value |-> v]
Lost(c, queue) == /\ c.m \notin {"Manager", "Proxy"}
                  /\ \E i \in DOMAIN queue : queue[i].kind = "owner"
Send(new, queue) ==
  \/ new = {} /\ inbox' = queue /\ UNCHANGED sent
  \/ \E c \in new : /\ Lost(c, queue)
                    /\ inbox' = Append(queue, ReplyTo(c, "error")) /\ UNCHANGED sent
  \/ \E c \in new : /\ ~Lost(c, queue)
                    /\ inbox' = queue /\ sent' = Append(sent, c)

\* The user makes the client call; or the main loop runs a callback that does.
Make(new) == Send(new, inbox) /\ calls' = calls \cup new /\ UNCHANGED <<asked, fprintd>>

Msg == Head(inbox)
Arrived(kind) == dialog # Ended /\ inbox # <<>> /\ Msg.kind = kind
Returned(methods) == Arrived("reply") /\ Msg.call.m \in methods
Handle(new) ==
  /\ Send(new, Tail(inbox))
  /\ calls' = (calls \ {Msg.call}) \cup new
  /\ UNCHANGED <<asked, fprintd>>

\* refresh: `users` are read one by one, unless the client is busy or not
\* connected.
RefreshCalls(users, ready) ==
  IF ready /\ users # {}
  THEN {Call("List", count.refreshes + 1, u, users \ {u}) : u \in users}
  ELSE {}

-----------------------------------------------------------------------------
(* connect_device.  The window asks for it only when there is no device    *)
(* and no dialog, which is modal, keeps the user from its buttons.         *)

\* Wrong: leaves the buttons to be pressed while a dialog is open.
IdleNotModal == ~busy

\* The buttons of the window can be pressed: render makes them insensitive
\* while the client is busy.
Idle == dialog = NoDialog /\ ~busy

\* Wrong: does not look at busy.
ConnectTwice ==
  /\ device = 0 /\ dialog = NoDialog /\ count.connects < MaxConnects
  /\ busy' = TRUE
  /\ count' = [count EXCEPT !.connects = @ + 1]
  /\ Make({Call("Manager", count.connects + 1, Own, {})})
  /\ UNCHANGED <<device, job, shown, gui>>

Connect ==
  /\ device = 0 /\ Idle /\ count.connects < MaxConnects
  /\ busy' = TRUE
  /\ count' = [count EXCEPT !.connects = @ + 1]
  /\ Make({Call("Manager", count.connects + 1, Own, {})})
  /\ UNCHANGED <<device, job, shown, gui>>

\* Wrong: a connect that fails leaves the client busy.
FailStaysBusy ==
  /\ device' = 0 /\ busy' = busy /\ Handle({})
  /\ UNCHANGED <<job, shown, gui, count>>

Fail ==
  /\ device' = 0 /\ busy' = FALSE /\ Handle({})
  /\ UNCHANGED <<job, shown, gui, count>>

\* Go on to `next`; only what looks for a device stops a connect that has
\* been overtaken by another.
GoOn(next) ==
  /\ Handle(IF next = "Proxy" /\ Msg.call.id # count.connects THEN {}
            ELSE {Call(next, Msg.call.id, Own, {})})
  /\ UNCHANGED <<client, count>>

\* manager_ready
ManagerReady ==
  /\ Returned({"Manager"})
  /\ IF Msg.value = "ok" THEN GoOn("GetDevices") ELSE Fail

\* listed and next_device: "none" is a list without devices.
DevicesListed ==
  /\ Returned({"GetDevices"})
  /\ IF Msg.value = "ok" \/ (Msg.value = "none" /\ Msg.call.id # count.connects)
     THEN GoOn("Proxy") ELSE Fail

\* device_ready; "none" is a device of another kind, and the only one.  The
\* own register is read at once.
DeviceReady ==
  /\ Returned({"Proxy"})
  /\ \/ /\ Msg.value = "ok"
        /\ device' = Msg.call.id /\ busy' = TRUE
        /\ Handle(RefreshCalls({Own}, TRUE))
        /\ count' = [count EXCEPT !.refreshes = @ + 1]
        /\ UNCHANGED <<job, shown, gui>>
     \/ Msg.value = "none" /\ Msg.call.id # count.connects /\ GoOn("Proxy")
     \/ Msg.value = "none" /\ Msg.call.id = count.connects /\ Fail
     \/ Msg.value = "error" /\ Fail

-----------------------------------------------------------------------------
(* refresh                                                                 *)

Refresh(users) ==
  /\ Idle /\ device # 0 /\ count.refreshes < MaxRefreshes
  /\ busy' = TRUE
  /\ count' = [count EXCEPT !.refreshes = @ + 1]
  /\ \E c \in RefreshCalls(users, TRUE) : Make({c})
  /\ UNCHANGED <<device, job, shown, gui>>

\* The user chooses a user, or asks for one register or for all.
AskForRegisters == Refresh(Users) \/ \E u \in Users : Refresh({u})

\* listed and next_user.  An error shows the register as unknown and drops
\* the queue.
Listed ==
  /\ Returned({"List"})
  /\ LET queue == IF Msg.value = "error" THEN {} ELSE Msg.call.rest
     IN IF queue # {} /\ device # 0
        THEN /\ \E u \in queue :
                  Handle({Call("List", Msg.call.id, u, queue \ {u})})
             /\ UNCHANGED busy
        ELSE Handle({}) /\ busy' = FALSE
  /\ shown' = [shown EXCEPT ![Msg.call.user] =
                 IF Msg.value = "error" THEN "unknown" ELSE Msg.value]
  /\ UNCHANGED <<device, job, gui, count>>

-----------------------------------------------------------------------------
(* start, _finish and the end of a job                                     *)

\* What start asks of the client, and what makes a button of the window
\* sensitive.
Startable(mode, u) ==
  ~busy /\ device # 0 /\ shown[u] = (IF mode = "enroll" THEN "no" ELSE "yes")

\* A button: begin's dialog, or the confirmation of a deletion.
Begin(mode, u) ==
  /\ Idle /\ Startable(mode, u) /\ count.jobs < MaxJobs
  /\ dialog' = Ready(mode, u)
  /\ Make({}) /\ UNCHANGED <<device, busy, job, shown, closing, count>>

Start(mode, u) ==
  /\ dialog = Ready(mode, u) /\ Startable(mode, u) /\ count.jobs < MaxJobs
  /\ dialog' = Running
  /\ busy' = TRUE
  /\ count' = [count EXCEPT !.jobs = @ + 1]
  /\ job' = [id |-> count.jobs + 1, mode |-> mode, user |-> u,
             claimed |-> FALSE, started |-> FALSE, pending |-> TRUE,
             cancel |-> FALSE, ending |-> FALSE, mutation |-> FALSE,
             terminal |-> "none", success |-> FALSE]
  /\ Make({JobCall("Claim", job')})
  /\ UNCHANGED <<device, shown, closing>>

\* start raises: what the button saw has changed.  `done` reads an unknown
\* register again, if the client can.
StartRaises(mode, u) ==
  /\ dialog = Ready(mode, u) /\ ~Startable(mode, u)
  /\ dialog' = Finished
  /\ LET again == RefreshCalls({u}, shown[u] = "unknown" /\ ~busy /\ device # 0)
     IN /\ busy' = (busy \/ again # {})
        /\ count' = IF again = {} THEN count ELSE [count EXCEPT !.refreshes = @ + 1]
        /\ Make(again)
  /\ UNCHANGED <<device, job, shown, closing>>

\* response, to a dialog whose job has not started or is done.
Dismiss ==
  /\ dialog \notin {NoDialog, Running, Ended} /\ dialog' = NoDialog
  /\ Make({}) /\ UNCHANGED <<device, busy, job, shown, closing, count>>

\* done: the dialog says how it went, or a window to be closed is closed and
\* the program ends.
Done == dialog' = (IF closing THEN Ended ELSE Finished) /\ closing' = closing

\* complete, and what `done` does next: a register that is not known is read
\* again.
Complete(j) ==
  LET known == IF j.success /\ j.mode # "verify" THEN "unknown" ELSE shown[j.user]
      again == RefreshCalls({j.user}, ~closing /\ known = "unknown" /\ device # 0)
  IN /\ job' = NoJob /\ Done
     /\ busy' = (again # {})
     /\ shown' = [shown EXCEPT ![j.user] = known]
     /\ count' = IF again = {} THEN count ELSE [count EXCEPT !.refreshes = @ + 1]
     /\ Handle(again)
     /\ UNCHANGED device

\* A callback leaves the job as `j` and makes the calls `new`.
Continue(j, new) ==
  job' = j /\ Handle(new) /\ UNCHANGED <<device, busy, shown, gui, count>>

\* Wrong: releases the reader only after a stop.
FinishNoRelease(j, success) ==
  IF j.ending THEN Continue(j, {})
  ELSE IF j.pending
  THEN Continue([j EXCEPT !.terminal = IF success THEN "yes" ELSE "no"], {})
  ELSE LET e == [j EXCEPT !.ending = TRUE, !.success = success]
       IN IF j.started THEN Continue(e, {JobCall("Stop", j)})
          ELSE Complete(e)

\* _finish: what is still pending decides later; else stop, release and
\* complete, as far as each is needed.
Finish(j, success) ==
  IF j.ending THEN Continue(j, {})
  ELSE IF j.pending
  THEN Continue([j EXCEPT !.terminal = IF success THEN "yes" ELSE "no"], {})
  ELSE LET e == [j EXCEPT !.ending = TRUE, !.success = success]
       IN IF j.started THEN Continue(e, {JobCall("Stop", j)})
          ELSE IF j.claimed THEN Continue(e, {JobCall("Release", j)})
          ELSE Complete(e)

Mine == job # NoJob /\ Msg.call.id = job.id
Stale == Handle({}) /\ UNCHANGED <<client, count>>

\* claimed.  A device that is gone makes the next call raise, and the job
\* stays as it is.
Claimed ==
  /\ Returned({"Claim"})
  /\ \/ ~Mine /\ Stale
     \/ Mine /\ Msg.value = "error" /\ Finish([job EXCEPT !.pending = FALSE], FALSE)
     \/ /\ Mine /\ Msg.value = "ok" /\ job.cancel
        /\ Finish([job EXCEPT !.pending = FALSE, !.claimed = TRUE], FALSE)
     \/ /\ Mine /\ Msg.value = "ok" /\ ~job.cancel
        /\ Continue([job EXCEPT !.claimed = TRUE, !.mutation = job.mode = "delete"],
                    IF device = 0 THEN {} ELSE {JobCall(StartOf[job.mode], job)})

\* started
Started ==
  /\ Returned({"EnrollStart", "VerifyStart", "Delete"})
  /\ LET failed == [job EXCEPT !.pending = FALSE]
         on == [failed EXCEPT !.started = job.mode # "delete"]
     IN \/ ~Mine /\ Stale
        \/ Mine /\ Msg.value = "error" /\ Finish(failed, FALSE)
        \/ Mine /\ Msg.value = "ok" /\ job.cancel /\ Finish(on, FALSE)
        \/ /\ Mine /\ Msg.value = "ok" /\ ~job.cancel
           /\ \/ job.mode = "delete" /\ Finish(on, TRUE)
              \/ /\ job.mode # "delete" /\ job.terminal # "none"
                 /\ Finish(on, job.terminal = "yes")
              \/ job.mode # "delete" /\ job.terminal = "none" /\ Continue(on, {})

\* Wrong: gives up when the stop failed.
StoppedGivesUp ==
  /\ Returned({"Stop"})
  /\ Handle(IF Msg.value = "error" THEN {} ELSE {[Msg.call EXCEPT !.m = "Release"]})
  /\ UNCHANGED <<client, count>>

\* release, after EnrollStop or VerifyStop: whatever it answered, and even
\* if the job is no longer the client's.
Stopped ==
  /\ Returned({"Stop"})
  /\ Handle({[Msg.call EXCEPT !.m = "Release"]})
  /\ UNCHANGED <<client, count>>

\* complete, after Release
Released ==
  /\ Returned({"Release"})
  /\ IF Mine THEN Complete(job) ELSE Stale

\* _signal, for a status that ends the job.
Status ==
  /\ Arrived("status")
  /\ IF job = NoJob THEN Stale
     ELSE IF job.ending \/ job.cancel \/ job.mode # Msg.mode THEN Stale
     ELSE Finish(job, Msg.value = "ok")

\* Wrong: forgets to tell the window of a job that is lost.
OwnerLeavesDialog ==
  /\ Arrived("owner")
  /\ IF device = 0 THEN UNCHANGED client
     ELSE /\ device' = 0 /\ busy' = FALSE /\ job' = NoJob
          /\ shown' = [u \in Users |-> "unknown"] /\ UNCHANGED gui
  /\ Handle({}) /\ UNCHANGED count

\* _owner_changed, of the device in use; `done` finds no device to refresh
\* from.
OwnerChanged ==
  /\ Arrived("owner")
  /\ IF device = 0 THEN UNCHANGED client
     ELSE /\ device' = 0 /\ busy' = FALSE /\ job' = NoJob
          /\ shown' = [u \in Users |-> "unknown"]
          /\ IF job = NoJob THEN UNCHANGED gui ELSE Done
  /\ Handle({}) /\ UNCHANGED count

\* Wrong: cancels a deletion that has been sent.
CancelSentDeletion ==
  /\ job # NoJob /\ ~job.ending /\ ~job.cancel
  /\ LET j == [job EXCEPT !.cancel = TRUE]
     IN IF job.pending
        THEN job' = [j EXCEPT !.terminal = "no"] /\ Make({})
        ELSE job' = [j EXCEPT !.ending = TRUE] /\ Make({JobCall("Stop", job)})
  /\ UNCHANGED <<device, busy, shown, dialog, count>>

\* Wrong: leaves the end to callbacks that may never come.
CancelLater ==
  /\ job # NoJob /\ ~job.ending /\ ~job.mutation /\ ~job.cancel
  /\ job' = [job EXCEPT !.cancel = TRUE] /\ Make({})
  /\ UNCHANGED <<device, busy, shown, dialog, count>>

\* cancel, which changes nothing the second time.  A deletion that has been
\* sent is waited for; what is not pending has been started.
Cancel ==
  /\ job # NoJob /\ ~job.ending /\ ~job.mutation /\ ~job.cancel
  /\ LET j == [job EXCEPT !.cancel = TRUE]
     IN IF job.pending
        THEN job' = [j EXCEPT !.terminal = "no"] /\ Make({})
        ELSE job' = [j EXCEPT !.ending = TRUE] /\ Make({JobCall("Stop", job)})
  /\ UNCHANGED <<device, busy, shown, dialog, count>>

\* The user presses Avbryt.
PressAvbryt == Cancel /\ UNCHANGED closing

\* on_close: the job is cancelled, if it can be, and the window stays until
\* it is done.
Close ==
  /\ Closes /\ job # NoJob /\ ~closing /\ closing' = TRUE
  /\ \/ Cancel
     \/ /\ job.ending \/ job.mutation \/ job.cancel
        /\ Make({}) /\ UNCHANGED <<device, busy, job, shown, dialog, count>>

-----------------------------------------------------------------------------
(* fprintd, the bus and the user's answers (external)                      *)

\* The answer to a call, lost on a client that no longer waits for it.
Waits(c) == c \in calls /\ \A i \in DOMAIN inbox :
                             inbox[i].kind = "reply" => inbox[i].call # c
Answer(c, v) == inbox' = IF Waits(c) THEN Append(inbox, ReplyTo(c, v)) ELSE inbox

Values(m) == {v \in {"ok", "error", "none"} :
                /\ v # "ok" => Refuses
                /\ v = "none" => m \in {"GetDevices", "Proxy"}}

\* fprintd reads a call; those of `Asking` are put to the user.
Read ==
  /\ sent # <<>>
  /\ LET c == Head(sent)
     IN \/ c.m \in Asking /\ asked' = asked \cup {c} /\ UNCHANGED <<inbox, fprintd>>
        \/ /\ c.m \in Linking
           /\ \E v \in Values(c.m) : Answer(c, v)
           /\ UNCHANGED <<asked, fprintd>>
        \/ /\ c.m = "Stop"
           /\ Answer(c, IF action = "none" THEN "error" ELSE "ok")
           /\ action' = "none" /\ UNCHANGED <<asked, claimed, stored>>
        \/ /\ c.m = "Release"
           /\ Answer(c, IF claimed # Nobody THEN "ok" ELSE "error")
           /\ claimed' = Nobody /\ action' = "none" /\ UNCHANGED <<asked, stored>>
  /\ sent' = Tail(sent)
  /\ UNCHANGED <<client, calls, count>>

Enrolled == {u \in Users : stored[u]}

\* The user authorizes a call, and fprintd does what it asks for, if it can.
Grant(c) ==
  /\ c \in asked /\ asked' = asked \ {c}
  /\ \/ /\ c.m = "List" /\ Answer(c, IF stored[c.user] THEN "yes" ELSE "no")
        /\ UNCHANGED fprintd
     \/ /\ c.m = "Claim" /\ claimed = Nobody /\ claimed' = c.user
        /\ Answer(c, "ok") /\ UNCHANGED <<action, stored>>
     \/ /\ c.m \in {"EnrollStart", "VerifyStart"}
        /\ claimed # Nobody /\ action = "none"
        /\ action' = IF c.m = "EnrollStart" THEN "enroll" ELSE "verify"
        /\ Answer(c, "ok") /\ UNCHANGED <<claimed, stored>>
     \/ /\ c.m = "Delete" /\ claimed \in Enrolled
        /\ stored' = [stored EXCEPT ![claimed] = FALSE]
        /\ Answer(c, "ok") /\ UNCHANGED <<claimed, action>>
     \/ /\ \/ c.m = "Claim" /\ claimed # Nobody
           \/ c.m \in {"EnrollStart", "VerifyStart"} /\ (claimed = Nobody \/ action # "none")
           \/ c.m = "Delete" /\ claimed \notin Enrolled
        /\ Answer(c, "error") /\ UNCHANGED fprintd
  /\ UNCHANGED <<client, calls, sent, count>>

\* The user, or fprintd, refuses it.
Refuse(c) ==
  /\ Refuses /\ c \in asked /\ asked' = asked \ {c}
  /\ Answer(c, "error")
  /\ UNCHANGED <<client, calls, sent, fprintd, count>>

\* The scan ends.  The signal may be handled before the reply to the start.
Scan(ok) ==
  /\ action \in {"enroll", "verify"} /\ action' = "done"
  /\ stored' = IF ok /\ action = "enroll" THEN [stored EXCEPT ![claimed] = TRUE] ELSE stored
  /\ LET s == [kind |-> "status", call |-> NoCall, mode |-> action, value |-> IF ok THEN "ok" ELSE "error"]
         n == Len(inbox)
     IN \/ inbox' = Append(inbox, s)
        \/ /\ n > 0 /\ inbox[n].kind = "reply" /\ inbox[n].call.m = StartOf[action]
           /\ inbox' = SubSeq(inbox, 1, n - 1) \o <<s, inbox[n]>>
  /\ UNCHANGED <<client, calls, sent, asked, claimed, count>>

\* The bus library gives up a call, which fprintd will carry out all the same.
Timeout(c) ==
  /\ c.m \in TimesOut /\ Waits(c)
  /\ Answer(c, "error")
  /\ UNCHANGED <<client, calls, sent, asked, fprintd, count>>

\* fprintd disappears; whoever waits for an answer gets an error.
Die ==
  /\ count.deaths < MaxDeaths
  /\ count' = [count EXCEPT !.deaths = @ + 1]
  /\ claimed' = Nobody /\ action' = "none" /\ sent' = <<>> /\ asked' = {}
  /\ LET open == {c \in calls : Waits(c)}
     IN \E s \in [1..Cardinality(open) -> open] :
          /\ \A i, k \in DOMAIN s : s[i] = s[k] => i = k
          /\ inbox' = inbox \o <<[kind |-> "owner", call |-> NoCall]>>
                            \o [i \in DOMAIN s |-> ReplyTo(s[i], "error")]
  /\ UNCHANGED <<client, calls, stored>>

-----------------------------------------------------------------------------
MainLoop ==
  \/ ManagerReady \/ DevicesListed \/ DeviceReady \/ Listed
  \/ Claimed \/ Started \/ Stopped \/ Released \/ Status \/ OwnerChanged

User ==
  \/ Connect
  \/ AskForRegisters
  \/ \E mode \in Modes, u \in Users :
       Begin(mode, u) \/ Start(mode, u) \/ StartRaises(mode, u)
  \/ Dismiss \/ PressAvbryt \/ Close

Decide == \E c \in asked : Grant(c) \/ Refuse(c)

Next ==
  \/ MainLoop
  \/ User
  \/ Read \/ Decide
  \/ \E ok \in BOOLEAN : Scan(ok)
  \/ \E c \in calls : Timeout(c)
  \/ Die

Spec == Init /\ [][Next]_vars

\* The main loop runs, fprintd reads its calls, and every authorization is
\* answered in the end.  Nobody has to press a button or scan a finger.
FairSpec == Spec /\ WF_vars(MainLoop) /\ WF_vars(Read) /\ WF_vars(Decide)

-----------------------------------------------------------------------------
(* Properties                                                              *)

Calls == [m : Methods, id : Nat, user : Users, rest : SUBSET Users]

\* Types: registers are known or not, numbers of chains stay within the bounds,
\* and fprintd scans only for who has claimed the reader.
TypeOK ==
  /\ device \in 0..MaxConnects /\ busy \in BOOLEAN
  /\ job = NoJob \/
       /\ job.id \in 1..MaxJobs /\ job.mode \in Modes /\ job.user \in Users
       /\ {job.claimed, job.started, job.pending, job.cancel, job.ending,
            job.mutation, job.success} \subseteq BOOLEAN
       /\ job.terminal \in {"none", "yes", "no"}
  /\ shown \in [Users -> {"unknown", "yes", "no"}]
  /\ dialog \in {NoDialog, Running, Finished, Ended} \cup {Ready(m, u) : m \in Modes, u \in Users}
  /\ closing \in BOOLEAN
  /\ calls \subseteq Calls /\ asked \subseteq Calls
  /\ \A i \in DOMAIN sent : sent[i] \in Calls
  /\ claimed \in Users \cup {Nobody}
  /\ action \in {"none", "enroll", "verify", "done"}
  /\ action # "none" => claimed # Nobody
  /\ stored \in [Users -> BOOLEAN]

Quiet == job = NoJob /\ calls = {} /\ sent = <<>> /\ asked = {}

\* When the client is done with a job, whatever way it ended, the reader is
\* free for others: no path of cancel, refusal, error or lost service
\* leaves it claimed.
ReaderReleased == Quiet => claimed = Nobody

\* busy is cleared by some callback that is still to come: the client is
\* never busy for good.
BusyHasReason == busy => job # NoJob \/ calls # {}

\* A job that is not scanning waits for an answer, and no call of its own is
\* left that could bring one: it would never end.
Forgotten ==
  /\ job # NoJob /\ (job.pending \/ job.ending)
  /\ ~\E c \in calls : c.id = job.id /\ c.m \notin Linking \cup {"List"}

\* The next handler is claimed, which has to go on to a device that is gone.
DeviceMissing ==
  device = 0 /\ Returned({"Claim"}) /\ Mine /\ Msg.value = "ok" /\ ~job.cancel

\* No callback, button or loss of fprintd forgets a job half way: whatever is
\* refused, lost or given up, a job that waits keeps a call of its own until it
\* is gone.  The one exception is claimed when an overtaken connect has taken
\* self.device away (backend.py:209): the call raises and the job stays.
JobWaits == [][~Forgotten /\ Forgotten' => DeviceMissing]_vars

\* One job at a time: a job that runs is never replaced by another, even if an
\* overtaken connect or a refresh has cleared busy, on which start relies.
JobNotReplaced == [][job # NoJob /\ job' # NoJob => job'.id = job.id]_vars

\* The dialog on the screen is the job's: it never waits for a job that is
\* gone, and no job runs on behind a dialog that says it is done.
DialogIsJobs == dialog = Running <=> job # NoJob

\* A finger shown as registered, which the user may verify or delete, is
\* registered.
OfferedIsStored == Quiet => \A u \in Users : shown[u] = "yes" => stored[u]

\* A finger shown as free is not registered.
FreeIsNotStored == Quiet => \A u \in Users : shown[u] = "no" => ~stored[u]

\* A cancelled job ends, and a window that is to be closed is closed, even if
\* its job is a deletion that cannot be cancelled.
CancelledJobEnds ==
  /\ \A i \in 1..MaxJobs :
       (job # NoJob /\ job.id = i /\ job.cancel) ~> ~(job # NoJob /\ job.id = i)
  /\ closing ~> dialog = Ended

\* Avbryt "releases the reader" (docs/regis.md:35): once a job has been
\* cancelled, the reader stays claimed only while another job runs.
CancelReleases ==
  [](job # NoJob /\ job.cancel => <>[](claimed # Nobody => job # NoJob))

\* Avbryt "stops" a running registration or verification (docs/regis.md:35):
\* a job that has been cancelled is gone some time later.
CancelStops ==
  \A i \in 1..MaxJobs :
    (job # NoJob /\ job.id = i /\ job.cancel) ~> ~(job # NoJob /\ job.id = i)
=============================================================================
