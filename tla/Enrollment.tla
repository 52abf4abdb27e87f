----------------------------- MODULE Enrollment -----------------------------
(***************************************************************************)
(* Two programs that enroll a finger through the same fprintd: the guide   *)
(* of tools/enroll.py, which calls and then listens, and a job of          *)
(* regis/backend.py, whose calls and signals are all callbacks.  What the  *)
(* module is about is how either makes prompts, an end and a report out of *)
(* fprintd's signals.  Registry.tla has the rest of the back end.          *)
(*                                                                         *)
(* fprintd and the bus are external.  A status is sent when it happens;    *)
(* finger-needed is a property, whose change is told some time later and   *)
(* not at all if it has changed back, but before an enrollment starts; both *)
(* go to every program that has a proxy, whoever is enrolling.  Each       *)
(* program enrolls once.                                                   *)
(***************************************************************************)
EXTENDS Naturals, Sequences

Programs == {"guide", "regis"}
Nobody == "nobody"

CONSTANT
  Setups  \* the programs that run, the reader's num-enroll-stages, and a
          \* bound: the scans that have to be made again

ASSUME EnrollmentAssumption ==
  Setups \subseteq [here : SUBSET Programs, stages : Nat \ {0}, retries : Nat]

VARIABLES
  setup,    \* one of Setups
  owner,    \* fprintd: who has claimed the reader
  phase,    \* fprintd: "off", or where the owner's enrollment stands
  level,    \* fprintd: stages passed in it
  retries,  \* fprintd: scans it has refused
  told,     \* fprintd: finger-needed as last sent
  stored,   \* fprintd: programs whose finger has been enrolled
  calls,    \* each program's calls that fprintd has not read
  wire,     \* what the bus has brought each program's main context
  answer,   \* the reply to the guide's synchronous call
  at,       \* where each program stands
  view,     \* what each knows of its enrollment and has said about it
  result,   \* how each has ended
  done, completed,     \* Guide.done and Guide.completed
  quit, interrupted,   \* loop.quit() has been called; enroll's interrupted
  due,      \* messages left in this iteration of the guide's main loop
  sigint,   \* Ctrl+C the guide's main loop has not seen
  late,     \* a call of the guide has timed out
  cancel, terminal     \* job['cancel'], and job['terminal']: "none", "yes", "no"

reader == <<owner, phase, level, retries, stored>>
bus    == <<calls, wire, answer>>
loop   == <<done, completed, quit, interrupted, due, sigint, late>>
job    == <<cancel, terminal>>
vars == <<setup, reader, told, bus, at, view, result, loop, job>>

\* Waiting for Enter or a click; in a call; in the main loop; finished.
Pending == {"claim", "start"}
Ending  == {"stop", "release"}
Places  == {"absent", "ready", "run", "over"} \cup Pending \cup Ending

Calls    == {"Claim", "EnrollStart", "EnrollStop", "Release"}
Statuses == {"passed", "retry", "completed", "failed"}
Needed(on) == [kind |-> "needed", value |-> IF on THEN "yes" ELSE "no"]
Status(s)  == [kind |-> "status", value |-> s]
Reply(ok)  == [kind |-> "reply", value |-> IF ok THEN "ok" ELSE "error"]

Messages == {Needed(b) : b \in BOOLEAN} \cup {Status(s) : s \in Statuses}
            \cup {Reply(b) : b \in BOOLEAN}

Fresh == [passed |-> 0, attempt |-> 0, token |-> <<>>, needed |-> FALSE,
          asked |-> 0, swipe |-> FALSE]

Init ==
  /\ setup \in Setups
  /\ owner = Nobody /\ phase = "off" /\ level = 0 /\ retries = 0
  /\ told = FALSE /\ stored = {}
  /\ calls = [p \in Programs |-> <<>>] /\ wire = [p \in Programs |-> <<>>]
  /\ answer = "none"
  /\ at = [p \in Programs |-> IF p \in setup.here THEN "ready" ELSE "absent"]
  /\ view = [p \in Programs |-> Fresh]
  /\ result = [p \in Programs |-> "none"]
  /\ done = FALSE /\ completed = FALSE /\ quit = FALSE /\ interrupted = FALSE
  /\ due = 0 /\ sigint = FALSE /\ late = FALSE
  /\ cancel = FALSE /\ terminal = "none"

-----------------------------------------------------------------------------
(* fprintd and the bus (external)                                          *)

\* A guide that has left its loop is deaf, and a job that is ending ignores
\* what it hears.
Listens(p) == at[p] \notin {"absent", "over"} \cup Ending
Broadcast(m) ==
  wire' = [p \in Programs |-> IF Listens(p) THEN Append(wire[p], m) ELSE wire[p]]

Able(p, m) == CASE m = "Claim"       -> owner = Nobody
                [] m = "EnrollStart" -> owner = p /\ phase = "off"
                [] m = "EnrollStop"  -> owner = p /\ phase # "off"
                [] m = "Release"     -> owner = p

\* fprintd carries out a call, if it can and is not refused the authorization.
Read(p) ==
  /\ calls[p] # <<>> /\ calls' = [calls EXCEPT ![p] = Tail(@)]
  /\ LET m == Head(calls[p]) IN
     \E ok \in BOOLEAN :
       /\ ok => Able(p, m)
       /\ m = "EnrollStart" => told = (phase = "wait")
       /\ ok \/ ~Able(p, m) \/ m \in {"Claim", "EnrollStart"}
       /\ owner' = IF ok /\ m = "Claim" THEN p
                   ELSE IF ok /\ m = "Release" THEN Nobody ELSE owner
       /\ phase' = IF ok /\ m = "EnrollStart" THEN "lift"
                   ELSE IF ok /\ m \in {"EnrollStop", "Release"} THEN "off" ELSE phase
       /\ level' = IF ok /\ m = "EnrollStart" THEN 0 ELSE level
       /\ IF p = "regis"
          THEN wire' = [wire EXCEPT ![p] = Append(@, Reply(ok))] /\ UNCHANGED answer
          ELSE /\ UNCHANGED wire   \* a reply nobody waits for is dropped
               /\ answer' = IF Len(calls[p]) = 1 /\ at[p] # "over"
                            THEN Reply(ok).value ELSE answer
  /\ UNCHANGED <<setup, retries, told, stored, at, view, result, loop, job>>

\* The finger is off the reader; it is asked for; it is on the reader.
Arm == phase = "lift" /\ phase' = "wait"
       /\ UNCHANGED <<setup, owner, level, retries, told, stored, bus, at, view, result, loop, job>>
Touch == phase = "wait" /\ phase' = "read"
         /\ UNCHANGED <<setup, owner, level, retries, told, stored, bus, at, view, result, loop, job>>

Tell == /\ told # (phase = "wait") /\ told' = ~told
        /\ Broadcast(Needed(~told))
        /\ UNCHANGED <<setup, reader, calls, answer, at, view, result, loop, job>>

\* A scan ends, or the enrollment fails.
Scanned(s) ==
  /\ \/ phase = "read"
     \/ s = "failed" /\ phase \in {"lift", "wait"}
  /\ s = "passed" => level < setup.stages - 1
  /\ s = "completed" => level = setup.stages - 1
  /\ s = "retry" => retries < setup.retries
  /\ phase' = IF s \in {"passed", "retry"} THEN "lift" ELSE "done"
  /\ level' = IF s = "passed" THEN level + 1 ELSE level
  /\ retries' = IF s = "retry" THEN retries + 1 ELSE retries
  /\ stored' = IF s = "completed" THEN stored \cup {owner} ELSE stored
  /\ Broadcast(Status(s))
  /\ UNCHANGED <<setup, owner, told, calls, answer, at, view, result, loop, job>>

\* A process that has ended leaves the bus, and fprintd frees its reader.
Vanish == /\ at["guide"] = "over" /\ owner = "guide" /\ calls["guide"] = <<>>
          /\ owner' = Nobody /\ phase' = "off"
          /\ UNCHANGED <<setup, level, retries, told, stored, bus, at, view, result, loop, job>>

-----------------------------------------------------------------------------
(* Prompts, which both programs make in the same way: one for each stage   *)
(* and attempt, as soon as a finger is needed for it.                      *)

Token(v) == <<v.passed, v.attempt>>

\* Wrong: prompts whenever a finger is needed.
PromptAgain(v, open) ==
  IF v.needed /\ open
  THEN [v EXCEPT !.token = Token(v), !.asked = @ + 1, !.swipe = TRUE] ELSE v

\* Guide.finger_needed and Registry._prompt
Prompt(v, open) ==
  IF v.needed /\ open /\ v.token # Token(v)
  THEN [v EXCEPT !.token = Token(v), !.asked = @ + 1, !.swipe = TRUE] ELSE v

\* finger_needed and _properties
OnNeeded(v, value, open) == Prompt([v EXCEPT !.needed = value = "yes"], open)

\* Wrong: leaves the prompt to the next change of finger-needed.
OnProgressWaits(v, s, open) ==
  IF s = "passed" THEN [v EXCEPT !.passed = @ + 1, !.swipe = FALSE]
  ELSE [v EXCEPT !.attempt = @ + 1, !.swipe = FALSE]

\* A stage has passed or is to be made again: the new one may be due already.
OnProgress(v, s, open) ==
  Prompt(IF s = "passed" THEN [v EXCEPT !.passed = @ + 1, !.swipe = FALSE]
         ELSE [v EXCEPT !.attempt = @ + 1, !.swipe = FALSE], open)

Progress == {"passed", "retry"}
Quiet(v) == [v EXCEPT !.swipe = FALSE]

-----------------------------------------------------------------------------
(* tools/enroll.py.  Its calls are synchronous and run no handlers; what   *)
(* the bus brings meanwhile, and before, waits for the main loop.          *)

\* The guide goes on to `place`, and makes the call m if there is one.
GuideAt(place, m) ==
  /\ at' = [at EXCEPT !["guide"] = place]
  /\ calls' = IF m = "" THEN calls ELSE [calls EXCEPT !["guide"] = Append(@, m)]
  /\ answer' = "none"

\* Wrong: an EnrollStart that failed leaves the reader claimed.
GuideAfterKeeps(ok) ==
  \/ at["guide"] = "claim" /\ ok /\ GuideAt("start", "EnrollStart") /\ UNCHANGED result
  \/ at["guide"] = "start" /\ ok /\ GuideAt("run", "") /\ UNCHANGED result
  \/ at["guide"] = "stop" /\ GuideAt("release", "Release") /\ UNCHANGED result
  \/ at["guide"] = "release" /\ GuideAt("over", "") /\ UNCHANGED result
  \/ /\ at["guide"] \in Pending /\ ~ok /\ GuideAt("over", "")
     /\ result' = [result EXCEPT !["guide"] = "not"]

\* What it does after a call that returned or failed; an error of Claim or
\* EnrollStart is an exception, and the exit status 1.
GuideAfter(ok) ==
  \/ at["guide"] = "claim" /\ ok /\ GuideAt("start", "EnrollStart") /\ UNCHANGED result
  \/ at["guide"] = "start" /\ ok /\ GuideAt("run", "") /\ UNCHANGED result
  \/ at["guide"] = "stop" /\ GuideAt("release", "Release") /\ UNCHANGED result
  \/ at["guide"] = "release" /\ GuideAt("over", "") /\ UNCHANGED result
  \/ /\ at["guide"] \in Pending /\ ~ok
     /\ result' = [result EXCEPT !["guide"] = "not"]
     /\ IF at["guide"] = "claim" THEN GuideAt("over", "") ELSE GuideAt("release", "Release")

\* A finally that handlers can no longer reach.
Deaf == wire' = IF at'["guide"] \in Ending \cup {"over"}
                THEN [wire EXCEPT !["guide"] = <<>>] ELSE wire

\* Enter has been pressed: the handlers are connected, and Claim is called.
GuideEnter ==
  /\ at["guide"] = "ready" /\ GuideAt("claim", "Claim")
  /\ UNCHANGED <<setup, reader, told, wire, view, result, loop, job>>

GuideReturns ==
  /\ answer # "none" /\ GuideAfter(answer = "ok") /\ Deaf
  /\ UNCHANGED <<setup, reader, told, view, loop, job>>

\* call_sync gives up after 10 seconds; bound: once.
GuideTimeout ==
  /\ ~late /\ at["guide"] \in Pending \cup Ending /\ answer = "none"
  /\ GuideAfter(FALSE) /\ Deaf /\ late' = TRUE
  /\ UNCHANGED <<setup, reader, told, view, done, completed, quit, interrupted, due, sigint, job>>

Guide == at["guide"] = "run"
GuideView(v) == view' = [view EXCEPT !["guide"] = v]

\* cancel: the signal's source is dispatched first in an iteration, and with
\* it all messages that had arrived when the iteration began.
GuideCancel ==
  /\ Guide /\ sigint /\ due = 0 /\ ~quit
  /\ sigint' = FALSE /\ interrupted' = TRUE /\ done' = TRUE /\ quit' = TRUE
  /\ due' \in 0..Len(wire["guide"])
  /\ GuideView(Quiet(view["guide"]))
  /\ UNCHANGED <<setup, reader, told, bus, at, result, completed, late, job>>

\* One message of an iteration, whether or not the loop is to be left after it.
\* A status tells anew whether the enrollment is done.
GuideHandle ==
  /\ Guide /\ wire["guide"] # <<>>
  /\ wire' = [wire EXCEPT !["guide"] = Tail(@)]
  /\ \/ due > 0 /\ due' = due - 1
     \/ due = 0 /\ ~quit /\ ~sigint /\ due' \in 0..(Len(wire["guide"]) - 1)
  /\ LET m == Head(wire["guide"])
         v == view["guide"]
     IN \/ /\ m.kind = "needed" /\ GuideView(OnNeeded(v, m.value, ~done))
           /\ UNCHANGED <<done, completed, quit>>
        \/ /\ m.value \in Progress /\ GuideView(OnProgress(v, m.value, TRUE))
           /\ done' = FALSE /\ UNCHANGED <<completed, quit>>
        \/ /\ m.value \in {"completed", "failed"} /\ GuideView(Quiet(v))
           /\ done' = TRUE /\ quit' = TRUE
           /\ completed' = (completed \/ m.value = "completed")
  /\ UNCHANGED <<setup, reader, told, calls, answer, at, result, interrupted, sigint, late, job>>

\* Wrong: goes on as long as the guide is not done.
GuideLeavesDone ==
  /\ Guide /\ due = 0 /\ done
  /\ GuideAt("stop", "EnrollStop") /\ Deaf
  /\ result' = [result EXCEPT !["guide"] =
       IF interrupted THEN "cancelled" ELSE IF completed THEN "stored" ELSE "not"]
  /\ UNCHANGED <<setup, reader, told, view, loop, job>>

\* loop.run() returns, and the exit status is decided: 130, 0 or 1.
GuideLeaves ==
  /\ Guide /\ due = 0 /\ quit
  /\ GuideAt("stop", "EnrollStop") /\ Deaf
  /\ result' = [result EXCEPT !["guide"] =
       IF interrupted THEN "cancelled" ELSE IF completed THEN "stored" ELSE "not"]
  /\ UNCHANGED <<setup, reader, told, view, loop, job>>

\* Ctrl+C before cancel is connected, while it is, and after it has been
\* removed, when it is fatal.
CtrlC ==
  \/ /\ at["guide"] = "ready" /\ GuideAt("over", "") /\ Deaf
     /\ result' = [result EXCEPT !["guide"] = "cancelled"]
     /\ UNCHANGED <<setup, reader, told, view, loop, job>>
  \/ /\ at["guide"] \in Pending \cup {"run"} /\ ~sigint /\ ~interrupted /\ sigint' = TRUE
     /\ UNCHANGED <<setup, reader, told, bus, at, view, result, done, completed, quit,
                    interrupted, due, late, job>>
  \/ /\ at["guide"] \in Ending /\ GuideAt("over", "")
     /\ result' = [result EXCEPT !["guide"] = "killed"]
     /\ UNCHANGED <<setup, reader, told, wire, view, loop, job>>

-----------------------------------------------------------------------------
(* regis/backend.py                                                        *)

JobView(v) == view' = [view EXCEPT !["regis"] = v]
JobAt(place, m) ==
  /\ at' = [at EXCEPT !["regis"] = place]
  /\ calls' = IF m = "" THEN calls ELSE [calls EXCEPT !["regis"] = Append(@, m)]

JobStart ==
  /\ at["regis"] = "ready" /\ JobAt("claim", "Claim")
  /\ UNCHANGED <<setup, reader, told, wire, answer, view, result, loop, job>>

\* A job that is neither ending nor cancelled; a prompt needs no final status
\* that waits for the reply to a call.
Open == at["regis"] \in Pending \cup {"run"} /\ ~cancel
Prompts == Open /\ terminal = "none"

\* _finish of a job with nothing pending
Finish(success, place, m) ==
  /\ JobAt(place, m)
  /\ result' = [result EXCEPT !["regis"] = IF success THEN "stored" ELSE "not"]

\* claimed, started, release and complete
JobReply(ok) ==
  \/ /\ at["regis"] = "claim" /\ ok /\ ~cancel /\ JobAt("start", "EnrollStart")
     /\ UNCHANGED <<view, result>>
  \/ /\ at["regis"] = "claim" /\ ok /\ cancel /\ Finish(FALSE, "release", "Release")
     /\ UNCHANGED view
  \/ at["regis"] = "claim" /\ ~ok /\ Finish(FALSE, "over", "") /\ UNCHANGED view
  \/ at["regis"] = "start" /\ ~ok /\ Finish(FALSE, "release", "Release") /\ UNCHANGED view
  \/ /\ at["regis"] = "start" /\ ok /\ cancel /\ Finish(FALSE, "stop", "EnrollStop")
     /\ UNCHANGED view
  \/ /\ at["regis"] = "start" /\ ok /\ ~cancel /\ terminal # "none"
     /\ Finish(terminal = "yes", "stop", "EnrollStop") /\ UNCHANGED view
  \/ /\ at["regis"] = "start" /\ ok /\ Prompts /\ JobAt("run", "")
     /\ JobView(Prompt(view["regis"], TRUE)) /\ UNCHANGED result
  \/ at["regis"] = "stop" /\ JobAt("release", "Release") /\ UNCHANGED <<view, result>>
  \/ at["regis"] = "release" /\ JobAt("over", "") /\ UNCHANGED <<view, result>>

\* Wrong: an end that comes before the reply is a success.
JobSignalHopes(s) ==
  \/ ~Open /\ UNCHANGED <<calls, at, view, result, terminal>>
  \/ /\ Open /\ s \in Progress
     /\ JobView(OnProgress(view["regis"], s, Prompts))
     /\ UNCHANGED <<calls, at, result, terminal>>
  \/ /\ Open /\ s \notin Progress /\ at["regis"] \in Pending
     /\ terminal' = "yes" /\ UNCHANGED <<calls, at, view, result>>
  \/ /\ Open /\ s \notin Progress /\ at["regis"] = "run"
     /\ Finish(s = "completed", "stop", "EnrollStop") /\ UNCHANGED <<view, terminal>>

\* _signal
JobSignal(s) ==
  \/ ~Open /\ UNCHANGED <<calls, at, view, result, terminal>>
  \/ /\ Open /\ s \in Progress
     /\ JobView(OnProgress(view["regis"], s, Prompts))
     /\ UNCHANGED <<calls, at, result, terminal>>
  \/ /\ Open /\ s \notin Progress /\ at["regis"] \in Pending
     /\ terminal' = IF s = "completed" THEN "yes" ELSE "no"
     /\ UNCHANGED <<calls, at, view, result>>
  \/ /\ Open /\ s \notin Progress /\ at["regis"] = "run"
     /\ Finish(s = "completed", "stop", "EnrollStop") /\ UNCHANGED <<view, terminal>>

Without(s, i) == IF i = 1 THEN Tail(s) ELSE <<Head(s)>> \o Tail(Tail(s))

\* Messages are handled in their order, except that a signal may overtake the
\* reply in front of it.
JobHandle ==
  /\ at["regis"] \notin {"absent", "over"}
  /\ \E i \in DOMAIN wire["regis"] :
       /\ i = 1 \/ (i = 2 /\ wire["regis"][1].kind = "reply")
       /\ wire' = [wire EXCEPT !["regis"] = Without(@, i)]
       /\ LET m == wire["regis"][i] IN
          \/ m.kind = "reply" /\ JobReply(m.value = "ok") /\ UNCHANGED terminal
          \/ m.kind = "status" /\ JobSignal(m.value)
          \/ /\ m.kind = "needed"
             /\ JobView(IF at["regis"] = "ready" THEN view["regis"]
                        ELSE OnNeeded(view["regis"], m.value, Prompts))
             /\ UNCHANGED <<calls, at, result, terminal>>
  /\ UNCHANGED <<setup, reader, told, answer, loop, cancel>>

\* cancel, and its call of _finish
JobCancel ==
  /\ Open /\ cancel' = TRUE /\ JobView(Quiet(view["regis"]))
  /\ IF at["regis"] = "run" THEN Finish(FALSE, "stop", "EnrollStop") /\ UNCHANGED terminal
     ELSE terminal' = "no" /\ UNCHANGED <<calls, at, result>>
  /\ UNCHANGED <<setup, reader, told, wire, answer, loop>>

-----------------------------------------------------------------------------
Fprintd == \/ \E p \in Programs : Read(p)
           \/ Tell \/ Vanish
Finger  == Arm \/ Touch \/ \E s \in Statuses : Scanned(s)
GuideRuns == GuideReturns \/ GuideCancel \/ GuideHandle \/ GuideLeaves
User == GuideEnter \/ CtrlC \/ JobStart \/ JobCancel

Next == Fprintd \/ Finger \/ GuideRuns \/ GuideTimeout \/ JobHandle \/ User

Spec == Init /\ [][Next]_vars

\* fprintd's and both programs' main loops run; nobody has to swipe.
FairSpec == /\ Spec /\ WF_vars(GuideRuns) /\ WF_vars(JobHandle) /\ WF_vars(Tell)
            /\ \A p \in Programs : WF_vars(Read(p))

-----------------------------------------------------------------------------
Tokens == (Nat \X Nat) \cup {<<>>}
Views == [passed : Nat, attempt : Nat, token : Tokens,
          needed : BOOLEAN, asked : Nat, swipe : BOOLEAN]

\* Types: only a program that has claimed the reader enrolls.
TypeOK ==
  /\ setup \in Setups /\ owner \in Programs \cup {Nobody}
  /\ phase \in {"off", "lift", "wait", "read", "done"}
  /\ phase # "off" => owner # Nobody
  /\ level \in 0..(setup.stages - 1) /\ retries \in 0..setup.retries
  /\ told \in BOOLEAN /\ stored \subseteq Programs
  /\ calls \in [Programs -> Seq(Calls)] /\ wire \in [Programs -> Seq(Messages)]
  /\ answer \in {"none", "ok", "error"}
  /\ at \in [Programs -> Places]
  /\ view \in [Programs -> Views]
  /\ result \in [Programs -> {"none", "stored", "not", "cancelled", "killed"}]
  /\ {done, completed, quit, interrupted, sigint, late, cancel} \subseteq BOOLEAN
  /\ due \in 0..Len(wire["guide"]) /\ terminal \in {"none", "yes", "no"}

\* Nobody is told twice to swipe for the same stage and attempt, in whatever
\* order and however late finger-needed and the statuses are told.
PromptedOnce ==
  \A p \in Programs :
    LET v == view[p]
    IN v.asked <= v.passed + v.attempt + (IF v.token = Token(v) THEN 1 ELSE 0)

\* Whoever waits for a finger, and has heard all that fprintd has to tell, has
\* told the user to swipe, and for the right stage if nobody else has enrolled.
Alone == \E p \in Programs : setup.here = {p}
CaughtUp(p) == /\ at[p] = "run" /\ wire[p] = <<>> /\ owner = p /\ phase = "wait" /\ told
               /\ ~quit /\ ~sigint /\ ~cancel
WaitingIsPrompted ==
  \A p \in Programs : CaughtUp(p) =>
    view[p].swipe /\ (Alone => view[p].passed = level)

\* A program that reports the finger as registered is right, if it is the only
\* one that enrolls.
ReportIsTrue ==
  Alone => \A p \in Programs : result[p] = "stored" => p \in stored

\* The same of the window when the guide enrolls as well: a success the window
\* shows is of the finger it was to enroll.
JobReportIsOwn == result["regis"] = "stored" => "regis" \in stored

\* A program that has ended has stopped and released the reader: only a guide
\* killed in its cleanup, or one whose call timed out, leaves that to fprintd.
ReaderLeftFree ==
  \A p \in Programs : at[p] = "over" /\ owner = p => result[p] = "killed" \/ late

\* Ctrl+C, Avbryt and a final status end the program, although the guide
\* forgets that it is done when a status that is not final comes late.
EnrollmentEnds ==
  /\ (sigint \/ interrupted \/ (owner = "guide" /\ phase = "done")) ~> (at["guide"] = "over")
  /\ (cancel \/ (owner = "regis" /\ phase = "done")) ~> (at["regis"] = "over")
=============================================================================
