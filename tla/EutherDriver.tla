---------------------------- MODULE EutherDriver ----------------------------
(***************************************************************************)
(* The libfprint driver libfprint/euther_vfs491.c: the two flags it keeps  *)
(* (pending, deactivating), the thread that fetches one image from the     *)
(* capture service, and the main loop that runs everything else.           *)
(*                                                                         *)
(* FpImageDevice is libfprint's, not the repository's: it appears here     *)
(* with what the driver relies on, the order of its state changes and that *)
(* they call back into the driver at once.  A state of the device is named *)
(* on for AWAIT_FINGER_ON and off for AWAIT_FINGER_OFF.  The peer is       *)
(* whatever owns the socket; it sends a header and blocks of pixels.       *)
(***************************************************************************)
EXTENDS Integers

CONSTANTS
  Stages,     \* swipes an action may ask for
  Pixels,     \* blocks in the image a good header announces
  MaxBlocks   \* bound: blocks a peer sends after its header

ASSUME DriverAssumption ==
  Stages \in Nat \ {0} /\ Pixels \in Nat \ {0} /\ MaxBlocks \in Nat

VARIABLES
  state,         \* of the FpImageDevice
  extracting,    \* libfprint looks for minutiae in the last image
  swipes,        \* swipes the action still needs
  pending,       \* self->pending
  deactivating,  \* self->deactivating
  cancelled,     \* self->io_cancel has been triggered
  thread,        \* where capture_thread stands; "none" before and after
  result,        \* what the thread returns: "none", "image", "error"
  peer           \* what the other end of the socket has done so far

flags == <<pending, deactivating, cancelled>>
task  == <<thread, result, peer>>
vars  == <<state, extracting, swipes, flags, task>>

Blocking == {"connect", "credentials", "write", "header", "pixels", "end"}
States   == {"closed", "inactive", "on", "off", "deactivating"}
NewPeer  == [own |-> TRUE, header |-> "none", blocks |-> 0, closed |-> FALSE]

Init ==
  /\ state = "closed" /\ extracting = FALSE /\ swipes = 0
  /\ pending = FALSE /\ deactivating = FALSE /\ cancelled = FALSE
  /\ thread = "none" /\ result = "none" /\ peer = NewPeer

-----------------------------------------------------------------------------
(* The driver's callbacks, each with the value of pending it finds.        *)

\* state_changed to AWAIT_FINGER_ON: a task, unless one is pending.
AwaitFinger(found) ==
  /\ state' = "on"
  /\ IF found THEN UNCHANGED <<flags, task>>
     ELSE /\ pending' = TRUE /\ cancelled' = FALSE
          /\ thread' = "connect" /\ result' = "none" /\ peer' = NewPeer
          /\ UNCHANGED deactivating

\* deactivate: cancel the task and let capture_done complete, or complete.
Deactivate(found) ==
  IF found
  THEN state' = "deactivating" /\ deactivating' = TRUE /\ cancelled' = TRUE
  ELSE state' = "inactive" /\ UNCHANGED <<deactivating, cancelled>>

\* capture_done forgets the task before it calls libfprint.
TaskOver ==
  /\ thread = "returned" /\ thread' = "none"
  /\ pending' = FALSE
  /\ UNCHANGED <<result, peer>>

\* Wrong: a result that is dropped leaves its task pending.
DoneStaysPending ==
  /\ thread = "returned" /\ thread' = "none" /\ deactivating
  /\ deactivating' = FALSE /\ state' = "inactive"
  /\ UNCHANGED <<extracting, swipes, pending, cancelled, result, peer>>

\* Wrong: the flag is not lowered once deactivation is complete.
DoneStaysDeactivating ==
  /\ TaskOver /\ deactivating
  /\ state' = "inactive"
  /\ UNCHANGED <<extracting, swipes, deactivating, cancelled>>

\* The task of a device that is being deactivated: its result is dropped.
DoneDeactivating ==
  /\ TaskOver /\ deactivating
  /\ deactivating' = FALSE /\ state' = "inactive"
  /\ UNCHANGED <<extracting, swipes, cancelled>>

\* Wrong: pending is lowered only after libfprint has been told, so that the
\* deactivate it calls in return finds a task to wait for.
DoneErrorLate ==
  /\ TaskOver /\ ~deactivating /\ result = "error"
  /\ Deactivate(TRUE)
  /\ UNCHANGED <<extracting, swipes>>

\* session_error: libfprint ends the action and deactivates the device, which
\* comes back here before capture_done returns.
DoneError ==
  /\ TaskOver /\ ~deactivating /\ result = "error"
  /\ Deactivate(FALSE)
  /\ UNCHANGED <<extracting, swipes>>

Deliver ==
  /\ TaskOver /\ result = "image"
  /\ state' = "off" /\ extracting' = TRUE
  /\ UNCHANGED <<swipes, deactivating, cancelled>>

\* Wrong: the result is looked at before the flag.
DoneImageFirst == Deliver

\* Finger on, the image, finger off: libfprint extracts minutiae meanwhile.
DoneImage == ~deactivating /\ Deliver

-----------------------------------------------------------------------------
(* libfprint and fprintd                                                   *)

\* device_open completes, or refuses a socket path that is not absolute.
Open ==
  /\ state = "closed"
  /\ state' \in {"inactive", "closed"}
  /\ UNCHANGED <<extracting, swipes, flags, task>>

DeviceClose ==
  /\ state = "inactive" /\ ~extracting
  /\ state' = "closed"
  /\ UNCHANGED <<extracting, swipes, flags, task>>

\* An action begins: activate completes at once, the device awaits a finger.
Activate ==
  /\ state = "inactive" /\ ~extracting
  /\ swipes' \in 1..Stages
  /\ AwaitFinger(pending)
  /\ UNCHANGED extracting

\* The action is cancelled, whatever the device is doing.
Cancel ==
  /\ state \in {"on", "off"}
  /\ Deactivate(pending)
  /\ UNCHANGED <<extracting, swipes, pending, task>>

\* Minutiae are found or not; the next swipe, or the end of the action.
Extracted ==
  /\ extracting /\ extracting' = FALSE
  /\ swipes' \in {swipes, swipes - 1}
  /\ IF state # "off" THEN UNCHANGED <<state, flags, task>>
     ELSE IF swipes' > 0 THEN AwaitFinger(pending)
     ELSE Deactivate(pending) /\ UNCHANGED <<pending, task>>

-----------------------------------------------------------------------------
(* capture_thread and its peer                                             *)

Return(r) == thread' = "returned" /\ result' = r
             /\ UNCHANGED <<state, extracting, swipes, flags, peer>>
Go(from, to) == thread = from /\ thread' = to
                /\ UNCHANGED <<state, extracting, swipes, flags, result, peer>>

\* Any call may fail: refused, cancelled, or silent for 40 seconds.
Fails == thread \in Blocking /\ Return("error")

Connected == Go("connect", "credentials")
OwnPeer   == peer.own /\ Go("credentials", "write")
Asked     == Go("write", "header")
GoodHeader == peer.header = "good" /\ Go("header", "pixels")
AllPixels  == peer.blocks >= Pixels /\ Go("pixels", "end")

\* Wrong: the pixels are all there, what follows does not matter.
EndUnread == thread = "end" /\ Return("image")

\* The read after the last pixel finds the end of the stream.
EndOfStream ==
  /\ thread = "end" /\ peer.blocks = Pixels /\ peer.closed
  /\ Return("image")

Talk(p) == peer' = p
           /\ UNCHANGED <<state, extracting, swipes, flags, thread, result>>
PeerSteps ==
  /\ thread \in Blocking /\ ~peer.closed
  /\ \/ thread = "connect" /\ Talk([peer EXCEPT !.own = FALSE])
     \/ \E h \in {"good", "bad"} :
          peer.header = "none" /\ Talk([peer EXCEPT !.header = h])
     \/ peer.header # "none" /\ peer.blocks < MaxBlocks
        /\ Talk([peer EXCEPT !.blocks = @ + 1])
     \/ Talk([peer EXCEPT !.closed = TRUE])

-----------------------------------------------------------------------------
Thread == \/ Fails \/ Connected \/ OwnPeer \/ Asked \/ GoodHeader
          \/ AllPixels \/ EndOfStream
MainLoop == DoneDeactivating \/ DoneError \/ DoneImage
Fprintd == Open \/ DeviceClose \/ Activate \/ Cancel

Next == Thread \/ MainLoop \/ Fprintd \/ Extracted \/ PeerSteps

Spec == Init /\ [][Next]_vars

\* The thread's calls end (each is cancellable and has a time-out) and the
\* main loop gets to run what is ready.
Fairness == WF_vars(Thread) /\ WF_vars(MainLoop) /\ WF_vars(Extracted)

-----------------------------------------------------------------------------
\* Types: libfprint's states in the order the driver relies on, and never more
\* swipes than nr_enroll_stages.
TypeOK ==
  /\ state \in States /\ extracting \in BOOLEAN /\ swipes \in 0..Stages
  /\ pending \in BOOLEAN /\ deactivating \in BOOLEAN /\ cancelled \in BOOLEAN
  /\ thread \in Blocking \cup {"none", "returned"}
  /\ result \in {"none", "image", "error"}
  /\ peer \in [own : BOOLEAN, header : {"none", "good", "bad"},
               blocks : Nat, closed : BOOLEAN]

\* pending tells the truth: there is a task exactly as long as its callback
\* has not run, so that state_changed never drops the capture a new action
\* needs and never starts a second one on the sensor.
PendingIsTask == pending <=> thread # "none"

\* A device that awaits a finger has a capture running that nobody cancelled
\* and whose result will be delivered: the swipe is not waited for in vain.
AwaitingCaptures == state = "on" => pending /\ ~deactivating /\ ~cancelled

\* The result of a capture that was cancelled is never handed to libfprint,
\* not even one that was complete before the cancel and not yet reported.
NoImageAfterCancel ==
  [][extracting' /\ ~extracting => state = "on" /\ ~cancelled]_vars

\* What the thread returns as an image is what a peer of the same user sent
\* whole, and nothing after it.
ImageIsExact ==
  result = "image" => /\ peer.own /\ peer.header = "good"
                      /\ peer.blocks = Pixels /\ peer.closed

\* Deactivation completes, although it may have to wait for a thread.
DeactivationCompletes == (state = "deactivating") ~> (state = "inactive")
=============================================================================
