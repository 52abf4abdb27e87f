------------------------- MODULE EutherDriverProofs -------------------------
(***************************************************************************)
(* Proofs about EutherDriver, for any number of swipes and any size of     *)
(* image.  The inductive invariant IInv says in which states of the device *)
(* a task can be pending, and how far the thread has checked its peer.     *)
(***************************************************************************)
EXTENDS EutherDriver, TLAPS

\* The flags and the device: a task is pending while the device awaits a
\* finger or waits for that very task to deactivate.
FlagsInv ==
  /\ pending => state \in {"on", "deactivating"}
  /\ state = "on" => pending /\ ~cancelled
  /\ deactivating <=> state = "deactivating"
  /\ deactivating => pending

\* Swipes: there is one to come whenever an action is under way.
SwipeInv ==
  /\ state \in {"on", "off"} \/ extracting => swipes > 0
  /\ extracting => state \in {"off", "inactive"}

\* The thread: what it has passed, it has checked, and cannot change.
ThreadInv ==
  /\ thread \in Blocking => result = "none"
  /\ thread = "returned" => result # "none"
  /\ thread \in {"write", "header", "pixels", "end"} => peer.own
  /\ thread \in {"pixels", "end"} => peer.header = "good"

IInv == TypeOK /\ PendingIsTask /\ FlagsInv /\ SwipeInv /\ ThreadInv /\ ImageIsExact

Peers == [own : BOOLEAN, header : {"none", "good", "bad"},
          blocks : Nat, closed : BOOLEAN]

LEMMA NewPeerType == NewPeer \in Peers
  BY DEF NewPeer, Peers

LEMMA InitIInv == Init => IInv
<1> SUFFICES ASSUME Init PROVE IInv
  OBVIOUS
<1>1. TypeOK
  <2>1. state \in States /\ thread \in Blocking \cup {"none", "returned"}
    BY DEF Init, States
  <2>2. extracting \in BOOLEAN /\ pending \in BOOLEAN /\ deactivating \in BOOLEAN
        /\ cancelled \in BOOLEAN
    BY DEF Init
  <2>3. swipes \in 0..Stages /\ result \in {"none", "image", "error"}
    BY DriverAssumption DEF Init
  <2> QED
    BY <2>1, <2>2, <2>3, NewPeerType DEF Init, TypeOK, Peers
<1>2. PendingIsTask /\ FlagsInv /\ SwipeInv
  BY DEF Init, PendingIsTask, FlagsInv, SwipeInv
<1>3. ThreadInv /\ ImageIsExact
  BY DEF Init, ThreadInv, ImageIsExact, Blocking
<1> QED
  BY <1>1, <1>2, <1>3 DEF IInv

-----------------------------------------------------------------------------
(* The steps of the main loop: they start, cancel and forget the task.     *)

LEMMA OpenClose == IInv /\ (Open \/ DeviceClose) => IInv'
<1> SUFFICES ASSUME IInv, Open \/ DeviceClose PROVE IInv'
  OBVIOUS
<1> USE DEF IInv, Open, DeviceClose, flags, task
<1>1. TypeOK'
  BY DEF TypeOK, States
<1>2. (PendingIsTask /\ FlagsInv /\ SwipeInv)'
  BY DEF PendingIsTask, FlagsInv, SwipeInv
<1>3. (ThreadInv /\ ImageIsExact)'
  BY DEF ThreadInv, ImageIsExact
<1> QED
  BY <1>1, <1>2, <1>3

\* Awaiting a finger with no task: there is one afterwards.
LEMMA Awaits ==
  ASSUME IInv, ~pending, AwaitFinger(pending), ~deactivating,
         extracting' = FALSE, swipes' \in 1..Stages
  PROVE  IInv'
<1> USE DEF IInv, AwaitFinger
<1>1. /\ state' = "on" /\ pending' = TRUE /\ cancelled' = FALSE
      /\ deactivating' = deactivating
      /\ thread' = "connect" /\ result' = "none" /\ peer' = NewPeer
  OBVIOUS
<1>2. TypeOK'
  <2>1. peer' \in Peers /\ thread' \in Blocking
    BY <1>1, NewPeerType DEF Blocking
  <2>2. swipes' \in 0..Stages
    BY DriverAssumption
  <2> QED
    BY <1>1, <2>1, <2>2 DEF TypeOK, States, Peers
<1>3. (PendingIsTask /\ FlagsInv /\ SwipeInv)'
  BY <1>1 DEF PendingIsTask, FlagsInv, SwipeInv
<1>4. (ThreadInv /\ ImageIsExact)'
  BY <1>1 DEF ThreadInv, ImageIsExact, Blocking
<1> QED
  BY <1>2, <1>3, <1>4

LEMMA Begins == IInv /\ Activate => IInv'
<1> SUFFICES ASSUME IInv, Activate PROVE IInv'
  OBVIOUS
<1>1. ~pending /\ ~deactivating
  BY DEF IInv, FlagsInv, Activate
<1>2. extracting' = FALSE /\ swipes' \in 1..Stages /\ AwaitFinger(pending)
  BY DEF Activate, IInv, TypeOK
<1> QED
  BY <1>1, <1>2, Awaits

LEMMA Cancels == IInv /\ Cancel => IInv'
<1> SUFFICES ASSUME IInv, Cancel PROVE IInv'
  OBVIOUS
<1>0. /\ state \in {"on", "off"}
      /\ UNCHANGED <<extracting, swipes, pending, thread, result, peer>>
  BY DEF Cancel, task
<1>1. CASE pending
  <2>1. state' = "deactivating" /\ deactivating' = TRUE /\ cancelled' = TRUE
    BY <1>1 DEF Cancel, Deactivate
  <2>2. ~extracting
    BY <1>0, <1>1 DEF IInv, FlagsInv, SwipeInv
  <2>3. TypeOK'
    BY <1>0, <2>1 DEF IInv, TypeOK, States
  <2>4. (PendingIsTask /\ FlagsInv /\ SwipeInv)'
    BY <1>0, <1>1, <2>1, <2>2 DEF IInv, PendingIsTask, FlagsInv, SwipeInv
  <2>5. (ThreadInv /\ ImageIsExact)'
    BY <1>0 DEF IInv, ThreadInv, ImageIsExact
  <2> QED
    BY <2>3, <2>4, <2>5 DEF IInv
<1>2. CASE ~pending
  <2>1. state' = "inactive" /\ UNCHANGED <<deactivating, cancelled>>
    BY <1>2 DEF Cancel, Deactivate
  <2>2. TypeOK'
    BY <1>0, <2>1 DEF IInv, TypeOK, States
  <2>3. (PendingIsTask /\ FlagsInv /\ SwipeInv)'
    BY <1>0, <1>2, <2>1 DEF IInv, PendingIsTask, FlagsInv, SwipeInv
  <2>4. (ThreadInv /\ ImageIsExact)'
    BY <1>0 DEF IInv, ThreadInv, ImageIsExact
  <2> QED
    BY <2>2, <2>3, <2>4 DEF IInv
<1> QED
  BY <1>1, <1>2

LEMMA Extracts == IInv /\ Extracted => IInv'
<1> SUFFICES ASSUME IInv, Extracted PROVE IInv'
  OBVIOUS
<1>0. extracting /\ extracting' = FALSE /\ swipes' \in 0..Stages
  BY DriverAssumption DEF IInv, TypeOK, SwipeInv, Extracted
<1>1. ~pending /\ ~deactivating
  BY <1>0 DEF IInv, FlagsInv, SwipeInv
<1>2. CASE state = "off" /\ swipes' > 0
  <2>1. AwaitFinger(pending) /\ swipes' \in 1..Stages
    BY <1>0, <1>2, DriverAssumption DEF Extracted
  <2> QED
    BY <1>0, <1>1, <2>1, Awaits
<1>3. CASE ~(state = "off" /\ swipes' > 0)
  <2>1. /\ state' = "inactive"
        /\ UNCHANGED <<pending, deactivating, cancelled, thread, result, peer>>
    BY <1>0, <1>1, <1>3 DEF Extracted, Deactivate, IInv, SwipeInv, flags, task
  <2>2. TypeOK'
    BY <1>0, <2>1 DEF IInv, TypeOK, States
  <2>3. (PendingIsTask /\ FlagsInv /\ SwipeInv)'
    BY <1>0, <1>1, <2>1 DEF IInv, PendingIsTask, FlagsInv, SwipeInv
  <2>4. (ThreadInv /\ ImageIsExact)'
    BY <2>1 DEF IInv, ThreadInv, ImageIsExact
  <2> QED
    BY <2>2, <2>3, <2>4 DEF IInv
<1> QED
  BY <1>2, <1>3

\* A task that is over leaves the device inactive, or off with an image.
LEMMA TaskEnds == IInv /\ MainLoop => IInv'
<1> SUFFICES ASSUME IInv, MainLoop PROVE IInv'
  OBVIOUS
<1>0. /\ thread = "returned" /\ thread' = "none" /\ pending' = FALSE
      /\ UNCHANGED <<result, peer, swipes, cancelled>>
      /\ deactivating' = FALSE
      /\ \/ state' = "inactive" /\ UNCHANGED extracting
         \/ state = "on" /\ state' = "off"
  <2>1. pending
    BY DEF IInv, PendingIsTask, MainLoop, DoneDeactivating, DoneError, DoneImage,
           Deliver, TaskOver
  <2>2. CASE DoneDeactivating
    BY <2>2 DEF DoneDeactivating, TaskOver
  <2>3. CASE DoneError
    BY <2>3 DEF DoneError, TaskOver, Deactivate, IInv, TypeOK
  <2>4. CASE DoneImage
    BY <2>1, <2>4 DEF DoneImage, Deliver, TaskOver, IInv, TypeOK, FlagsInv
  <2> QED
    BY <2>2, <2>3, <2>4 DEF MainLoop
<1>1. TypeOK'
  <2>1. extracting' \in BOOLEAN
    BY <1>0 DEF IInv, TypeOK, MainLoop, DoneDeactivating, DoneError, DoneImage, Deliver
  <2> QED
    BY <1>0, <2>1 DEF IInv, TypeOK, States
<1>2. PendingIsTask' /\ FlagsInv'
  BY <1>0 DEF IInv, PendingIsTask, FlagsInv
<1>3. SwipeInv'
  BY <1>0 DEF IInv, SwipeInv
<1>4. (ThreadInv /\ ImageIsExact)'
  BY <1>0 DEF IInv, ThreadInv, ImageIsExact, Blocking
<1> QED
  BY <1>1, <1>2, <1>3, <1>4 DEF IInv

-----------------------------------------------------------------------------
(* The thread and its peer                                                 *)

LEMMA ThreadSteps == IInv /\ Thread => IInv'
<1> SUFFICES ASSUME IInv, Thread PROVE IInv'
  OBVIOUS
<1>0. /\ thread \in Blocking /\ thread' \in Blocking \cup {"returned"}
      /\ UNCHANGED <<state, extracting, swipes, pending, deactivating, cancelled, peer>>
  BY DEF Thread, Fails, Connected, OwnPeer, Asked, GoodHeader, AllPixels,
         EndOfStream, Go, Return, flags, Blocking
<1>1. TypeOK' /\ ThreadInv' /\ ImageIsExact'
  <2>1. CASE Fails
    BY <1>0, <2>1 DEF Fails, Return, IInv, TypeOK, ThreadInv, ImageIsExact, Blocking
  <2>2. CASE Connected \/ OwnPeer \/ Asked \/ GoodHeader \/ AllPixels
    <3>1. result = "none" /\ result' = "none"
      BY <1>0, <2>2 DEF Connected, OwnPeer, Asked, GoodHeader, AllPixels, Go,
                        IInv, ThreadInv
    <3>2. TypeOK' /\ ImageIsExact'
      BY <1>0, <3>1 DEF IInv, TypeOK, ImageIsExact
    <3>3. ThreadInv'
      BY <1>0, <2>2, <3>1 DEF Connected, OwnPeer, Asked, GoodHeader, AllPixels, Go,
                              IInv, ThreadInv, Blocking
    <3> QED
      BY <3>2, <3>3
  <2>3. CASE EndOfStream
    BY <1>0, <2>3 DEF EndOfStream, Return, IInv, TypeOK, ThreadInv, ImageIsExact, Blocking
  <2> QED
    BY <2>1, <2>2, <2>3 DEF Thread
<1>2. (PendingIsTask /\ FlagsInv /\ SwipeInv)'
  BY <1>0 DEF IInv, PendingIsTask, FlagsInv, SwipeInv, Blocking
<1> QED
  BY <1>1, <1>2 DEF IInv

LEMMA PeerMoves == IInv /\ PeerSteps => IInv'
<1> SUFFICES ASSUME IInv, PeerSteps PROVE IInv'
  OBVIOUS
<1>0. /\ thread \in Blocking /\ result = "none"
      /\ UNCHANGED <<state, extracting, swipes, pending, deactivating, cancelled,
                     thread, result>>
  BY DEF PeerSteps, Talk, flags, IInv, ThreadInv
<1>1. peer' \in Peers
  <2>0. peer \in Peers
    BY DEF IInv, TypeOK, Peers
  <2>1. CASE peer' = [peer EXCEPT !.own = FALSE]
    BY <2>0, <2>1 DEF Peers
  <2>2. ASSUME NEW h \in {"good", "bad"}, peer' = [peer EXCEPT !.header = h]
        PROVE  peer' \in Peers
    BY <2>0, <2>2 DEF Peers
  <2>3. CASE peer' = [peer EXCEPT !.blocks = @ + 1]
    BY <2>0, <2>3 DEF Peers
  <2>4. CASE peer' = [peer EXCEPT !.closed = TRUE]
    BY <2>0, <2>4 DEF Peers
  <2> QED
    BY <2>1, <2>2, <2>3, <2>4 DEF PeerSteps, Talk
<1>2. /\ thread # "connect" => peer'.own = peer.own
      /\ peer.header # "none" => peer'.header = peer.header
  BY DEF PeerSteps, Talk, IInv, TypeOK
<1>3. TypeOK' /\ ImageIsExact'
  BY <1>0, <1>1 DEF IInv, TypeOK, ImageIsExact, Peers
<1>4. ThreadInv'
  BY <1>0, <1>2 DEF IInv, ThreadInv
<1>5. (PendingIsTask /\ FlagsInv /\ SwipeInv)'
  BY <1>0 DEF IInv, PendingIsTask, FlagsInv, SwipeInv
<1> QED
  BY <1>3, <1>4, <1>5 DEF IInv

LEMMA StepIInv == IInv /\ [Next]_vars => IInv'
<1>1. IInv /\ UNCHANGED vars => IInv'
  <2> SUFFICES ASSUME IInv, UNCHANGED vars PROVE IInv'
    OBVIOUS
  <2> USE DEF vars, flags, task, IInv
  <2>1. TypeOK'
    BY DEF TypeOK
  <2>2. (PendingIsTask /\ FlagsInv /\ SwipeInv)'
    BY DEF PendingIsTask, FlagsInv, SwipeInv
  <2>3. (ThreadInv /\ ImageIsExact)'
    BY DEF ThreadInv, ImageIsExact
  <2> QED
    BY <2>1, <2>2, <2>3
<1> QED
  BY <1>1, OpenClose, Begins, Cancels, Extracts, TaskEnds, ThreadSteps, PeerMoves
     DEF Next, Fprintd

LEMMA Inductive == Spec => []IInv
  BY InitIInv, StepIInv, PTL DEF Spec

-----------------------------------------------------------------------------
\* Every variable of the driver keeps its type.
THEOREM DriverTypes == Spec => []TypeOK
<1>1. IInv => TypeOK
  BY DEF IInv
<1> QED
  BY <1>1, Inductive, PTL

\* The flag pending of the driver is true exactly while there is a task whose
\* callback has not run.
THEOREM PendingTruth == Spec => []PendingIsTask
<1>1. IInv => PendingIsTask
  BY DEF IInv
<1> QED
  BY <1>1, Inductive, PTL

\* Whenever the device awaits a finger, a capture that nobody has cancelled is
\* on its way.
THEOREM AwaitedIsCaptured == Spec => []AwaitingCaptures
<1>1. IInv => AwaitingCaptures
  BY DEF IInv, FlagsInv, AwaitingCaptures
<1> QED
  BY <1>1, Inductive, PTL

\* capture_thread returns an image only if its peer, of the same user, sent
\* the announced pixels and then closed, for every size of image.
THEOREM DriverImageExact == Spec => []ImageIsExact
<1>1. IInv => ImageIsExact
  BY DEF IInv
<1> QED
  BY <1>1, Inductive, PTL

\* No step hands the image of a cancelled capture to libfprint.
THEOREM CancelledImageDropped == Spec => NoImageAfterCancel
<1>1. IInv /\ [Next]_vars =>
        [extracting' /\ ~extracting => state = "on" /\ ~cancelled]_vars
  <2> SUFFICES ASSUME IInv, Next, extracting', ~extracting
               PROVE  state = "on" /\ ~cancelled
    OBVIOUS
  <2>1. DoneImage
    BY DEF Next, Fprintd, MainLoop, Thread, Open, DeviceClose, Activate, Cancel,
           Extracted, Fails, Connected, OwnPeer, Asked, GoodHeader, AllPixels,
           EndOfStream, Go, Return, PeerSteps, Talk, DoneDeactivating, DoneError
  <2>2. pending /\ ~deactivating
    BY <2>1 DEF DoneImage, Deliver, TaskOver, IInv, PendingIsTask
  <2> QED
    BY <2>2 DEF IInv, FlagsInv
<1> QED
  BY <1>1, Inductive, PTL DEF Spec, NoImageAfterCancel
=============================================================================
