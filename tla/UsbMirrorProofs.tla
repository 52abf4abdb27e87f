--------------------------- MODULE UsbMirrorProofs ---------------------------
(***************************************************************************)
(* Proofs about UsbMirror, for any set of addresses: its types, that the   *)
(* sandbox sees one device at most, and that the launcher ends cleanly.    *)
(***************************************************************************)
EXTENDS UsbMirror, TLAPS

\* The directory holds what UsbMirror remembers, or less; once the obsolete
\* node is removed it holds nothing that sync does not want.
ViewInv ==
  /\ view \subseteq current
  /\ pc = "add" => view \subseteq nodes
  /\ \A a, b \in current : a = b
  /\ pc \in {"probe", "done"} => view = {}
  /\ pc \in {"address", "stat"} => nodes = {}

\* Where the launcher can be with a sandbox, and without one.
ChildInv ==
  /\ pc \in {"probe", "spawn"} => child = "none"
  /\ pc \in {"loop", "finally"} => child # "none"
  /\ pc = "wait" => child \in {"term", "dead"}
  /\ pc = "cleanup" => child = "dead"
  /\ pc \in {"rmtree", "done"} => child \in {"none", "dead"}

IInv == TypeOK /\ ViewInv /\ ChildInv

LEMMA InitIInv == Init => IInv
<1> SUFFICES ASSUME Init PROVE IInv
  OBVIOUS
<1>1. plugs \in 0..MaxPlugs
  BY MirrorAssumption DEF Init
<1>2. TypeOK
  BY <1>1 DEF Init, TypeOK, Places
<1>3. ViewInv /\ ChildInv
  BY DEF Init, ViewInv, ChildInv
<1> QED
  BY <1>2, <1>3 DEF IInv

-----------------------------------------------------------------------------
LEMMA LaunchSteps == IInv /\ Launch => IInv'
<1> SUFFICES ASSUME IInv, Launch PROVE IInv'
  OBVIOUS
<1> USE DEF IInv, TypeOK, Places, Syncing, Move, Keep, sandbox, usb
<1>1. CASE Probe
  BY <1>1 DEF Probe, ViewInv, ChildInv
<1>2. CASE Spawn
  BY <1>2 DEF Spawn, ViewInv, ChildInv
<1>3. CASE Loop
  BY <1>3 DEF Loop, ViewInv, ChildInv
<1>4. CASE Finally
  BY <1>4 DEF Finally, ViewInv, ChildInv
<1>5. CASE WaitEnds \/ WaitTimeout
  BY <1>5 DEF WaitEnds, WaitTimeout, ViewInv, ChildInv
<1>6. CASE Cleanup \/ CleanupFails \/ Rmtree
  BY <1>6 DEF Cleanup, CleanupFails, Rmtree, ViewInv, ChildInv
<1>7. CASE ReadId \/ Stat
  BY <1>7 DEF ReadId, Stat, ViewInv, ChildInv
<1>8. CASE ReadAddress
  <2>1. port # Empty => port.at \in Addresses
    BY DEF Ports, Empty
  <2>2. nodes = {}
    BY <1>8 DEF ReadAddress, ViewInv
  <2> QED BY <1>8, <2>1, <2>2 DEF ReadAddress, ViewInv, ChildInv
<1>9. CASE Remove
  BY <1>9 DEF Remove, ViewInv, ChildInv
<1>10. CASE Add
  BY <1>10 DEF Add, AfterSync, ViewInv, ChildInv
<1>11. CASE AddFails
  BY <1>11 DEF AddFails, OnError, ViewInv, ChildInv
<1>12. CASE LookFails
  BY <1>12 DEF LookFails, OnError, ViewInv, ChildInv
<1>13. CASE RemoveFails
  BY <1>13 DEF RemoveFails, OnError, ViewInv, ChildInv
<1> QED
  BY <1>1, <1>2, <1>3, <1>4, <1>5, <1>6, <1>7, <1>8, <1>9, <1>10, <1>11,
     <1>12, <1>13 DEF Launch

LEMMA OtherSteps == IInv /\ Next /\ ~Launch => IInv'
<1> SUFFICES ASSUME IInv, Next, ~Launch PROVE IInv'
  OBVIOUS
<1> USE DEF IInv, TypeOK, Places, Syncing, launcher, sandbox, usb
<1>1. CASE Kernel
  BY <1>1 DEF Kernel, MakeDev, DropDev, ViewInv, ChildInv
<1>2. CASE Stop \/ ChildExits
  BY <1>2 DEF Stop, ChildExits, ViewInv, ChildInv
<1>3. CASE Kill
  BY <1>3 DEF Kill, ViewInv, ChildInv
<1>4. CASE Unplug
  BY <1>4 DEF Unplug, Ports, ViewInv, ChildInv
<1>5. ASSUME NEW what \in {"sensor", "other"}, NEW a \in Addresses, Plug(what, a)
      PROVE  IInv'
  <2>1. port' \in Ports
    BY <1>5 DEF Plug, Device, Ports
  <2>2. plugs' \in 0..MaxPlugs
    BY <1>5, MirrorAssumption DEF Plug
  <2> QED BY <1>5, <2>1, <2>2 DEF Plug, ViewInv, ChildInv
<1> QED
  BY <1>1, <1>2, <1>3, <1>4, <1>5 DEF Next

LEMMA Inductive == Spec => []IInv
<1>1. IInv /\ UNCHANGED vars => IInv'
  BY DEF vars, launcher, sandbox, usb, IInv, TypeOK, ViewInv, ChildInv
<1>2. IInv /\ [Next]_vars => IInv'
  BY <1>1, LaunchSteps, OtherSteps
<1> QED
  BY <1>2, InitIInv, PTL DEF Spec

\* What current_usb_nodes returns and UsbMirror remembers keeps its type.
THEOREM MirrorTypes == Spec => []TypeOK
<1>1. IInv => TypeOK
  BY DEF IInv
<1> QED
  BY <1>1, Inductive, PTL

\* UsbMirror.sync never shows the sandbox two devices, for any addresses and
\* any changes of the system while it is looked at.
THEOREM OneNodeAtATime == Spec => []OneNode
<1>1. IInv => OneNode
  BY DEF IInv, ViewInv, OneNode
<1> QED
  BY <1>1, Inductive, PTL

\* launch ends with a dead sandbox and an empty directory.
THEOREM CleanEnd == Spec => []EndsClean
<1>1. IInv => EndsClean
  BY DEF IInv, ViewInv, ChildInv, EndsClean
<1> QED
  BY <1>1, Inductive, PTL
=============================================================================
