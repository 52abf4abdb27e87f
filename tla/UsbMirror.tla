------------------------------ MODULE UsbMirror ------------------------------
(***************************************************************************)
(* The launcher outside the sandbox: tools/service.py, UsbMirror, usb_node *)
(* and launch.  Ten times a second it looks up the sensor in sysfs and     *)
(* keeps a private directory, the sandbox's /dev/bus/usb, that holds the   *)
(* node of the sensor and of nothing else.                                 *)
(*                                                                         *)
(* The kernel gives the sensor a new address whenever it is enumerated     *)
(* again, and gives its old one to others; sysfs and /dev do not change at *)
(* once.  A node's device number is a function of its address, so a node   *)
(* is its address.  There is one sensor, built in; its port may show       *)
(* another device while a lookup is under way.                             *)
(***************************************************************************)
EXTENDS Naturals

CONSTANTS
  Addresses,    \* bus and device numbers
  MaxPlugs      \* bound: times a device is enumerated in the sensor's port

ASSUME MirrorAssumption == Addresses # {} /\ MaxPlugs \in Nat

VARIABLES
  pc,        \* where the launcher stands: see Places
  found,     \* the address usb_node has read
  nodes,     \* what current_usb_nodes returned
  current,   \* UsbMirror.current
  view,      \* the nodes in the directory
  child,     \* the sandbox: "none", "live", "term" (asked to end), "dead"
  stopped,   \* SIGTERM or SIGINT has been handled
  port,      \* what sysfs shows in the sensor's port
  dev,       \* addresses that have a node in /dev
  plugs      \* enumerations so far

launcher == <<pc, found, nodes, current, view>>
sandbox  == <<child, stopped>>
usb      == <<port, dev, plugs>>
vars     == <<launcher, sandbox, usb>>

Syncing == {"id", "address", "stat", "remove", "add"}
Places  == {"probe", "spawn", "loop", "finally", "wait", "cleanup", "rmtree",
            "done", "killed"} \cup Syncing
Over    == pc \in {"done", "killed"}

\* The port is empty, or holds the sensor or another device at an address.
Empty == [what |-> "none"]
Device(what, a) == [what |-> what, at |-> a]
Ports == {Empty} \cup [what : {"sensor", "other"}, at : Addresses]
SensorAt(a) == port = Device("sensor", a)

Init ==
  /\ pc = "probe" /\ nodes = {} /\ current = {} /\ view = {}
  /\ found \in Addresses
  /\ child = "none" /\ stopped = FALSE
  /\ port \in Ports /\ dev = {} /\ plugs = 0

-----------------------------------------------------------------------------
(* launch and launch_with_usb                                              *)

Move(from, to) == pc = from /\ pc' = to /\ UNCHANGED <<found, sandbox, usb>>
Keep == UNCHANGED <<nodes, current, view>>

\* Nothing is started unless the sensor is there.
Probe == /\ Move("probe", IF port.what = "sensor" THEN "id" ELSE "done")
         /\ Keep

\* The first sync is before Popen, all others are in the loop.
AfterSync == IF child = "none" THEN "spawn" ELSE "loop"
OnError   == IF child = "none" THEN "rmtree" ELSE "finally"

\* bwrap is started, or cannot be.
Spawn == /\ pc = "spawn"
         /\ \/ pc' = "loop" /\ child' = "live"
            \/ pc' = "rmtree" /\ UNCHANGED child
         /\ UNCHANGED <<found, nodes, current, view, stopped, usb>>

\* Wrong: the stop flag is not looked at.
LoopIgnoresStop == Keep /\ Move("loop", IF child = "dead" THEN "finally" ELSE "id")

Loop == /\ Move("loop", IF child = "dead" \/ stopped THEN "finally" ELSE "id")
        /\ Keep

\* finally: a sandbox that runs is asked to end, and then made to.
Finally == /\ pc = "finally"
           /\ IF child = "dead" THEN pc' = "cleanup" /\ UNCHANGED child
              ELSE pc' = "wait" /\ child' = "term"
           /\ UNCHANGED <<found, nodes, current, view, stopped, usb>>

WaitEnds == child = "dead" /\ Keep /\ Move("wait", "cleanup")

\* Wrong: three seconds are waited for and that is all.
WaitGivesUp == child = "term" /\ Keep /\ Move("wait", "cleanup")

WaitTimeout == /\ pc = "wait" /\ child = "term"
               /\ pc' = "cleanup" /\ child' = "dead"
               /\ UNCHANGED <<found, nodes, current, view, stopped, usb>>

\* sync({}, cleanup=True), which fails if its unlink does.
Cleanup == /\ view' = view \ current /\ current' = {} /\ nodes' = {}
           /\ Move("cleanup", "rmtree")

CleanupFails == current # {} /\ Keep /\ Move("cleanup", "rmtree")

\* launch's temporary directory goes with all that is left in it; that rmtree
\* itself succeeds is assumed.
Rmtree == view' = {} /\ Move("rmtree", "done") /\ UNCHANGED <<nodes, current>>

-----------------------------------------------------------------------------
(* current_usb_nodes: three looks at a system that changes between them    *)

ReadId ==
  /\ nodes' = {} /\ UNCHANGED <<current, view>>
  /\ Move("id", IF port.what = "sensor" THEN "address" ELSE "remove")

\* Whatever is in the port by now; an entry that has gone is not counted.
ReadAddress ==
  /\ pc = "address"
  /\ IF port = Empty THEN pc' = "remove" /\ UNCHANGED found
     ELSE pc' = "stat" /\ found' = port.at
  /\ UNCHANGED <<nodes, current, view, sandbox, usb>>

\* udev may be between removal and creation.
Stat == /\ nodes' = dev \cap {found} /\ UNCHANGED <<current, view>>
        /\ Move("stat", "remove")

\* A look is an error: sysfs cannot be listed, shows two sensors, or what has
\* the node's name is no USB device.
LookFails == /\ Keep
             /\ \/ Move("probe", "done")
                \/ \E place \in {"id", "address", "stat"} : Move(place, OnError)

-----------------------------------------------------------------------------
(* sync                                                                    *)

\* Wrong: the new node is added first.
RemoveLater == Keep /\ Move("remove", "add")
\* Wrong: a sensor that is absent for a moment keeps its node.
RemoveUnlessAbsent ==
  /\ view' = IF nodes = {} THEN view ELSE view \ (current \ nodes)
  /\ UNCHANGED <<nodes, current>> /\ Move("remove", "add")

Remove == /\ view' = view \ (current \ nodes)
          /\ UNCHANGED <<nodes, current>> /\ Move("remove", "add")

\* unlink fails: the obsolete node stays, and is still remembered.
RemoveFails == /\ current \ nodes # {}
               /\ Keep /\ Move("remove", OnError)

\* Wrong: a name that was there before is not made again.
AddOnce == /\ view' = (IF current = {} THEN view \cup nodes ELSE view)
           /\ current' = nodes
           /\ Move("add", AfterSync) /\ UNCHANGED nodes

Add == /\ view' = view \cup (nodes \ current) /\ current' = nodes
       /\ Move("add", AfterSync) /\ UNCHANGED nodes

\* mkdir, unlink or mknod fails: what was to be made is not there.
AddFails == /\ nodes \ current # {}
            /\ Keep /\ Move("add", OnError)

-----------------------------------------------------------------------------
(* What runs beside the launcher                                           *)

\* The handlers are set just before Popen; before that a signal kills.
Stop == /\ ~Over /\ (pc = "spawn" \/ child # "none")
        /\ ~stopped /\ stopped' = TRUE
        /\ UNCHANGED <<launcher, child, usb>>

\* The service ends by itself, or because it was asked to.
ChildExits == /\ child \in {"live", "term"} /\ child' = "dead"
              /\ UNCHANGED <<launcher, stopped, usb>>

\* SIGKILL: the sandbox dies with its parent, the directory stays.
Kill == /\ ~Over /\ pc' = "killed"
        /\ child' = IF child = "none" THEN "none" ELSE "dead"
        /\ UNCHANGED <<found, nodes, current, view, stopped, usb>>

Unplug == /\ port # Empty /\ port' = Empty
          /\ UNCHANGED <<launcher, sandbox, dev, plugs>>
Plug(what, a) == /\ port = Empty /\ a \notin dev /\ plugs < MaxPlugs
                 /\ port' = Device(what, a) /\ plugs' = plugs + 1
                 /\ UNCHANGED <<launcher, sandbox, dev>>
\* /dev follows sysfs.
MakeDev(a) == /\ a \notin dev /\ port # Empty /\ port.at = a
              /\ dev' = dev \cup {a} /\ UNCHANGED <<launcher, sandbox, port, plugs>>
DropDev(a) == /\ a \in dev /\ (port # Empty => port.at # a)
              /\ dev' = dev \ {a} /\ UNCHANGED <<launcher, sandbox, port, plugs>>

-----------------------------------------------------------------------------
Launch == \/ Probe \/ Spawn \/ Loop \/ Finally \/ WaitEnds \/ WaitTimeout
          \/ Cleanup \/ CleanupFails \/ Rmtree
          \/ ReadId \/ ReadAddress \/ Stat \/ LookFails
          \/ Remove \/ RemoveFails \/ Add \/ AddFails

Kernel == \E a \in Addresses : MakeDev(a) \/ DropDev(a)

Next == \/ Launch \/ Kernel \/ Stop \/ ChildExits \/ Kill
        \/ Unplug \/ \E what \in {"sensor", "other"}, a \in Addresses : Plug(what, a)

Spec == Init /\ [][Next]_vars

\* The launcher's thread runs, and udev makes and removes nodes in the end.
FairSpec == Spec /\ WF_vars(Launch) /\ WF_vars(Kernel)

-----------------------------------------------------------------------------
\* Types: current_usb_nodes returns the node it has looked up, or none, and the
\* directory and what UsbMirror remembers of it are sets of such nodes.
TypeOK ==
  /\ pc \in Places /\ found \in Addresses
  /\ nodes \subseteq {found} /\ current \subseteq Addresses /\ view \subseteq Addresses
  /\ child \in {"none", "live", "term", "dead"} /\ stopped \in BOOLEAN
  /\ port \in Ports /\ dev \subseteq Addresses /\ plugs \in 0..MaxPlugs

\* The sandbox never sees two devices: the obsolete node is removed before the
\* new one is made, even if the making of an earlier one failed half way.
OneNode == \A a, b \in view : a = b

\* When the launcher is done, its sandbox is dead and it leaves nothing behind,
\* wherever it was when it was stopped or failed.
EndsClean == pc = "done" => child \in {"none", "dead"} /\ view = {}

\* A sensor that stays where it is becomes visible in the sandbox.
SensorAppears ==
  \A a \in Addresses :
    (SensorAt(a) /\ child = "live") ~> (a \in view \/ ~SensorAt(a) \/ child # "live")

\* A node of what is not the sensor, be it of an old address or read while
\* the port changed hands, does not stay visible.
OthersDisappear ==
  \A a \in Addresses :
    (a \in view /\ ~SensorAt(a)) ~> (a \notin view \/ SensorAt(a) \/ Over)

\* SIGTERM, or the end of the sandbox, ends the launcher.
LauncherEnds == (stopped \/ child = "dead") ~> Over
=============================================================================
