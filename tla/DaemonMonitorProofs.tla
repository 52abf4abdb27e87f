------------------------ MODULE DaemonMonitorProofs ------------------------
(***************************************************************************)
(* Proofs about DaemonMonitor, for any set of processes.  What makes the   *)
(* monitor right although /proc changes while it is read: a process that   *)
(* is watched was alive before, so if it is alive at the end of a scan it  *)
(* was on the list and was found alive when it was looked at.              *)
(***************************************************************************)
EXTENDS DaemonMonitor, TLAPS

\* A scan of check misses none of the watched processes that stay alive.
ScanInv ==
  /\ phase = "check" => \A p \in pids : proc[p] = "live" => p \in listed \cup seen
  /\ phase = "reap"  => \A p \in pids : proc[p] = "live" => p \in seen
  /\ phase = "gone"  => \A p \in pids : proc[p] # "live"
  /\ \A p \in pids \cup seen : proc[p] # "none"

\* If the vendor has daemonized by its marker, what is alive after it is a child
\* of the supervisor, and the constructor's scan of the children misses nothing.
DaemonizedInv ==
  daemonized =>
    /\ phase \notin {"boot", "failed"} => marker
    /\ marker => \A p \in Pids : proc[p] = "live" => parent[p] = Supervisor
    /\ phase = "snapshot" => \A p \in Pids : proc[p] = "live" => p \in listed \cup seen
    /\ phase \in {"serving", "check", "reap", "gone"} =>
         \A p \in Pids : proc[p] = "live" => p \in pids

IInv == MonitorTypeOK /\ ScanInv /\ DaemonizedInv

LEMMA InitIInv == MonitorInit => IInv
<1> SUFFICES ASSUME MonitorInit PROVE IInv
  OBVIOUS
<1>1. MonitorTypeOK
  BY DEF MonitorInit, MonitorTypeOK, MonitorPlaces, Scanning
<1>2. ScanInv /\ DaemonizedInv
  BY DEF MonitorInit, ScanInv, DaemonizedInv
<1> QED
  BY <1>1, <1>2 DEF IInv

LEMMA SupervisorSteps == IInv /\ Supervise => IInv'
<1> SUFFICES ASSUME IInv, Supervise PROVE IInv'
  OBVIOUS
<1> USE DEF IInv, vendorVars
<1>1. CASE BootMarker
  <2>1. MonitorTypeOK'
    BY <1>1 DEF BootMarker, StartScan, MonitorTypeOK, MonitorPlaces, Scanning
  <2>2. ScanInv' /\ DaemonizedInv'
    BY <1>1 DEF BootMarker, StartScan, MonitorTypeOK, ScanInv, DaemonizedInv
  <2> QED BY <2>1, <2>2
<1>2. CASE BootPoll
  <2>0. /\ phase \in {"boot", "bootScan"} /\ phase' \in {"boot", "failed"}
        /\ UNCHANGED <<parent, status, marker, daemonized, listed, seen, pids>>
        /\ proc' \in [Pids -> {"none", "live", "zombie", "reaped"}]
        /\ \A p \in Pids : (proc'[p] = "live" <=> proc[p] = "live")
                           /\ (proc'[p] = "none" <=> proc[p] = "none")
    BY <1>2, MonitorAssumption DEF BootPoll, MonitorTypeOK
  <2>1. MonitorTypeOK'
    BY <2>0 DEF MonitorTypeOK, MonitorPlaces, Scanning
  <2>2. ScanInv' /\ DaemonizedInv'
    BY <2>0 DEF MonitorTypeOK, ScanInv, DaemonizedInv
  <2> QED BY <2>1, <2>2
<1>3. CASE BootTimeout
  <2>1. MonitorTypeOK'
    BY <1>3 DEF BootTimeout, MonitorTypeOK, MonitorPlaces, Scanning
  <2>2. ScanInv' /\ DaemonizedInv'
    BY <1>3 DEF BootTimeout, ScanInv, DaemonizedInv
  <2> QED BY <2>1, <2>2
<1>4. CASE BootReady
  <2>1. MonitorTypeOK'
    BY <1>4 DEF BootReady, StartScan, MonitorTypeOK, MonitorPlaces, Scanning
  <2>2. ScanInv' /\ DaemonizedInv'
    BY <1>4 DEF BootReady, StartScan, MonitorTypeOK, ScanInv, DaemonizedInv
  <2> QED BY <2>1, <2>2
<1>5. CASE Snapshot
  <2>1. MonitorTypeOK'
    BY <1>5 DEF Snapshot, MonitorTypeOK, MonitorPlaces, Scanning
  <2>2. ScanInv' /\ DaemonizedInv'
    BY <1>5 DEF Snapshot, MonitorTypeOK, ScanInv, DaemonizedInv
  <2> QED BY <2>1, <2>2
<1>6. CASE Check
  <2>1. MonitorTypeOK'
    BY <1>6 DEF Check, StartScan, MonitorTypeOK, MonitorPlaces, Scanning
  <2>2. ScanInv' /\ DaemonizedInv'
    BY <1>6 DEF Check, StartScan, MonitorTypeOK, ScanInv, DaemonizedInv
  <2> QED BY <2>1, <2>2
<1>7. CASE CheckScanned
  <2>1. MonitorTypeOK'
    BY <1>7 DEF CheckScanned, MonitorTypeOK, MonitorPlaces, Scanning
  <2>2. ScanInv' /\ DaemonizedInv'
    BY <1>7 DEF CheckScanned, MonitorTypeOK, ScanInv, DaemonizedInv
  <2> QED BY <2>1, <2>2
<1>8. CASE CheckReap
  <2> DEFINE exited == {p \in pids : proc[p] = "zombie" /\ parent[p] = Supervisor}
  <2>0. /\ phase = "reap" /\ phase' = IF seen = {} THEN "gone" ELSE "serving"
        /\ pids' = pids \ exited
        /\ UNCHANGED <<parent, status, marker, daemonized, listed, seen>>
        /\ proc' \in [Pids -> {"none", "live", "zombie", "reaped"}]
        /\ \A p \in Pids : (proc'[p] = "live" <=> proc[p] = "live")
                           /\ (proc'[p] = "none" <=> proc[p] = "none")
    BY <1>8 DEF CheckReap, MonitorTypeOK
  <2>1. MonitorTypeOK'
    BY <2>0 DEF MonitorTypeOK, MonitorPlaces, Scanning
  <2>2. ScanInv' /\ DaemonizedInv'
    BY <2>0 DEF MonitorTypeOK, ScanInv, DaemonizedInv
  <2> QED BY <2>1, <2>2
<1>9. ASSUME NEW q \in Pids, Visit(q) PROVE IInv'
  <2>1. MonitorTypeOK'
    BY <1>9 DEF Visit, MonitorTypeOK, MonitorPlaces, Scanning
  <2>2. ScanInv'
    BY <1>9 DEF Visit, MonitorTypeOK, ScanInv, Scanning
  <2>3. DaemonizedInv'
    BY <1>9 DEF Visit, MonitorTypeOK, DaemonizedInv, Scanning
  <2> QED BY <2>1, <2>2, <2>3
<1> QED
  BY <1>1, <1>2, <1>3, <1>4, <1>5, <1>6, <1>7, <1>8, <1>9 DEF Supervise

LEMMA VendorSteps == IInv /\ Vendor => IInv'
<1> SUFFICES ASSUME IInv, Vendor PROVE IInv'
  OBVIOUS
<1> USE DEF IInv
<1>1. ASSUME NEW p \in Pids, NEW q \in Pids, Fork(p, q) PROVE IInv'
  <2>1. MonitorTypeOK'
    BY <1>1 DEF Fork, MonitorTypeOK
  <2>2. ScanInv'
    BY <1>1 DEF Fork, MonitorTypeOK, ScanInv
  <2>3. DaemonizedInv'
    BY <1>1 DEF Fork, MonitorTypeOK, DaemonizedInv, MonitorPlaces, Scanning
  <2> QED BY <2>1, <2>2, <2>3
<1>2. ASSUME NEW p \in Pids, Die(p) PROVE IInv'
  <2>1. MonitorTypeOK'
    BY <1>2 DEF Die, Adopter, MonitorTypeOK
  <2>2. ScanInv'
    BY <1>2 DEF Die, MonitorTypeOK, ScanInv
  <2>3. DaemonizedInv'
    BY <1>2 DEF Die, Adopter, MonitorTypeOK, DaemonizedInv
  <2> QED BY <2>1, <2>2, <2>3
<1>3. ASSUME NEW p \in Pids, VendorReap(p) PROVE IInv'
  <2>1. MonitorTypeOK'
    BY <1>3 DEF VendorReap, MonitorTypeOK
  <2>2. ScanInv'
    BY <1>3 DEF VendorReap, MonitorTypeOK, ScanInv
  <2>3. DaemonizedInv'
    BY <1>3 DEF VendorReap, MonitorTypeOK, DaemonizedInv
  <2> QED BY <2>1, <2>2, <2>3
<1>4. CASE CreateMarker
  <2>1. MonitorTypeOK'
    BY <1>4 DEF CreateMarker, MonitorTypeOK
  <2>2. ScanInv' /\ DaemonizedInv'
    BY <1>4 DEF CreateMarker, Live, MonitorTypeOK, ScanInv, DaemonizedInv
  <2> QED BY <2>1, <2>2
<1> QED
  BY <1>1, <1>2, <1>3, <1>4 DEF Vendor

LEMMA Inductive == MonitorSpec => []IInv
<1>1. IInv /\ UNCHANGED monitorVars => IInv'
  BY DEF monitorVars, IInv, MonitorTypeOK, ScanInv, DaemonizedInv
<1>2. IInv /\ [MonitorNext]_monitorVars => IInv'
  BY <1>1, SupervisorSteps, VendorSteps DEF MonitorNext
<1> QED
  BY <1>2, InitIInv, PTL DEF MonitorSpec

\* Every variable keeps its type, however /proc changes while it is read.
THEOREM MonitorTypes == MonitorSpec => []MonitorTypeOK
<1>1. IInv => MonitorTypeOK
  BY DEF IInv
<1> QED
  BY <1>1, Inductive, PTL

\* DaemonMonitor.check never gives up while a process it watches is alive.
THEOREM WatchedDead == MonitorSpec => []GoneMeansWatchedDead
<1>1. IInv => GoneMeansWatchedDead
  BY DEF IInv, MonitorTypeOK, ScanInv, GoneMeansWatchedDead, Live
<1> QED
  BY <1>1, Inductive, PTL

\* If the vendor has daemonized by the time it writes its marker - it forks no
\* more, and every process of it that is alive is a child of the supervisor -
\* the message of check is true: no vcsFPService is alive.
THEOREM NoneLive == MonitorSpec => []DaemonizedMeansNoneLive
<1>1. IInv => DaemonizedMeansNoneLive
  BY DEF IInv, MonitorTypeOK, ScanInv, DaemonizedInv, DaemonizedMeansNoneLive,
         GoneMeansNoneLive, Live
<1> QED
  BY <1>1, Inductive, PTL
=============================================================================
