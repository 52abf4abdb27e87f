--------------------------- MODULE DaemonMonitor ---------------------------
(***************************************************************************)
(* How the supervisor in the sandbox learns that the vendor daemon has     *)
(* come up and that it has died: tools/service.py, adopt_daemon_children,  *)
(* the start of serve_with_log, daemon_pids and DaemonMonitor.             *)
(*                                                                         *)
(* The vendor daemon is a family of processes: the one the supervisor      *)
(* started, and whatever it forks.  A reading of /proc is not atomic: the  *)
(* list of processes is taken first and then each is looked at in turn.    *)
(***************************************************************************)
EXTENDS Integers, FiniteSets

CONSTANTS
  Pids,        \* processes that can ever be called vcsFPService
  Daemon,      \* the one start_vendor_daemon started
  Supervisor   \* the service's own process

ASSUME MonitorAssumption ==
  Daemon \in Pids /\ Supervisor \notin Pids

VARIABLES
  phase,     \* the supervisor: see MonitorPlaces
  proc,      \* each process: "none", "live", "zombie", "reaped"
  parent,    \* and its parent
  status,    \* and its exit status: "none", "ok", "bad"
  marker,    \* /tmp/vcsSemKey_ServiceReady exists
  daemonized, \* has the vendor daemonized by the time it writes it?
  listed,    \* entries of /proc a scan has still to look at
  seen,      \* what the scan has found
  pids       \* DaemonMonitor.pids

monitorVars == <<phase, proc, parent, status, marker, daemonized, listed, seen, pids>>
vendorVars == <<proc, parent, status, marker, daemonized>>

\* boot and bootScan: waiting for readiness.  snapshot: DaemonMonitor's
\* constructor.  serving: between two checks.  check and reap: in a check.
Scanning == {"bootScan", "snapshot", "check"}
MonitorPlaces == {"boot", "serving", "reap", "gone", "failed"} \cup Scanning

Live == {p \in Pids : proc[p] = "live"}

MonitorInit ==
  /\ phase = "boot"
  /\ proc = [p \in Pids |-> IF p = Daemon THEN "live" ELSE "none"]
  /\ parent = [p \in Pids |-> Supervisor]
  /\ status = [p \in Pids |-> "none"]
  /\ marker = FALSE /\ daemonized \in BOOLEAN
  /\ listed = {} /\ seen = {} /\ pids = {}

-----------------------------------------------------------------------------
(* The supervisor                                                          *)

\* iterdir reads the whole directory; dead but unreaped processes are in it.
StartScan(place) ==
  /\ phase' = place
  /\ listed' = {p \in Pids : proc[p] \in {"live", "zombie"}}
  /\ seen' = {}

\* daemon_pids looks at one entry: zombies do not count, nor do processes that
\* have gone since, nor, in the constructor, those that are not our children.
Visit(p) ==
  /\ phase \in Scanning /\ p \in listed
  /\ listed' = listed \ {p}
  /\ seen' = IF proc[p] = "live" /\ (phase = "snapshot" => parent[p] = Supervisor)
             THEN seen \cup {p} ELSE seen
  /\ UNCHANGED <<phase, vendorVars, pids>>

\* ready.exists(): only then is /proc read.
BootMarker ==
  /\ phase = "boot" /\ marker
  /\ StartScan("bootScan")
  /\ UNCHANGED <<vendorVars, pids>>

\* The wait goes on: daemon.poll() reaps, and a failed start is an error.
BootPoll ==
  /\ \/ phase = "boot" /\ ~marker
     \/ phase = "bootScan" /\ listed = {} /\ seen = {}
  /\ proc' = IF proc[Daemon] = "zombie"
             THEN [proc EXCEPT ![Daemon] = "reaped"] ELSE proc
  /\ phase' = IF proc[Daemon] # "live" /\ status[Daemon] = "bad"
           THEN "failed" ELSE "boot"
  /\ UNCHANGED <<parent, status, marker, daemonized, listed, seen, pids>>

\* SIGTERM, or 15 seconds without readiness.
BootTimeout ==
  /\ \/ phase = "boot" /\ ~marker
     \/ phase = "bootScan" /\ listed = {} /\ seen = {}
  /\ phase' = "failed"
  /\ UNCHANGED <<vendorVars, listed, seen, pids>>

\* Ready: DaemonMonitor(daemon) takes its snapshot.
BootReady ==
  /\ phase = "bootScan" /\ listed = {} /\ seen # {}
  /\ StartScan("snapshot")
  /\ UNCHANGED <<vendorVars, pids>>

\* Wrong: only the process Popen returned is watched.
SnapshotDaemonOnly ==
  /\ phase = "snapshot" /\ listed = {}
  /\ pids' = seen \cap {Daemon} /\ phase' = "serving"
  /\ UNCHANGED <<vendorVars, listed, seen>>

Snapshot ==
  /\ phase = "snapshot" /\ listed = {}
  /\ pids' = seen /\ phase' = "serving"
  /\ UNCHANGED <<vendorVars, listed, seen>>

\* DaemonMonitor.check, called again and again while the service serves.
Check ==
  /\ phase = "serving"
  /\ StartScan("check")
  /\ UNCHANGED <<vendorVars, pids>>

\* live is fixed here, before anything is reaped.
CheckScanned ==
  /\ phase = "check" /\ listed = {}
  /\ seen' = seen \cap pids
  /\ phase' = "reap"
  /\ UNCHANGED <<vendorVars, listed, pids>>

\* Wrong: the exit of one watched process is taken for the loss of all.
CheckReapAny ==
  /\ phase = "reap"
  /\ LET exited == {p \in pids : proc[p] = "zombie" /\ parent[p] = Supervisor}
     IN /\ pids' = pids \ exited
        /\ proc' = [p \in Pids |-> IF p \in exited THEN "reaped" ELSE proc[p]]
        /\ phase' = IF exited # {} THEN "gone" ELSE "serving"
  /\ UNCHANGED <<parent, status, marker, daemonized, listed, seen>>

\* Wrong: the readiness marker counts as a sign of life.
CheckReapMarker ==
  /\ phase = "reap"
  /\ LET exited == {p \in pids : proc[p] = "zombie" /\ parent[p] = Supervisor}
     IN /\ pids' = pids \ exited
        /\ proc' = [p \in Pids |-> IF p \in exited THEN "reaped" ELSE proc[p]]
  /\ phase' = IF seen = {} /\ ~marker THEN "gone" ELSE "serving"
  /\ UNCHANGED <<parent, status, marker, daemonized, listed, seen>>

\* Wrong: poll without waitpid for the adopted processes.
CheckReapNoWaitpid ==
  /\ phase = "reap"
  /\ LET exited == {p \in pids \cap {Daemon} : proc[p] = "zombie"}
     IN /\ pids' = pids \ exited
        /\ proc' = [p \in Pids |-> IF p \in exited THEN "reaped" ELSE proc[p]]
  /\ phase' = IF seen = {} THEN "gone" ELSE "serving"
  /\ UNCHANGED <<parent, status, marker, daemonized, listed, seen>>

\* poll for the process we started, waitpid for the others: those that have
\* exited leave pids.  Then, if none was live, VFS_DAEMON_GONE.
CheckReap ==
  /\ phase = "reap"
  /\ LET exited == {p \in pids : proc[p] = "zombie" /\ parent[p] = Supervisor}
     IN /\ pids' = pids \ exited
        /\ proc' = [p \in Pids |-> IF p \in exited THEN "reaped" ELSE proc[p]]
  /\ phase' = IF seen = {} THEN "gone" ELSE "serving"
  /\ UNCHANGED <<parent, status, marker, daemonized, listed, seen>>

-----------------------------------------------------------------------------
(* The vendor daemon                                                       *)

Fork(p, q) ==
  /\ proc[p] = "live" /\ proc[q] = "none"
  /\ daemonized => ~marker
  /\ proc' = [proc EXCEPT ![q] = "live"]
  /\ parent' = [parent EXCEPT ![q] = p]
  /\ UNCHANGED <<phase, status, marker, daemonized, listed, seen, pids>>

\* Orphans go to the supervisor: adopt_daemon_children made it a subreaper.
Adopter == Supervisor
Die(p) ==
  /\ proc[p] = "live"
  /\ proc' = [proc EXCEPT ![p] = "zombie"]
  /\ \E s \in {"ok", "bad"} : status' = [status EXCEPT ![p] = s]
  /\ parent' = [q \in Pids |-> IF parent[q] = p THEN Adopter ELSE parent[q]]
  /\ UNCHANGED <<phase, marker, daemonized, listed, seen, pids>>

\* A vendor process may wait for its own children.
VendorReap(p) ==
  /\ proc[p] = "zombie" /\ parent[p] \in Live
  /\ proc' = [proc EXCEPT ![p] = "reaped"]
  /\ UNCHANGED <<phase, parent, status, marker, daemonized, listed, seen, pids>>

\* The vendor reports that its IPC is up; the file is never removed.  That it
\* has daemonized means two things: it forks no more (Fork), and the parents of
\* what still runs have exited, so that the supervisor has adopted it all.
CreateMarker ==
  /\ ~marker /\ Live # {}
  /\ daemonized => \A p \in Live : parent[p] = Supervisor
  /\ marker' = TRUE
  /\ UNCHANGED <<phase, proc, parent, status, daemonized, listed, seen, pids>>

-----------------------------------------------------------------------------
Supervise ==
  \/ BootMarker \/ BootPoll \/ BootTimeout \/ BootReady \/ Snapshot
  \/ Check \/ CheckScanned \/ CheckReap
  \/ \E p \in Pids : Visit(p)

Vendor ==
  \/ \E p, q \in Pids : Fork(p, q)
  \/ \E p \in Pids : Die(p) \/ VendorReap(p)
  \/ CreateMarker

MonitorNext == Supervise \/ Vendor

\* Once the service serves, the supervisor's thread runs on.
Serving == phase \in {"serving", "check", "reap"}
MonitorFairness == WF_monitorVars(Serving /\ Supervise)

MonitorSpec == MonitorInit /\ [][MonitorNext]_monitorVars

-----------------------------------------------------------------------------
\* Types: daemon_pids finds processes, and the monitor watches processes.
MonitorTypeOK ==
  /\ phase \in MonitorPlaces
  /\ proc \in [Pids -> {"none", "live", "zombie", "reaped"}]
  /\ parent \in [Pids -> Pids \cup {Supervisor}]
  /\ status \in [Pids -> {"none", "ok", "bad"}]
  /\ marker \in BOOLEAN /\ daemonized \in BOOLEAN
  /\ listed \subseteq Pids /\ seen \subseteq Pids /\ pids \subseteq Pids

\* DaemonMonitor.check gives up only when none of the processes it watches is
\* alive, although they may die, and be reaped, while /proc is being read.
GoneMeansWatchedDead == phase = "gone" => pids \cap Live = {}

\* The message of check: "VFS_DAEMON_GONE: no live vcsFPService".
GoneMeansNoneLive == phase = "gone" => Live = {}

\* The message is true of a vendor that has daemonized when it writes its
\* marker, which is what adopt_daemon_children counts on ("the vendor's
\* daemonized child"): it forks no more and every process of it that is alive
\* is a child of the supervisor.  Then the constructor's snapshot of the
\* children misses nobody, in whatever order they die and are reaped.  Both
\* halves are needed: the snapshot also misses a living child of a living one.
DaemonizedMeansNoneLive == daemonized => GoneMeansNoneLive

\* A service whose last daemon process has died notices, with the readiness
\* marker still in place.
LossIsNoticed == (Serving /\ Live = {}) ~> (phase = "gone")

\* A process leaves the watch only when its exit has been collected, never
\* alive and never as a zombie; and a watched process that has died is collected
\* in the end, unless the service gives up first.
WatchedAreReaped ==
  /\ [][\A p \in pids : p \notin pids' => proc'[p] = "reaped"]_monitorVars
  /\ \A p \in Pids : (p \in pids /\ proc[p] = "zombie")
                      ~> (proc[p] = "reaped" \/ phase = "gone")
=============================================================================
