--------------------------- MODULE MCDaemonMonitor ---------------------------
(* DaemonMonitor for TLC: the processes the daemon forks are alike.        *)
EXTENDS DaemonMonitor, TLC

ForkedSymmetry == Permutations(Pids \ {Daemon})
=============================================================================
