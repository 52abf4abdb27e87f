------------------------------- MODULE MCParts -------------------------------
(* The small parts for TLC, five in one run: the libfprint driver, the pipe  *)
(* shim, the startup log, the installers and the daemon monitor.  They share *)
(* nothing, so that no order of their steps matters: the first step chooses  *)
(* the part that runs, and the others stay as they start, where nothing of   *)
(* theirs is owed.  A part that starts in one of several states does so in   *)
(* all of them when it is the one that runs, and in one when it is not.      *)
EXTENDS EutherDriver, VfsPipe, StartupLog, SddmInstall, DaemonMonitor

allVars == <<vars, pipeVars, logVars, installVars, monitorVars>>

PartsInit == Init /\ PipeInit /\ LogInit /\ InstallInit /\ MonitorInit

OneInstallInit == InstallInit /\ theme = "none" /\ file = [f \in Files |-> "orig"]
OneMonitorInit == MonitorInit /\ daemonized

OthersThan(part) ==
  /\ part # "driver"  => Init /\ UNCHANGED vars
  /\ part # "pipe"    => PipeInit /\ UNCHANGED pipeVars
  /\ part # "log"     => LogInit /\ UNCHANGED logVars
  /\ part # "install" => OneInstallInit /\ UNCHANGED installVars
  /\ part # "monitor" => OneMonitorInit /\ UNCHANGED monitorVars

PartsNext == \/ Next /\ OthersThan("driver")
             \/ PipeNext /\ OthersThan("pipe")
             \/ LogNext /\ OthersThan("log")
             \/ InstallNext /\ OthersThan("install")
             \/ MonitorNext /\ OthersThan("monitor")

PartsSpec == /\ PartsInit /\ [][PartsNext]_allVars
             /\ Fairness /\ PipeFairness /\ MonitorFairness
=============================================================================
