\* Each part alone.  Driver: actions of one or two swipes, peers that send too
\* little, enough, too much.  Shim: messages of up to MaxCount bytes.  Log: more
\* messages than it retains.  Installers: every option after every other.
\* Monitor: two forks, of vendors that have daemonized when they write
\* their marker and of those that fork at will.
SPECIFICATION PartsSpec
CONSTANTS
  Stages = 2
  Pixels = 2
  MaxBlocks = 3
  MaxCount = 3
  Bound = 6
  MaxLen = 2
  Datagrams = 4
  Pids = {d0, d1, d2}
  Daemon = d0
  Supervisor = Supervisor
INVARIANTS
  PendingIsTask
  AwaitingCaptures
  ImageIsExact
  Aligned
  RetainsOnlyStartup
  ThemeBeforeUse
  Restorable
  OutcomeHolds
  GoneMeansWatchedDead
  DaemonizedMeansNoneLive
PROPERTIES
  NoImageAfterCancel
  DeactivationCompletes
  CallReturns
  ReplacesWhatItRead
  LossIsNoticed
  WatchedAreReaped
CHECK_DEADLOCK FALSE
