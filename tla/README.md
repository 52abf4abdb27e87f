# Verification of EutherFPScan

EutherFPScan makes a Validity VFS491 swipe sensor, whose only driver is an old proprietary
library and daemon, usable on a current Linux: a sandboxed service captures images with the
vendor's code, a small libfprint driver fetches them over a socket, fprintd enrols and verifies,
and a few user interfaces and installers sit on top. This directory models the parts of it where
processes, threads, callbacks and messages meet, checks the models with TLC, and proves the
most important of their properties with TLAPS.

Paths below are relative to the repository's source. `PROJECT.json` maps every definition that
models code to its lines, lists the runs, the mutants that show each property can be broken by a
plausible bug, the hazards and the theorems.

## 1. Inventory

| Component | Source | State | Operations |
|---|---|---|---|
| Request loop of the capture service | `tools/service.py` `serve_with_log`, `request` | stop flag, listening socket (backlog 1), current connection | accept, read one command byte, status / capture / unknown, answer, error answer, close; half-second accept time-out, five-second command time-out |
| Capture supervisor | `tools/capture.py` `collect`, `decode` | helper process group, two pipes, selector, deadline, buffers with limits | start, select, read, cancel when the client's socket becomes readable, health check, wait, decode, kill the group |
| Daemon monitor and boot | `tools/service.py` `adopt_daemon_children`, `daemon_pids`, `DaemonMonitor` | set of watched process ids, readiness marker in the file system | wait for readiness, snapshot of children, check with poll and waitpid |
| USB mirror and launcher | `tools/service.py` `UsbMirror`, `current_usb_nodes`, `launch_with_usb` | mirrored device nodes, child process, stop flag | sync every 100 ms, terminate, clean up |
| Startup log | `tools/service.py` `StartupLog` | bounded buffer, record flag, lock, thread | drain, ready, exit |
| Pipe shim | `src/vfs_pipe.c` | file descriptor of the FIFO | exact read of one message |
| Capture helper | `src/capture.c` | none that lasts | a fixed sequence of calls into the vendor's library |
| libfprint driver | `libfprint/euther_vfs491.c` | `pending`, `deactivating`, a `GCancellable`, one thread per capture | open, close, activate, deactivate, state change, thread, completion |
| Regis back end | `regis/backend.py` `Registry` | device, `busy`, one job with seven flags, generation of the connect, registers shown | connect, refresh, start, cancel, and one callback per asynchronous D-Bus reply or signal |
| Regis window | `regis/ui.py` | selected user and finger, a modal dialog per job | buttons, dialog responses, closing |
| Guided enrolment | `tools/enroll.py` `Guide`, `enroll` | stage and attempt counters, prompts | signals, Ctrl+C, clean-up |
| Installers of SDDM, PAM and sudo | `tools/install_sddm.py`, `install_sddm_pam.py`, `install_sudo.py` | configuration files and their backups | apply, read back, roll back, remove |
| Login theme | `sddm/regis/LoginView.qml` | `busy`, `succeeded`, `disconnected` | submit, failed, accepted |
| Service installers, probes, builds, units | `tools/*.sh`, `tools/diagnose_ipc.py` and others, `systemd/` | none that lasts while they run | sequential scripts |

**How they interact.** systemd starts the launcher, which mirrors the sensor's device node and runs
the service inside bubblewrap. The service starts the vendor daemon, waits for its readiness
marker *and* a live process, then listens on a Unix socket. For each capture it forks the helper,
which talks to the daemon through shared memory and a FIFO (read by the pipe shim) and writes the
image to its stdout. The libfprint driver, a thread inside fprintd, is the service's client: closing
its socket is how it cancels. fprintd is called over D-Bus by Regis, by the guided enrolment and by
PAM, which the installers configure.

**What is hard.** Nothing here is hard because of its data; all of it is hard because of who else
moves meanwhile:

* the vendor daemon forks and dies while `/proc` is being read, and leaves its marker behind;
* the client of a capture leaves, or the deadline passes, in any step of `collect`; the helper has
  descendants that keep its pipes open or outlive it;
* one connection is served while another waits in the backlog and perhaps has been left;
* in the driver, a capture may be complete, but not reported, when it is cancelled, and libfprint
  calls back into the driver from within the driver's own calls;
* a FIFO splits messages wherever it likes;
* in Regis every step is a callback: cancels, refusals, time-outs of calls that are carried out
  later, status signals before the reply that preceded them, and the loss of fprintd in between;
* the sensor changes its address between the launcher's looks at sysfs, at `/dev` and its own sync;
* two programs may ask the same fprintd to enrol, and both hear every signal it sends; the guide's
  calls are synchronous, so that what fprintd says meanwhile is heard only afterwards;
* a thread drains the vendor's log while the main thread decides that nothing more is kept;
* the installers change three files of the system, in two processes, and may die between any two
  steps.

`PROJECT.json` lists these hazards at the lines where they bite, with the properties that watch
over each, and the one that nothing watches over (a deletion that times out and is carried out
later, section 3).

**What makes each component right.**

* service and supervisor: no process of a capture outlives it; only whole images of helpers that
  ended well are sent; everyone who listens gets an answer, and only one request holds the sensor;
  a client that leaves frees the sensor; loss of the daemon, and SIGTERM, end the service;
* monitor: it never gives up while something it watches lives, and always when nothing does;
* driver: its flags tell the truth; no swipe is awaited in vain; no cancelled or inexact image is
  delivered; deactivation completes;
* pipe shim: after any number of messages the reader still stands between two messages;
* Regis: the reader is released at the end of every job; the client is never busy for good; it
  offers only what exists; the dialog on the screen is the running job's; a cancelled job ends, and
  so does a window closed during a job;
* launcher: the sandbox sees one node at most, the sensor's in the end and no other's for good; the
  launcher ends with a dead sandbox and an empty directory;
* installers: what is installed can be undone at any time; a failed or removed installation leaves
  nothing; SDDM is never pointed at a theme that is not there; no edit is overwritten unseen;
* startup log: nothing of a capture is ever retained or printed, wherever the thread stood when
  `ready()` ran;
* enrolment: each stage and attempt is prompted for once and whoever is waited for knows it; a
  program that reports a success is right; whatever fails, the reader is left free, and Ctrl+C,
  *Avbryt* and a final status end the program.

## 2. Modules

| Module | Models | Extended by |
|---|---|---|
| `SensorLease` | what the capture service promises, abstractly | refined by `CaptureService` |
| `CaptureService` | request loop + `collect` + helper group + clients, composed in one state because each step of one is visible to the other through processes, pipes and sockets | `MCCaptureService`, `CaptureServiceProofs` |
| `DaemonMonitor` | boot, scan of `/proc`, monitor, vendor processes | `MCParts`, `MCDaemonMonitor`, `DaemonMonitorProofs` |
| `EutherDriver` | driver flags, capture thread, its peer, the part of FpImageDevice it relies on | `MCParts`, `EutherDriverProofs` |
| `VfsPipe` | `palPipeRead` and the FIFO | `MCParts`, `PipeAndLogProofs` |
| `StartupLog` | the drain thread, `ready()` and `__exit__` | `MCParts`, `PipeAndLogProofs` |
| `Registry` | Regis' back end with its window's rules, fprintd and the bus | `RegistryProofs`; checked directly |
| `Enrollment` | one enrolment by the guide and one by Regis' back end through the same fprintd: prompts, ends, reports | `MCEnrollment`, `EnrollmentProofs` |
| `UsbMirror` | the launcher, its lookups and its directory, beside the kernel and udev | `UsbMirrorProofs`; checked directly |
| `SddmInstall` | the installers of SDDM, PAM and sudo, the files they change, an administrator | `MCParts`, `SddmInstallProofs` |

The modules meet where one's environment is another's behaviour: `CaptureService`'s variable
`daemon` is what `DaemonMonitor`'s `check` decides ("live" while it does not raise);
`EutherDriver`'s peer is any owner of the socket, `CaptureService` being one; its clients are the
connections that `EutherDriver`'s thread opens, one each; `Registry`'s fprintd is an environment.
`Registry` and `Enrollment` are two views of the same class: the first has all its calls and one
status that ends a job, the second one job with all its signals, and another program beside it.
`UsbMirror`'s child is the sandbox `CaptureService` runs in: its `Finally` and `Kill` are how the
launcher ends it. No module assumes of another what that one does not show.

### CaptureService

`pc` is the place of the service's only thread; `collect` is the set of places `Collecting`. A pipe
is the number of blocks written to it and the number read, and the processes that hold its write
end; `good` says whether what a helper writes would decode, so that `decode` is "this many blocks,
of the good kind" (`Decodes`). The length and limits are constants. Time appears twice: `expired`
(collect's 35-second deadline), and steps that wait (`AcceptTimeout`, `RecvTimeout`). Everything
outside the thread (forks, writes, closes, exits, the loss of the daemon, SIGTERM, SIGKILL,
clients that connect, send and leave) is an action that may happen between any two steps.
The two descriptor registrations, the kill of the group and the wait for the helper in `finally`
are one action each because nothing of the thread's own runs between them; what a descendant does
between the kill's signals is not distinguished.

Assumed: a descendant stays in the helper's process group (one that calls `setsid` would escape
`killpg`, by design of the code), `os.killpg` reaches all of it at once, and the PID namespace dies
with the service. The observers of `collect` only print and, where they call `check`, their
exceptions are swallowed in `finally` (so they have no step of their own).

### DaemonMonitor

`daemon_pids` reads the directory (`StartScan`) and then each entry in its own step (`Visit`), with
vendor steps in between. `seen` is what it returns. `poll` and `waitpid` are the zombie-to-reaped
change in `CheckReap`. `daemonized` says whether the vendor has daemonized by the time it writes its
marker: either may be the case, it is chosen once and the code never reads it. It stands for two
things. From the marker on the vendor forks no more (`Fork`), and when the marker is written
every live process of it is a child of the supervisor, since the parents have exited
(`CreateMarker`). The second is not a consequence of the first: a vendor that is done forking may
still have a live child of a live process, which the snapshot does not find.

### EutherDriver

`state` names libfprint's device state; `thread` the blocking call `capture_thread` is in. `Fails`
is any failure of any call: connection refused, wrong peer, time-out, cancellation. The flags are
changed by the functions that change them in the code, including the re-entrant
`fpi_image_device_deactivate_complete` and `session_error` paths.

### VfsPipe

One variable per local or field of `palPipeRead`, and ghosts (`consumed`, `delivered`, `cut`) that
count bytes taken from the FIFO and bytes of completed messages. Bytes are not named: the property
is about positions. `OpenFifo` succeeds only while there is a writer: `open(path, O_RDONLY)` of a FIFO
waits for one (`src/vfs_pipe.c:27`), perhaps for ever. Nothing is assumed of it and `CallReturns`
speaks of calls that have the FIFO open.

### Registry

`calls` is the set of D-Bus calls whose callback has not run, `inbox` what the bus has delivered,
in order, `sent` what fprintd has not read and `asked` the calls that wait for an authorization.
Each callback of the source is one action that takes a reply off `inbox`; each includes the calls
it makes (`Handle`) and what the window's `done` does in turn (`Complete` refreshes an unknown
register). `dialog` is the window's modal dialog: `Ready` from the press of a button until *Börja*
(or the answer to the confirmation of a deletion), `Running` with a job, `Finished` until it is
dismissed. `Start` is `Registry.start` called by the dialog, `StartRaises` the same call when what
the button saw is no longer so. `Close` is `on_close` during a job: the job is cancelled if it can
be, and `Done` ends the program (`Ended`) instead of showing how it went. Closing an idle window
ends the program too and is left out. Finger names are abstracted to one finger per user. Prompts
and stages are `Enrollment`'s; wording is left out.

### Enrollment

fprintd is external. It is modelled from what the two programs rely on: it serves one claim at a
time, sends `EnrollStatus` and the change of `finger-needed` to *every* program that has a proxy,
and tells the property later than it changes, or not at all if it has changed back, but never after
an enrolment has started that it does not belong to (`Read`). `wire` is what each program's main
context has not dispatched.

The guide (`tools/enroll.py`) is a sequence: `call_sync` runs no handlers, so `answer` is awaited
alone and `wire` grows. `GuideHandle` is one message of an iteration of the main loop, `due` how many
more the iteration dispatches even after `loop.quit()`; this is how a status that is not final can
still come after Ctrl+C or a final status, and set `done` back to False. `GuideCancel` is the SIGINT
source. `CtrlC` is Ctrl+C before, while and after that source exists, where it is a
KeyboardInterrupt or the end of the process. `GuideAfter` holds the `finally` blocks: which of stop
and release follow which failure.

The job (`regis/backend.py`) is what `Registry` says of it, reduced to one enrolment, with what
`_properties`, `_signal` and `_prompt` do (`OnNeeded`, `OnProgress`, `Prompt`, shared with the guide,
whose `finger_needed` and `status` do the same) for each signal. A signal may overtake the reply in
front of it. Time-outs of its calls, lost owners and closing windows are `Registry`'s.

### StartupLog

`drain` is the place of the thread, with a step between `recv` and the lock; what is done with the
lock held is one step. A message is what the daemon was doing when it logged it, which is what the
property tells apart. The thread ends well within the second that `join` gives it.

### UsbMirror

`pc` is the place of the launcher; `Syncing` is one round of `mirror.sync(current_usb_nodes())`, with
a step for each look at the system (`ReadId`, `ReadAddress`, `Stat`) and for the two halves of
`sync`. A node is its address, which determines the device number. `port` is what sysfs shows in the
sensor's port, `dev` the nodes in `/dev`; both change between any two steps. `LookFails` is any
error of a look (sysfs cannot be listed, two sensors, a node that is no USB device). `RemoveFails` is
a failing `unlink` of the obsolete node, which then stays in the directory *and* in `current`,
`AddFails` any failure of the second half, which leaves the old node removed but remembered, and
`CleanupFails` the `unlink` of the last sync. They all end the launcher, and what they leave goes with
the temporary directory: that its own removal (`Rmtree`) succeeds is assumed. The port holds one
device, the sensor or another; a second sensor is only the error it leads to.

### SddmInstall

`file` and `bak` hold what the code tells apart: the reviewed original, the original with our block,
anything else. `install_sudo.py` is `install_sddm_pam.py` with another file and other texts, so its
runs are the same places with `Target` "sudo"; the three files share nothing but the administrator. Each program is a sequence of places; `replace_file` is two steps (`Compare`, `Swap`)
with its arguments in variables of their own and the place it returns to in `then`. Reads that
follow each other without a write between them are one step, since an edit between them is as one
after them. `Fault` is any call that fails, at any place; where it leads (`OnError`) is the code's
`try`: in it, in its `except`, or outside. `Kill` ends the run without a rollback, as Ctrl+C does
(KeyboardInterrupt is not an `Exception`); `Orphan` kills the parent only. Runs follow each other in
any order and number; two runs at a time are not modelled. `Edit` writes other content, or takes our
block out; it does not put it in.

## 3. Runs

All runs are exhaustive over the stated bounds. Sizes are distinct states.

| Run | Question | Bounds | Size |
|---|---|---|---|
| `capture` | One request of any kind: no process outlives its capture, images are whole, no silent close; and, with no deadline counted on, a client that leaves frees the sensor | 1 client, 1 descendant, an image of 1 block, a limit of 1, 2 writes per pipe, any word of up to two bytes | 301 518 |
| `capture_clients` | Does the service implement `SensorLease`, does every queued connection end, and the service after a loss or SIGTERM? | 2 clients, backlog 1, both want an image, no descendants, one block on stdout, a helper that may hang for ever | 295 184 |
| `parts` | Driver: flags, exactness, cancelled images, deactivation. Shim: alignment, termination. Startup log: what is retained. Installers: what is left of any sequence of runs? Monitor: is loss noticed, and only loss; is "no live vcsFPService" true of a vendor that has daemonized? | driver: 2 swipes, images of 2 blocks, peers that send up to 3; shim: messages of up to 3 bytes, 6 in all; log: 4 messages, 2 retained; installers: none but the abstraction of contents; monitor: 3 processes that fork and die freely | 109 764 |
| `monitor_gone` | Is that sentence true also of a vendor that has not? | 3 processes | |
| `registry` | Released reader, busy with a reason, offered fingers exist, the dialog is the job's, no job forgotten or replaced, even if connects overlap | 2 users, 2 jobs, 3 connects, 2 refreshes asked for, 1 death of fprintd, time-outs of 5 methods, refusals | 1 453 495 |
| `registry_live` | Are cancels and a closing window driven to their end? | 1 user, 2 jobs, 2 connects, 2 refreshes asked for, 1 death of fprintd, closing, refusals, time-outs of all 10 methods | 164 723 |
| `registry_claim`, `registry_cancel` | two sentences of the documentation against the code | 1 job | |
| `registry_overlap` | Does *Avbryt* stop a job, if connects may overlap? | 1 job, 3 connects, 1 refresh asked for, 1 death of fprintd, refusals | |
| `enrollment` | One prompt each, nobody waits unknowingly, true reports, a free reader, an end | either program alone with 2 stages and 1 scan to be made again; both with 1 stage; at most one time-out of the guide's calls | 418 479 |
| `enroll_foreign` | Is a success the window shows its own, if the guide enrols as well? | both, 1 stage | |
| `mirror` | What does the sandbox see, and how does the launcher end? | 3 addresses, 3 enumerations of either device in the port | 113 634 |

`parts` checks five small components in one run. They share no state and no step, so that no order
of their steps can matter; composing them freely would only multiply them. `MCParts` therefore takes
the sum: the first step chooses the part that runs and the others stay where they start, where
nothing fair is enabled in them (no thread, no writer, no call, no service yet), so their fairness
conditions hold idly. The installers and the monitor start in one of several states; the part that
runs does so in all of them, a part that stays in one (`OneInstallInit`, `OneMonitorInit`), which
changes nothing but the number of states. Every behaviour of a part is one of the sum.

**Why these bounds.** `capture`: one client suffices for what concerns one capture, because
nothing of a capture survives `Close`; a second client matters only for who waits for whom, which
`capture_clients` checks. One descendant is enough for a pipe held open after the helper's exit,
and for a process left behind. `MaxBlocks` is one more than the image and the limit, so that
images too short, exact and too long all occur, as do reads below, at and over the limit. `parts`:
for the monitor, three processes give a watched parent, a watched child and an unwatched grandchild; two
swipes reach a second capture in the same action, three blocks a peer that sends too much; six
bytes hold a message split in every way followed by another; the log sees more messages
than it retains, before and after `ready`. `enrollment`: two stages and a scan to be made again are
the three kinds of progress (first stage, a later stage, a later attempt) in any order; one stage
suffices for what two programs make of each other's signals. `registry`:
two jobs and three connects reach callbacks of an overtaken connect and of a job that is gone; one
death is enough to meet a job in each of its states. `mirror`: three enumerations take
the sensor to a second address while another device has its first, and back; three addresses keep
one free.

**Deadlock** is checked nowhere, because every system here may stop: the service, the launcher and the
guide exit, and bounded users and peers have done all they may. That nothing waits for ever is
what the liveness properties, `BusyHasReason` and `JobWaits` say.

### Fairness and why the code justifies it

* `CaptureService`: `WF(Serve)`, the service's thread runs; every wait in it has a time-out of its
  own (`settimeout(.5)` and `(5)`, `select(..., .2)`, `proc.wait(timeout=...)`) or, in `finally`,
  follows SIGKILL. `WF(DeadlinePasses)`, the monotonic clock advances. Nothing is assumed of
  clients, helpers or the daemon. `NoClockSpec` drops the second so that `LeavingFreesSensor`
  cannot be satisfied by waiting for the deadline.
* `DaemonMonitor`: `WF(Serving /\ Supervise)`, once the service serves, its loop runs; the vendor may
  do nothing.
* `EutherDriver`: `WF(Thread)`, each call in the thread has a 40-second time-out and the
  cancellable; `WF(MainLoop)` and `WF(Extracted)`, GLib's main loop runs what is ready.
* `VfsPipe`: `WF(Reads \/ EndOfFile)`, `read` returns if there are bytes or no writer. Nothing is
  assumed of `open`; a helper that waits in it is ended by `collect`'s deadline.
* `Registry`: the main loop runs, fprintd reads its calls, and authorizations are answered in the
  end. Nobody has to press a button, and no finger has to be scanned.
* `Enrollment`: `WF(GuideRuns)` and `WF(JobHandle)`, GLib's main loops dispatch what has come and
  `call_sync` returns; `WF(Read(p))` and `WF(Tell)`, fprintd reads its calls and tells its property.
  Nobody has to swipe, press Enter or a button; no call has to time out.
* `UsbMirror`: `WF(Launch)`, the launcher's loop runs, as its only waits are a sleep of 100 ms and
  `wait(timeout=3)`; `WF(Kernel)`, `/dev` follows sysfs in the end. Nothing makes the sandbox end.

### What the runs found

* `monitor_gone`: `DaemonMonitor` watches the children of the service at one moment
  (`tools/service.py:72`). If the vendor forks later, or through a process that is still alive
  then, the service ends with `VFS_DAEMON_GONE: no live vcsFPService` while one lives. Of a vendor
  that has daemonized when it writes its marker the sentence is true (`DaemonizedMeansNoneLive`), and
  that is proved for any number of processes. Both halves of "daemonized" (section 2) are needed:
  without either guard TLC finds it false.
* `registry_claim`: `Claim` is given up after 120 s although its authorization dialog may still be
  open. If the user then authorizes, fprintd claims the reader for a client that believes it has not:
  nobody releases it, although docs/regis.md:35 promises that *Avbryt* does. With `Claim` left out
  of `TimesOut` the same property holds.
* `registry_cancel`: statuses that arrive after *Avbryt* are dropped and the register is not read
  again. An enrolment that completes in that moment is stored while the window shows the finger as
  free ("Ledigt").
* `registry_overlap`: after fprintd vanishes, the error reply of an old refresh clears the `busy` of a
  connect begun meanwhile (`regis/backend.py:158`). The user can then press *Anslut igen* again and,
  when the first connect delivers a device, begin a job; the second connect's failure takes the
  device away. The job finds nothing to call and nobody to wait for, and *Avbryt* does not end it.
  It takes two presses of the button within one round trip. `CancelledJobEnds` fails in the same
  way with three connects; `registry_live` has two, with which none overlap. What survives the overlap
  is checked with three connects in `registry`: the handler of a granted `Claim` that finds no device
  is the *only* step that forgets a job (`JobWaits` names it, as `DeviceMissing`); and although a job may
  then run with `busy` false, which is all that `Registry.start` looks at, no other job replaces it
  (`JobNotReplaced`), since the modal dialog lets no button be pressed.
* `enroll_foreign`: `_signal` counts every `EnrollStatus` from the start of a job on. While its
  `Claim` waits for an authorization the reader may be the guide's (or any other program's); when
  that enrolment completes, its result is kept in `terminal`, and as soon as the job's own
  `EnrollStart` returns, it is stopped and reported as "Fingeravtrycket är registrerat." The finger is
  not. The guide has the same hole, as its handlers are connected before it claims. With either
  program alone the report is true, and that is proved (`TrueReports`).

Not runs of their own, but seen while choosing bounds (raise the bound to reproduce):

* `registry` with "Delete" in `TimesOut`: a deletion that timed out is carried out later and the
  finger is shown as registered until the next refresh.
* The installers: a kill between `open('xb')` and the write of a backup leaves an empty one. It is never
  taken for the original, but every later `--apply` and `--remove` refuses until it is deleted by
  hand. An edit between `replace_file`'s comparison and its `os.replace` is lost, which is the whole
  of what escapes `ReplacesWhatItRead`. If the rollback of sddm.conf fails, that of PAM is not tried.
  After `install_sddm_pam.py --apply` alone, `install_sddm.py --remove` fails for want of a backup
  of sddm.conf; `install_sddm_pam.py --remove` works.

## 4. Proofs

Each proof module extends the module it is about. Every theorem holds for all values of the
constants that satisfy the module's one named assumption, and is checked down to its leaves. Two
theorems have further hypotheses, about which calls the bus gives up: `ReaderIsReleased` and
`OnlyStoredIsOffered` (below). All others assume nothing more.

| Module | Theorems |
|---|---|
| `CaptureServiceProofs` | `TypeCorrect`, `HelperConfinement`, `ImageIntegrity`, `AnswerBeforeClose`, `ImplementsLease` (`LeaseSpec`) |
| `RegistryProofs` | `RegistryTypes`, `ReaderIsReleased` (`ReaderReleased`), `NeverBusyForGood` (`BusyHasReason`), `DialogIsTheJobs` (`DialogIsJobs`), `JobsWaitForAnswers` (`JobWaits`), `JobsAreNotReplaced` (`JobNotReplaced`), `OnlyStoredIsOffered` (`OfferedIsStored`) |
| `EnrollmentProofs` | `EnrollmentTypes`, `OnePromptEach` (`PromptedOnce`), `TrueReports` (`ReportIsTrue`), `ReaderIsLeftFree` (`ReaderLeftFree`), `WaitersArePrompted` (`WaitingIsPrompted`) |
| `DaemonMonitorProofs` | `MonitorTypes`, `WatchedDead`, `NoneLive` (`DaemonizedMeansNoneLive`) |
| `EutherDriverProofs` | `DriverTypes`, `PendingTruth`, `AwaitedIsCaptured`, `DriverImageExact`, `CancelledImageDropped` |
| `PipeAndLogProofs` | `PipeTypes`, `PipeAligned` (`Aligned`), `OnlyStartupRetained` (`RetainsOnlyStartup`) |
| `UsbMirrorProofs` | `MirrorTypes`, `OneNodeAtATime`, `CleanEnd` |
| `SddmInstallProofs` | `InstallTypes`, `ThemeThere`, `AlwaysRestorable`, `OutcomeIsTrue`, `OnlyLateEditsLost` |

The first theorem of each module is its type invariant; no run checks those as well.

Each rests on an inductive invariant (`IInv`; in `RegistryProofs` `Core`, `Good` and `Sound`, in `EnrollmentProofs` `Good`)
whose conjuncts are named for their subject:

* **CaptureService.** `ImageIsWhole` is not inductive: at `send` the exit status says nothing about
  the pipe. What carries it is `EofInv` (a pipe leaves the selector only when it is read to its end
  and nobody holds it, so nothing can be written later), `GroupInv` (only live processes of the
  group hold pipes, and groups live only inside `collect`) and `OutcomeInv` (a success on its way
  out is one). `AnsweredInv` adds to `NoSilentClose` that a connection about to be closed has been
  answered, and `CurServed` that there is a current connection exactly between accept and close.
  *The refinement:* every step of the service, of `collect`, of the helper and of the clients is a
  step of `SensorLease` or leaves its variables alone. Two more invariants carry it: `QueueInv` (a
  client is queued once, and one that is queued has neither been served nor answered) and `FreshInv`
  (the one being served has been sent nothing before its answer, except the part of a frame that an
  error follows).
* **Registry, whatever the bus gives up.** `Core` carries `RegistryTypes`, `NeverBusyForGood`,
  `DialogIsTheJobs`, `JobsWaitForAnswers` and `JobsAreNotReplaced`, which assume nothing of time-outs
  and nothing of the number of connects or their overlap. `BusyInv` names the calls whose callback
  clears `busy`. `DialogInv` ties the dialog to the job, and with it who can begin one: `Start` needs
  the dialog to be `Ready`, so no job is there to be replaced. For `JobWaits`: jobs are numbered as they
  start (`NumberInv`), so an old job's call is never the new one's; of the calls that begin a job
  (`Claim`, the start, a deletion) there is at most one, and while it is out the job is pending and not
  ending (`BeginsInv`); and its answer is in the inbox once, while the client still waits for it
  (`AnswerInv`). Then each step either leaves a waiting job's call alone, or takes its answer and makes
  the next call (`WaitKept`), or ends the job, or is `DeviceMissing`.
* **Registry, the reader.** `ReaderReleased` speaks of a quiet client; what is inductive (`Good`) is who
  owes the release at any other time: `HeldInv`, if the reader is claimed, its release has been sent, or
  the reply that tells the client of the claim is on its way, or the client has a job that knows of it
  and has not sent its release. It survives because a `Claim` that may still be granted is the
  running job's and is in one place only, the queue of fprintd, the user's dialog or the inbox
  (`ClaimsInv`); because calls are numbered by the jobs that made them (`KnownInv`), so that a reply
  of an earlier job is never taken for this one's; because the flags of a job say how far it got
  (`PhaseInv`); and because a client that has not yet seen that fprintd is gone gets none of its calls
  through (`OwnerInv`). What the bus may do with a call is stated for any method `m` (`OnBus(m)`) and
  preserved by lemmas that name only what a step sends and takes off the inbox (`Moved`); `Claim` and
  `Delete` are its two instances.
  *Hypothesis:* `"Claim" \notin TimesOut`, which the code contradicts: it gives up a `Claim` after
  120 s. Without it `ReaderReleased` is false, which is the finding of `registry_claim`. All other
  calls may time out, so a `Claim` given up is the only time-out that can leave the reader claimed.
* **Registry, what is offered.** `OfferedIsStored` again speaks of a quiet client. At any other time
  (`Sound`) a finger that is shown but not stored has been deleted by a job that is about to say so
  (`ShownInv`, `Hides`), or the answer to its deletion is in the inbox; and (`ListedInv`) every "yes" of
  a `List` in the inbox that is no longer true is *followed* by that answer, so that handling it does
  not undo what the client has learned. It needs that fprintd deletes the finger the job is about
  (`HolderInv`: the reader is claimed for the job's user), that a job whose `Delete` is under way is not
  cancelled and takes the answer for its own success (`DeleteInv`), and that a job's calls are a `Claim`,
  its start, and then a stop and a release (`ChainInv`). Connects may overlap here.
  *Hypotheses:* `"Delete" \notin TimesOut` and `"Claim" \notin TimesOut`. The code gives up both after
  120 s. Without the first the statement is false (section 3, *Not runs of their own*). The second is
  needed by the proof, which builds on `Good`; it is not known to be needed by the statement: with
  `Claim` in `TimesOut`, two users and three connects TLC finds no violation.
* **Enrollment.** `PromptedOnce` is inductive with the types, by two lemmas about `Prompt` and
  `OnProgress`. For `ReportIsTrue`: `EvidenceInv`, as long as nothing has been stored, nobody has
  heard, noted or reported a completed enrolment. For `ReaderLeftFree`: `GuideInv` and `JobInv`, at each
  place either the call of that place is unread or its reply has come, so that a program that
  reaches its end has seen its release answered. For `WaitingIsPrompted`: `Follow` relates three
  things that agree only when nothing is on the wire. `Knows`: the last news of `finger-needed` on the
  wire of a program is `told`, and without news the program's own view is. `Counts`: the stages a
  lone program has counted and the statuses it is still to hear add up to `level`. `AskedInv`: a
  program whose loop runs owes no prompt for what it knows. With an empty wire they leave only the
  prompt the property asks for.
* **DaemonMonitor.** `ScanInv`: of the processes it watches, those alive are on the list still to
  be looked at or already found. It survives deaths and reaps, and forks, since a process forked
  during the scan is not watched. `DaemonizedInv` extends this to the constructor's snapshot.
* **EutherDriver.** `FlagsInv` ties the flags to the device's state (a task is pending only while a
  finger is awaited or a deactivation waits for it), `ThreadInv` says what the thread has already
  verified of its peer. `CancelledImageDropped` is an action property from the same invariant.
* **VfsPipe.** `Apart`: inside a call, `consumed = delivered + received` until a call is cut short.
* **StartupLog.** `RecordInv`: while the log records, what the thread has in hand and what is in the
  socket are of the start, since the service that could capture has not begun to serve. `KeptInv`
  and `EndInv` say where what was kept can be after that.
* **UsbMirror.** `ViewInv`: the directory holds no more than `current`, `current` is one node at most,
  and once the obsolete node is removed nothing is left that sync does not want. `ChildInv`: at which
  places there is a sandbox.
* **SddmInstall.** One conjunct per phase: `PrepInv` (what is saved and installed by which place),
  `JobInv` (what `replace_file` is about to write, and that its caller had the right to), `RollInv` and
  `RemoveInv` (what the rollback and restore have undone so far), `SwapInv` (what was compared is
  still there, or was edited late). The model has no constants and finitely many states, so the run
  already covers all of them; the proof says why they are safe.

**Only model-checked.** Liveness (`EveryConnectionEnds`, `ServiceEnds`, `LeavingFreesSensor`,
`LossIsNoticed`, `WatchedAreReaped`, `DeactivationCompletes`, `CallReturns`, `CancelledJobEnds`,
`EnrollmentEnds`, `SensorAppears`, `OthersDisappear`, `LauncherEnds`): fairness and ENABLED are beyond
the prover used. The action part of `WatchedAreReaped` is checked with its liveness part. Every other
invariant and action property of a passing run is stated by a theorem. `ReaderReleased`
and `OfferedIsStored` are proved under the hypotheses named above, and checked under the same
(`Registry.cfg` leaves `Claim` and `Delete` out of `TimesOut`).

## 5. Not modelled

* Login theme: three flags, each set by one handler in one thread. What could go wrong is the order
  of sddm's own signals, which nothing in the repository states.
* What a power failure leaves of files that were not synchronized (`install_sddm.py:72` copies the
  theme without `fsync` before sddm.conf names it): it depends on the file system.
* Of Regis' window, `select_finger`, layout and wording; of the guide, the look-up of the device.
* Two installers that run at the same time.
* Not worth it: `src/capture.c` (a fixed sequence of calls), the shell installers, probes, builds.
* Abstracted: pixel values and the PGM file, messages and their wording, the numbers of the
  time-outs (a time-out may always happen first unless a run says otherwise), names of fingers.

## 6. Plan

Done, in the order of what matters most to a user of the system: the service and its driver, the
monitor, the pipe, Regis, launcher and installers (SDDM, PAM, sudo); then the enrolment of both
programs, the startup log, the refinement `LeaseSpec` as a theorem, and the proofs about `Registry`
and `Enrollment`, which now cover every invariant and action property that a passing run checks.

What is left, and worth doing:

1. `EutherDriver` composed with `CaptureService`: the driver's cancel frees the sensor before its next
   capture is served.
2. `SddmInstall` with two runs at a time.
