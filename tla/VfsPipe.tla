------------------------------ MODULE VfsPipe ------------------------------
(***************************************************************************)
(* palPipeRead of src/vfs_pipe.c: an exact read of one message from the    *)
(* FIFO the vendor daemon writes.  The library it replaces read once and   *)
(* took a short read for the message, after which every later message was  *)
(* read from the wrong place.  Bytes are counted, not named.               *)
(***************************************************************************)
EXTENDS Integers

CONSTANTS
  MaxCount,  \* the largest message the shim accepts (8 MiB)
  Bound      \* bound: bytes ever written to the FIFO

ASSUME PipeAssumption == MaxCount \in Nat \ {0} /\ Bound \in Nat

VARIABLES
  at,        \* "idle", "open", "read"
  fd,        \* pipe->fd: -1 or 0
  count,     \* bytes this call is to deliver
  received,  \* bytes it has read
  rc,        \* what the last call returned
  written,   \* bytes written to the FIFO so far
  hungup,    \* no writer is left
  consumed,  \* bytes read from the FIFO so far
  delivered, \* bytes of all calls that returned 0
  cut        \* a call has failed in the middle of its message

call  == <<at, fd, count, received, rc>>
fifo  == <<written, hungup>>
pipeVars  == <<call, fifo, consumed, delivered, cut>>

PipeInit ==
  /\ at = "idle" /\ fd = -1 /\ count = 0 /\ received = 0 /\ rc = 0
  /\ written = 0 /\ hungup = FALSE
  /\ consumed = 0 /\ delivered = 0 /\ cut = FALSE

\* A length of zero or above the limit is refused before anything is read.
Call(n) ==
  /\ at = "idle"
  /\ IF n = 0 \/ n > MaxCount
     THEN rc' = 40 /\ UNCHANGED <<at, count, received>>
     ELSE /\ count' = n /\ received' = 0
          /\ at' = IF fd = -1 THEN "open" ELSE "read"
          /\ UNCHANGED rc
  /\ UNCHANGED <<fd, fifo, consumed, delivered, cut>>

\* The FIFO is opened once, by the first call that needs it.  open(O_RDONLY)
\* of a FIFO does not return while nobody has it open for writing.
OpenFifo ==
  /\ at = "open"
  /\ \/ ~hungup /\ fd' = 0 /\ at' = "read" /\ UNCHANGED rc
     \/ rc' = 207 /\ at' = "idle" /\ UNCHANGED fd
  /\ UNCHANGED <<count, received, fifo, consumed, delivered, cut>>

\* Wrong: what the original does, one read and done.
ReadOnce(n) ==
  /\ at = "read" /\ n <= count - received /\ n <= written - consumed
  /\ received' = received + n /\ consumed' = consumed + n
  /\ at' = "idle" /\ rc' = 0 /\ delivered' = delivered + count
  /\ UNCHANGED <<fd, count, fifo, cut>>

\* read returns n bytes, at most those there are and those still missing.
Read(n) ==
  /\ at = "read" /\ n <= count - received /\ n <= written - consumed
  /\ received' = received + n /\ consumed' = consumed + n
  /\ IF received + n = count
     THEN at' = "idle" /\ rc' = 0 /\ delivered' = delivered + count
     ELSE UNCHANGED <<at, rc, delivered>>
  /\ UNCHANGED <<fd, count, fifo, cut>>

\* Wrong: the end of the file is one more short read, and read again.
ReadFailsNever ==
  /\ at = "read" /\ ~(hungup /\ written = consumed)
  /\ rc' = 40 /\ at' = "idle" /\ cut' = (cut \/ received > 0)
  /\ UNCHANGED <<fd, count, received, fifo, consumed, delivered>>

\* End of file, or an error that is not EINTR.
ReadFails ==
  /\ at = "read"
  /\ rc' = 40 /\ at' = "idle" /\ cut' = (cut \/ received > 0)
  /\ UNCHANGED <<fd, count, received, fifo, consumed, delivered>>

\* The daemon at the other end.
Write == /\ written < Bound /\ ~hungup /\ written' = written + 1
         /\ UNCHANGED <<call, hungup, consumed, delivered, cut>>
Hangup == /\ ~hungup /\ hungup' = TRUE
          /\ UNCHANGED <<call, written, consumed, delivered, cut>>

Reads == \E n \in 1..MaxCount : Read(n)
EndOfFile == hungup /\ written = consumed /\ ReadFails
PipeNext == \/ \E n \in 0..(MaxCount + 1) : Call(n)
        \/ OpenFifo \/ Reads \/ ReadFails \/ Write \/ Hangup

PipeSpec == PipeInit /\ [][PipeNext]_pipeVars

\* read returns when there is something to return, or nobody left to write.
\* Of open nothing is assumed: the daemon may never open its end.
PipeFairness == WF_pipeVars(Reads \/ EndOfFile)

-----------------------------------------------------------------------------
\* Types: a call never reads more than its message, nor what nobody wrote.
PipeTypeOK ==
  /\ at \in {"idle", "open", "read"} /\ fd \in {-1, 0}
  /\ count \in 0..MaxCount /\ received \in 0..count /\ rc \in {0, 40, 207}
  /\ written \in Nat /\ hungup \in BOOLEAN
  /\ consumed \in 0..written /\ delivered \in Nat /\ cut \in BOOLEAN

\* As long as no call was cut short, the reader stands between two messages
\* whenever no call is under way, however the FIFO split what was written:
\* the bytes taken from it are the messages returned, no byte more or less.
Aligned == ~cut /\ at = "idle" => consumed = delivered

\* A call that has the FIFO open and whose message is in it, or will never be,
\* returns.  Nothing is said of a call that still opens it: without a writer
\* palPipeRead may wait in open for ever (collect's deadline ends that helper).
CallReturns ==
  (at = "read" /\ (hungup \/ written - consumed >= count - received))
    ~> (at = "idle")
=============================================================================
