-------------------------- MODULE PipeAndLogProofs --------------------------
(***************************************************************************)
(* Proofs about the two smallest parts.  VfsPipe: its types, and that the  *)
(* reader of the FIFO always stands between two messages, for every size   *)
(* of message.  StartupLog: its types, and that only startup messages are  *)
(* retained, for every length and whatever the daemon logs.                *)
(***************************************************************************)
EXTENDS VfsPipe, StartupLog, TLAPS

-----------------------------------------------------------------------------
(* The pipe                                                                *)

\* What a call has read is what separates the bytes taken from the FIFO and
\* the messages returned, until a call is cut short.
InCall == at = "read" => received < count
Apart  == ~cut => IF at = "idle" THEN consumed = delivered
                  ELSE consumed = delivered + received
Opening == at = "open" => received = 0 /\ count > 0
PipeIInv == PipeTypeOK /\ InCall /\ Apart /\ Opening

LEMMA PipeInitIInv == PipeInit => PipeIInv
<1> SUFFICES ASSUME PipeInit PROVE PipeIInv
  OBVIOUS
<1>1. at \in {"idle", "open", "read"} /\ hungup \in BOOLEAN /\ cut \in BOOLEAN
  BY DEF PipeInit
<1>2. fd \in {-1, 0} /\ rc \in {0, 40, 207}
  BY DEF PipeInit
<1>3. count \in 0..MaxCount /\ received \in 0..count
  BY PipeAssumption DEF PipeInit
<1>4. written \in Nat /\ consumed \in 0..written /\ delivered \in Nat
  BY DEF PipeInit
<1>5. InCall /\ Apart /\ Opening
  BY DEF PipeInit, InCall, Apart, Opening
<1> QED
  BY <1>1, <1>2, <1>3, <1>4, <1>5 DEF PipeIInv, PipeTypeOK

LEMMA PipeStepIInv == PipeIInv /\ [PipeNext]_pipeVars => PipeIInv'
<1> SUFFICES ASSUME PipeIInv, [PipeNext]_pipeVars PROVE PipeIInv'
  OBVIOUS
<1> USE PipeAssumption DEF PipeIInv, PipeTypeOK, InCall, Apart, Opening
<1>1. ASSUME NEW n \in 0..(MaxCount + 1), Call(n) PROVE PipeIInv'
  BY <1>1 DEF Call, fifo
<1>2. CASE OpenFifo
  <2>1. PipeTypeOK'
    BY <1>2 DEF OpenFifo, fifo
  <2>2. (InCall /\ Apart /\ Opening)'
    BY <1>2 DEF OpenFifo, fifo
  <2> QED BY <2>1, <2>2
<1>3. ASSUME NEW n \in 1..MaxCount, Read(n) PROVE PipeIInv'
  <2>1. received + n <= count /\ received + n \in 0..count
    BY <1>3 DEF Read
  <2>2. consumed + n \in 0..written
    BY <1>3 DEF Read
  <2>3. CASE received + n = count
    BY <1>3, <2>1, <2>2, <2>3 DEF Read, fifo
  <2>4. CASE received + n # count
    BY <1>3, <2>1, <2>2, <2>4 DEF Read, fifo
  <2> QED BY <2>3, <2>4
<1>4. CASE ReadFails
  <2>1. PipeTypeOK'
    BY <1>4 DEF ReadFails, fifo
  <2>2. ~cut' => ~cut /\ ~(received > 0)
    BY <1>4 DEF ReadFails
  <2>3. (InCall /\ Apart /\ Opening)'
    BY <1>4, <2>2 DEF ReadFails, fifo
  <2> QED BY <2>1, <2>3
<1>5. CASE Write \/ Hangup
  <2>1. PipeTypeOK'
    <3>1. CASE Write
      BY <3>1 DEF Write, call
    <3>2. CASE Hangup
      BY <3>2 DEF Hangup, call
    <3> QED BY <1>5, <3>1, <3>2
  <2>2. (InCall /\ Apart /\ Opening)'
    BY <1>5 DEF Write, Hangup, call
  <2> QED BY <2>1, <2>2
<1>6. CASE UNCHANGED pipeVars
  BY <1>6 DEF pipeVars, call, fifo
<1> QED
  BY <1>1, <1>2, <1>3, <1>4, <1>5, <1>6 DEF PipeNext, Reads

\* Every variable keeps its type: a call never has room for less than it has
\* read, and never takes bytes nobody has written.
THEOREM PipeTypes == PipeSpec => []PipeTypeOK
<1>1. PipeIInv => PipeTypeOK
  BY DEF PipeIInv
<1> QED
  BY <1>1, PipeInitIInv, PipeStepIInv, PTL DEF PipeSpec

\* However the FIFO splits its messages, the bytes palPipeRead has taken are
\* exactly the messages it has returned, unless a call was cut short.
THEOREM PipeAligned == PipeSpec => []Aligned
<1>1. PipeIInv => Aligned
  BY DEF PipeIInv, PipeTypeOK, Apart, Aligned
<1> QED
  BY <1>1, PipeInitIInv, PipeStepIInv, PTL DEF PipeSpec

-----------------------------------------------------------------------------
(* The startup log                                                         *)

LogTypes ==
  /\ main \in {"boot", "serve", "join", "over"} /\ drain \in {"check", "recv", "got", "over"}
  /\ {error, record, stopping} \subseteq BOOLEAN /\ logged \in Nat
  /\ socket \in Seq(Messages) /\ messages \in Seq(Messages) /\ printed \in Seq(Messages)
  /\ message \in Messages

Startup(log) == \A i \in DOMAIN log : log[i] = "startup"

\* As long as the thread records, the service has not served: whatever is on its
\* way to the thread, or in its hands, is about the start.
RecordInv == record => main # "serve" /\ Startup(socket) /\ message = "startup"

\* What is retained, and what has been made of it.
KeptInv ==
  /\ Startup(messages) /\ Len(messages) <= MaxLen
  /\ Startup(printed) /\ Len(printed) <= MaxLen
  /\ ~record => messages = <<>> /\ printed = <<>>

\* Nothing has been printed before the end, and ready() runs only at the start.
EndInv == main # "over" => printed = <<>>

LogIInv == LogTypes /\ RecordInv /\ KeptInv /\ EndInv

LEMMA LogInitIInv == LogInit => LogIInv
<1> SUFFICES ASSUME LogInit PROVE LogIInv
  OBVIOUS
<1>1. LogTypes
  <2>1. {error, record, stopping} \subseteq BOOLEAN
    BY DEF LogInit
  <2>2. <<>> \in Seq(Messages)
    OBVIOUS
  <2> QED BY <2>1, <2>2 DEF LogInit, LogTypes, Messages
<1>2. RecordInv /\ KeptInv /\ EndInv
  BY LogAssumption DEF LogInit, RecordInv, KeptInv, EndInv, Startup
<1> QED BY <1>1, <1>2 DEF LogIInv

LEMMA StartupAppend ==
  ASSUME NEW log \in Seq(Messages), NEW m \in Messages
  PROVE  /\ Append(log, m) \in Seq(Messages)
         /\ Len(Append(log, m)) = Len(log) + 1 /\ Len(log) \in Nat
         /\ Startup(log) /\ m = "startup" => Startup(Append(log, m))
<1>1. /\ Append(log, m) \in Seq(Messages) /\ Len(Append(log, m)) = Len(log) + 1
      /\ Len(log) \in Nat /\ DOMAIN log = 1..Len(log)
  OBVIOUS
<1>2. ASSUME Startup(log), m = "startup", NEW i \in DOMAIN Append(log, m)
      PROVE  Append(log, m)[i] = "startup"
  <2>1. i \in 1..(Len(log) + 1)
    BY <1>1
  <2>2. CASE i = Len(log) + 1
    BY <1>2, <2>2
  <2>3. CASE i \in DOMAIN log
    BY <1>2, <2>3 DEF Startup
  <2> QED BY <1>1, <2>1, <2>2, <2>3
<1> QED BY <1>1, <1>2 DEF Startup

LEMMA StartupTail ==
  ASSUME NEW log \in Seq(Messages), log # <<>>
  PROVE  /\ Tail(log) \in Seq(Messages) /\ Len(Tail(log)) = Len(log) - 1
         /\ Head(log) \in Messages
         /\ Startup(log) => Startup(Tail(log)) /\ Head(log) = "startup"
  BY DEF Startup

LEMMA LogStepIInv == LogIInv /\ [LogNext]_logVars => LogIInv'
<1> SUFFICES ASSUME LogIInv, [LogNext]_logVars PROVE LogIInv'
  OBVIOUS
<1> USE DEF LogIInv, worker, kept, ending
<1>1. CASE Log
  <2> PICK m \in Messages : /\ m = "capture" => main = "serve"
                            /\ socket' = IF main = "over" THEN socket ELSE Append(socket, m)
    BY <1>1 DEF Log
  <2>1. /\ socket' \in Seq(Messages)
        /\ Startup(socket) /\ m = "startup" => Startup(socket')
    BY StartupAppend DEF LogTypes
  <2>2. LogTypes'
    BY <1>1, <2>1 DEF Log, LogTypes
  <2>3. RecordInv'
    BY <1>1, <2>1 DEF Log, RecordInv, Messages, Startup
  <2>4. KeptInv' /\ EndInv'
    BY <1>1 DEF Log, KeptInv, EndInv, Startup
  <2> QED BY <2>2, <2>3, <2>4
<1>2. CASE CheckStop
  BY <1>2 DEF CheckStop, LogTypes, RecordInv, KeptInv, EndInv, Startup
<1>3. CASE Receive
  <2>1. CASE socket = <<>>
    BY <1>3, <2>1 DEF Receive, LogTypes, RecordInv, KeptInv, EndInv, Startup
  <2>2. CASE socket # <<>>
    <3>1. /\ message' = Head(socket) /\ socket' = Tail(socket) /\ drain' = "got"
          /\ UNCHANGED <<main, logged, record, messages, error, stopping, printed>>
      BY <1>3, <2>2 DEF Receive
    <3>2. /\ socket' \in Seq(Messages) /\ message' \in Messages
          /\ Startup(socket) => Startup(socket') /\ message' = "startup"
      BY <2>2, <3>1, StartupTail DEF LogTypes
    <3>3. LogTypes'
      BY <3>1, <3>2 DEF LogTypes
    <3>4. RecordInv' /\ KeptInv' /\ EndInv'
      BY <3>1, <3>2 DEF RecordInv, KeptInv, EndInv, Startup
    <3> QED BY <3>3, <3>4
  <2> QED BY <2>1, <2>2
<1>4. CASE AppendIfRecording
  <2> DEFINE all == Append(messages, message)
  <2>1. /\ all \in Seq(Messages) /\ Len(all) = Len(messages) + 1 /\ Len(messages) \in Nat
        /\ Startup(messages) /\ message = "startup" => Startup(all)
    BY StartupAppend DEF LogTypes
  <2>2. /\ main' = main /\ printed' = printed /\ record' = record /\ drain' = "check"
        /\ UNCHANGED <<logged, socket, message, error, stopping>>
        /\ messages' = IF record THEN Kept(message) ELSE messages
    BY <1>4 DEF AppendIfRecording
  <2>3. ASSUME record
        PROVE  messages' \in Seq(Messages) /\ Startup(messages') /\ Len(messages') <= MaxLen
    <3>0. Startup(all)
      BY <2>1, <2>3 DEF RecordInv, KeptInv
    <3>1. CASE Len(all) > MaxLen
      <4>1. messages' = Tail(all)
        BY <2>2, <2>3, <3>1 DEF Kept
      <4>2. all # <<>>
        BY <2>1
      <4> HIDE DEF all
      <4>3. /\ Tail(all) \in Seq(Messages) /\ Len(Tail(all)) = Len(all) - 1
            /\ Startup(Tail(all))
        BY <2>1, <3>0, <4>2, StartupTail
      <4> QED BY <2>1, <4>1, <4>3, LogAssumption DEF KeptInv
    <3>2. CASE ~(Len(all) > MaxLen)
      <4>1. messages' = all
        BY <2>2, <2>3, <3>2 DEF Kept
      <4> QED BY <2>1, <3>0, <3>2, <4>1, LogAssumption DEF RecordInv, KeptInv
    <3> QED BY <3>1, <3>2
  <2> HIDE DEF all
  <2>4. LogTypes'
    BY <2>2, <2>3 DEF LogTypes
  <2>5. RecordInv' /\ KeptInv' /\ EndInv'
    BY <2>2, <2>3 DEF RecordInv, KeptInv, EndInv, Startup
  <2> QED BY <2>4, <2>5
<1>5. CASE Ready
  BY <1>5, LogAssumption DEF Ready, LogTypes, RecordInv, KeptInv, EndInv, Startup
<1>6. CASE Leave
  BY <1>6 DEF Leave, LogTypes, RecordInv, KeptInv, EndInv, Startup
<1>7. CASE Exit
  <2>1. printed' = messages \/ printed' = <<>>
    BY <1>7 DEF Exit
  <2>2. LogTypes'
    BY <1>7, <2>1 DEF Exit, LogTypes
  <2>3. RecordInv' /\ KeptInv' /\ EndInv'
    BY <1>7, <2>1, LogAssumption DEF Exit, RecordInv, KeptInv, EndInv, Startup
  <2> QED BY <2>2, <2>3
<1>8. CASE UNCHANGED logVars
  BY <1>8 DEF logVars, LogTypes, RecordInv, KeptInv, EndInv, Startup
<1> QED
  BY <1>1, <1>2, <1>3, <1>4, <1>5, <1>6, <1>7, <1>8 DEF LogNext

\* StartupLog prints at most maxlen messages, all of the start, and retains none
\* once ready() has run, even if drain held one between recv and the lock.
THEOREM OnlyStartupRetained == LogSpec => []RetainsOnlyStartup
<1>1. LogIInv => RetainsOnlyStartup
  BY DEF LogIInv, KeptInv, RetainsOnlyStartup, Startup
<1> QED
  BY <1>1, LogInitIInv, LogStepIInv, PTL DEF LogSpec
=============================================================================
