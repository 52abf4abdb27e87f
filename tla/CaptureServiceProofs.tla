------------------------ MODULE CaptureServiceProofs ------------------------
(***************************************************************************)
(* What CaptureService.tla keeps true for every number of clients, every   *)
(* frame size and limit and any set of descendants.                        *)
(***************************************************************************)
EXTENDS CaptureService, TLAPS

\* A request is being served exactly between accept and close.
CurServed == cur \in Clients <=> pc \notin {"loop", "accept", "exited"}

\* Live processes of a group exist only inside collect, only live processes
\* hold pipes, and a helper with an exit status is not alive.
GroupInv ==
  /\ group # {} => pc \in Collecting
  /\ \A f \in Pipes : holders[f] \subseteq group
  /\ code # "none" => "helper" \notin group

\* Events are pending only while they are being handled.
ReadyInv == ready # {} => pc = "events"

\* A pipe has left the selector's map only at its end: nothing is unread and
\* nobody is left to write to it.
EofInv ==
  /\ pc \in Collecting =>
       \A f \in Pipes : f \notin watched =>
                          got[f] = written[f] /\ holders[f] = {}
  /\ pc = "wait" => watched \cap Pipes = {}

\* A success that collect is about to return is a success.
OutcomeInv ==
  /\ pc = "send" => outcome = "frame" /\ group = {}
  /\ pc \in {"cleanup", "send"} /\ outcome = "frame" =>
       /\ got["stdout"] = FrameBlocks /\ written["stdout"] = FrameBlocks
       /\ holders["stdout"] = {} /\ good /\ code = "ok"

\* A connection about to be closed has had its answer.
AnsweredInv ==
  /\ NoSilentClose
  /\ pc = "close" => reply[cur] # <<>> \/ client[cur] = "closed"

IInv == /\ CurServed /\ ReadyInv /\ GroupInv /\ EofInv
        /\ OutcomeInv /\ AnsweredInv

-----------------------------------------------------------------------------
\* recv takes the first byte, if there is one.
LEMMA ConsumedType ==
  ASSUME TypeOK, cur \in Clients, Consumed
  PROVE  inbox' \in [Clients -> Seq(Bytes)]
<1> inbox[cur] \in Seq(Bytes)
  BY DEF TypeOK
<1> inbox[cur] # <<>> => Tail(inbox[cur]) \in Seq(Bytes)
  OBVIOUS
<1> DEFINE t == Tail(inbox[cur])
<1> HIDE DEF t
<1> QED BY DEF TypeOK, Consumed, t

\* sendall adds one answer to what a client has been sent.
LEMMA AnsweredType ==
  ASSUME TypeOK, cur \in Clients, NEW a \in Answers,
         reply' = [reply EXCEPT ![cur] = Append(@, a)]
  PROVE  /\ reply' \in [Clients -> Seq(Answers)]
         /\ reply'[cur] # <<>>
         /\ \A c \in Clients \ {cur} : reply'[c] = reply[c]
<1> DEFINE r == Append(reply[cur], a)
<1>1. r \in Seq(Answers) /\ r # <<>>
  <2>1. reply[cur] \in Seq(Answers)
    BY DEF TypeOK
  <2>2. Len(r) = Len(reply[cur]) + 1 /\ Len(reply[cur]) \in Nat
    BY <2>1
  <2> QED BY <2>1, <2>2
<1> HIDE DEF r
<1>2. reply' = [reply EXCEPT ![cur] = r]
  BY DEF r
<1> QED BY <1>1, <1>2 DEF TypeOK

LEMMA InitTypeOK == Init => TypeOK
<1> SUFFICES ASSUME Init PROVE TypeOK
  OBVIOUS
<1>1. <<>> \in Seq(Clients) /\ <<>> \in Seq(Bytes) /\ <<>> \in Seq(Answers)
  OBVIOUS
<1> DEFINE e == <<>>
<1>2. /\ inbox \in [Clients -> Seq(Bytes)]
      /\ reply \in [Clients -> Seq(Answers)]
      /\ backlog \in Seq(Clients)
  BY <1>1 DEF Init
<1>3. /\ holders \in [Pipes -> SUBSET Procs]
      /\ written \in [Pipes -> Nat] /\ got \in [Pipes -> Nat]
      /\ client \in [Clients -> {"new", "open", "sent", "closed"}]
  BY DEF Init
<1> QED BY <1>2, <1>3 DEF Init, TypeOK, Places

\* Every step of the service keeps the types.
LEMMA ServeTypeOK == TypeOK /\ IInv /\ Serve => TypeOK'
<1> SUFFICES ASSUME TypeOK, CurServed, ReadyInv, Serve PROVE TypeOK'
  BY DEF IInv
<1> USE ServiceAssumption DEF TypeOK, CurServed, Places, Collecting
<1> USE DEF world, helper, collect
<1>1. CASE LoopEnds
  BY <1>1 DEF LoopEnds, Shutdown, Forget, Pipes
<1>2. CASE LoopContinues \/ AcceptTimeout \/ Recv \/ RecvTimeout
  BY <1>2 DEF LoopContinues, AcceptTimeout, Recv, RecvTimeout, Jump
<1>3. CASE Accept
  BY <1>3 DEF Accept
<1>4. CASE DispatchFails
  BY <1>4, ConsumedType DEF DispatchFails
<1>5. CASE DispatchAnswer
  <2>1. cur \in Clients /\ inbox' \in [Clients -> Seq(Bytes)]
    BY <1>5, ConsumedType DEF DispatchAnswer
  <2>2. reply' \in [Clients -> Seq(Answers)]
    BY <1>5, <2>1, AnsweredType DEF DispatchAnswer, Answers
  <2> QED BY <1>5, <2>1, <2>2 DEF DispatchAnswer
<1>6. CASE DispatchCapture
  <2>1. cur \in Clients /\ inbox' \in [Clients -> Seq(Bytes)]
    BY <1>6, ConsumedType DEF DispatchCapture, Start
  <2>2. holders' \in [Pipes -> SUBSET Procs] /\ group' \subseteq Procs
    BY <1>6 DEF DispatchCapture, Start, Procs
  <2>3. written' \in [Pipes -> Nat] /\ got' \in [Pipes -> Nat]
    BY <1>6 DEF DispatchCapture, Start
  <2>4. good' \in BOOLEAN
    BY <1>6 DEF DispatchCapture, Start
  <2> QED BY <1>6, <2>1, <2>2, <2>3, <2>4 DEF DispatchCapture, Start
<1>7. CASE HeadDone \/ EventsDone
  BY <1>7 DEF HeadDone, EventsDone, Jump
<1>8. CASE HeadRaises \/ EventCancel \/ WaitTimeout
  BY <1>8 DEF HeadRaises, EventCancel, WaitTimeout, Raise
<1>9. CASE HeadSelects
  BY <1>9 DEF HeadSelects
<1>10. CASE EventRead
  <2>1. got' \in [Pipes -> Nat]
    <3> PICK f \in Pipes : \E m \in Nat : got' = got \/ got' = [got EXCEPT ![f] = m]
      BY <1>10 DEF EventRead, Raise
    <3> QED OBVIOUS
  <2>2. Raise \/ (ready' \subseteq ready /\ UNCHANGED <<pc, cur, served, world, inbox,
                                            reply, helper, watched, outcome, expired>>)
    BY <1>10 DEF EventRead
  <2>3. CASE Raise
    BY <2>1, <2>3 DEF Raise
  <2>4. CASE ~Raise
    BY <2>1, <2>2, <2>4
  <2> QED BY <2>3, <2>4
<1>11. CASE EventEOF
  BY <1>11 DEF EventEOF
<1>12. CASE WaitExited
  BY <1>12 DEF WaitExited, Waited
<1>13. CASE Cleanup
  BY <1>13 DEF Cleanup, Finally, ReadyInv
<1>14. CASE Send
  <2>1. reply' \in [Clients -> Seq(Answers)]
    BY <1>14, AnsweredType DEF Send, Answers
  <2> QED BY <1>14, <2>1 DEF Send
<1>15. CASE Except
  <2>1. reply' \in [Clients -> Seq(Answers)]
    BY <1>15, AnsweredType DEF Except, Answers
  <2> QED BY <1>15, <2>1 DEF Except
<1>16. CASE Close
  BY <1>16 DEF Close, Forget
<1> QED
  BY <1>1, <1>2, <1>3, <1>4, <1>5, <1>6, <1>7, <1>8, <1>9, <1>10, <1>11,
     <1>12, <1>13, <1>14, <1>15, <1>16 DEF Serve

\* And every step of anything else.
LEMMA EnvironmentTypeOK == TypeOK /\ Environment => TypeOK'
<1> SUFFICES ASSUME TypeOK, Environment PROVE TypeOK'
  OBVIOUS
<1> USE ServiceAssumption DEF TypeOK, world, helper, collect, service
<1>1. ASSUME NEW d \in Descendants, Fork(d) PROVE TypeOK'
  <2>1. group' \subseteq Procs /\ holders' \in [Pipes -> SUBSET Procs]
    BY <1>1 DEF Fork, Procs
  <2> QED BY <1>1, <2>1 DEF Fork
<1>2. ASSUME NEW p \in Procs, NEW f \in Pipes, Write(p, f) PROVE TypeOK'
  BY <1>2 DEF Write
<1>3. ASSUME NEW p \in Procs, NEW f \in Pipes, ClosePipe(p, f) PROVE TypeOK'
  BY <1>3 DEF ClosePipe
<1>4. ASSUME NEW p \in Procs, Exit(p) PROVE TypeOK'
  BY <1>4 DEF Exit
<1>5. CASE DaemonDies \/ DeadlinePasses \/ Stop
  BY <1>5 DEF DaemonDies, DeadlinePasses, Stop
<1>6. CASE Kill
  BY <1>6 DEF Kill, Shutdown, Forget, Places, Procs
<1>7. ASSUME NEW c \in Clients, Connect(c) PROVE TypeOK'
  BY <1>7 DEF Connect
<1>8. ASSUME NEW c \in Clients, SendCommand(c) PROVE TypeOK'
  BY <1>8 DEF SendCommand
<1>9. ASSUME NEW c \in Clients, Leave(c) PROVE TypeOK'
  BY <1>9 DEF Leave
<1> QED
  BY <1>1, <1>2, <1>3, <1>4, <1>5, <1>6, <1>7, <1>8, <1>9 DEF Environment

-----------------------------------------------------------------------------
LEMMA InitIInv == Init => IInv
  BY ServiceAssumption
     DEF Init, IInv, CurServed, ReadyInv, GroupInv, EofInv, OutcomeInv,
         AnsweredInv, NoSilentClose, Collecting

\* A step that only moves on keeps what it does not look at.
LEMMA ServeIInv == TypeOK /\ IInv /\ Serve => IInv'
<1> SUFFICES ASSUME TypeOK, IInv, Serve PROVE IInv'
  OBVIOUS
<1> USE ServiceAssumption DEF TypeOK, Collecting, world, helper, collect
<1> USE DEF IInv, CurServed, ReadyInv, GroupInv, EofInv, OutcomeInv,
            AnsweredInv, NoSilentClose
<1>1. CASE LoopEnds
  BY <1>1 DEF LoopEnds, Shutdown, Forget, Pipes
<1>2. CASE LoopContinues \/ AcceptTimeout \/ Recv \/ RecvTimeout
  BY <1>2 DEF LoopContinues, AcceptTimeout, Recv, RecvTimeout, Jump
<1>3. CASE Accept
  BY <1>3 DEF Accept
<1>4. CASE DispatchFails
  BY <1>4 DEF DispatchFails
<1>5. CASE DispatchAnswer
  <2>1. CASE client[cur] = "closed"
    BY <1>5, <2>1 DEF DispatchAnswer
  <2>2. CASE client[cur] # "closed"
    <3>1. /\ reply'[cur] # <<>>
          /\ \A c \in Clients \ {cur} : reply'[c] = reply[c]
      BY <1>5, <2>2, AnsweredType DEF DispatchAnswer, Answers
    <3> QED BY <1>5, <2>2, <3>1 DEF DispatchAnswer
  <2> QED BY <2>1, <2>2
<1>6. CASE DispatchCapture
  BY <1>6 DEF DispatchCapture, Start, Keys
<1>7. CASE HeadDone \/ EventsDone
  BY <1>7 DEF HeadDone, EventsDone, Jump, PipesOpen
<1>8. CASE HeadRaises \/ EventCancel \/ WaitTimeout
  BY <1>8 DEF HeadRaises, EventCancel, WaitTimeout, Raise
<1>9. CASE HeadSelects
  BY <1>9 DEF HeadSelects
<1>10. CASE EventRead
  <2>1. \A g \in Pipes : g \notin watched => got'[g] = got[g]
    <3> PICK f \in ready \cap Pipes : got' = got \/ \E m \in Nat : got' = [got EXCEPT ![f] = m]
      BY <1>10 DEF EventRead, Raise
    <3> QED OBVIOUS
  <2>2. Raise \/ (ready' \subseteq ready /\ UNCHANGED <<pc, cur, served, world, inbox,
                                            reply, helper, watched, outcome, expired>>)
    BY <1>10 DEF EventRead
  <2>3. CASE Raise
    BY <1>10, <2>1, <2>3 DEF EventRead, Raise
  <2>4. CASE ~Raise
    BY <1>10, <2>1, <2>2, <2>4 DEF EventRead
  <2> QED BY <2>3, <2>4
<1>11. CASE EventEOF
  BY <1>11 DEF EventEOF
<1>12. CASE WaitExited
  BY <1>12 DEF WaitExited, Waited, Decodes, Pipes
<1>13. CASE Cleanup
  <2>1. group' = {} /\ \A f \in Pipes : holders'[f] = {}
    BY <1>13 DEF Cleanup, Finally
  <2>2. code' # "none" /\ (code # "none" => code' = code)
    BY <1>13 DEF Cleanup, Finally
  <2>3. pc' = "send" => outcome = "frame"
    BY <1>13 DEF Cleanup, Finally
  <2>4. /\ pc = "cleanup" /\ pc' \in {"send", "except"} /\ ready = {}
        /\ UNCHANGED <<cur, served, world, inbox, reply, good, written, got,
                       ready, outcome, expired>>
    BY <1>13 DEF Cleanup, Finally
  <2> QED BY <2>1, <2>2, <2>3, <2>4 DEF Pipes
<1>14. CASE Send
  <2>1. CASE client[cur] = "closed"
    BY <1>14, <2>1 DEF Send
  <2>2. CASE client[cur] # "closed"
    <3>1. /\ reply'[cur] # <<>>
          /\ \A c \in Clients \ {cur} : reply'[c] = reply[c]
      BY <1>14, <2>2, AnsweredType DEF Send, Answers
    <3> QED BY <1>14, <2>2, <3>1 DEF Send
  <2> QED BY <2>1, <2>2
<1>15. CASE Except
  <2>1. CASE reply' = reply
    BY <1>15, <2>1 DEF Except
  <2>2. CASE reply' # reply
    <3>1. /\ reply'[cur] # <<>>
          /\ \A c \in Clients \ {cur} : reply'[c] = reply[c]
      BY <1>15, <2>2, AnsweredType DEF Except, Answers
    <3> QED BY <1>15, <2>2, <3>1 DEF Except
  <2> QED BY <2>1, <2>2
<1>16. CASE Close
  BY <1>16 DEF Close, Forget
<1> QED
  BY <1>1, <1>2, <1>3, <1>4, <1>5, <1>6, <1>7, <1>8, <1>9, <1>10, <1>11,
     <1>12, <1>13, <1>14, <1>15, <1>16 DEF Serve

LEMMA EnvironmentIInv == TypeOK /\ IInv /\ Environment => IInv'
<1> SUFFICES ASSUME TypeOK, IInv, Environment PROVE IInv'
  OBVIOUS
<1> USE ServiceAssumption DEF TypeOK, Collecting, world, helper, collect,
          service
<1> USE DEF IInv, CurServed, ReadyInv, GroupInv, EofInv, OutcomeInv,
            AnsweredInv, NoSilentClose
<1>1. ASSUME NEW d \in Descendants, Fork(d) PROVE IInv'
  BY <1>1 DEF Fork, Pipes
<1>2. ASSUME NEW p \in Procs, NEW f \in Pipes, Write(p, f) PROVE IInv'
  BY <1>2 DEF Write
<1>3. ASSUME NEW p \in Procs, NEW f \in Pipes, ClosePipe(p, f) PROVE IInv'
  BY <1>3 DEF ClosePipe
<1>4. ASSUME NEW p \in Procs, Exit(p) PROVE IInv'
  <2>1. /\ group' = group \ {p} /\ p \in group
        /\ \A f \in Pipes : holders'[f] = holders[f] \ {p}
        /\ code' = code \/ p = "helper"
        /\ UNCHANGED <<service, world, inbox, good, written, expired>>
    BY <1>4 DEF Exit
  <2>2. GroupInv'
    BY <2>1
  <2>3. EofInv'
    BY <2>1
  <2>4. OutcomeInv'
    BY <2>1 DEF Pipes
  <2> QED BY <2>1, <2>2, <2>3, <2>4
<1>5. CASE DaemonDies \/ DeadlinePasses \/ Stop
  BY <1>5 DEF DaemonDies, DeadlinePasses, Stop
<1>6. CASE Kill
  BY <1>6 DEF Kill, Shutdown, Forget
<1>7. ASSUME NEW c \in Clients, Connect(c) PROVE IInv'
  BY <1>7 DEF Connect
<1>8. ASSUME NEW c \in Clients, SendCommand(c) PROVE IInv'
  BY <1>8 DEF SendCommand
<1>9. ASSUME NEW c \in Clients, Leave(c) PROVE IInv'
  BY <1>9 DEF Leave
<1> QED
  BY <1>1, <1>2, <1>3, <1>4, <1>5, <1>6, <1>7, <1>8, <1>9 DEF Environment

THEOREM Inductive == Spec => [](TypeOK /\ IInv)
<1>1. Init => TypeOK /\ IInv
  BY InitTypeOK, InitIInv
<1>2. TypeOK /\ IInv /\ [Next]_vars => TypeOK' /\ IInv'
  <2> SUFFICES ASSUME TypeOK, IInv, [Next]_vars PROVE TypeOK' /\ IInv'
    OBVIOUS
  <2>1. CASE Serve
    BY <2>1, ServeTypeOK, ServeIInv
  <2>2. CASE Environment
    BY <2>2, EnvironmentTypeOK, EnvironmentIInv
  <2>3. CASE UNCHANGED vars
    BY <2>3 DEF vars, TypeOK, IInv, CurServed, ReadyInv, GroupInv, EofInv,
                OutcomeInv, AnsweredInv, NoSilentClose, world, helper, collect
  <2> QED BY <2>1, <2>2, <2>3 DEF Next
<1> QED BY <1>1, <1>2, PTL DEF Spec

-----------------------------------------------------------------------------
\* The variables keep to their types: in particular only pipes the selector
\* still watches have an event pending, and buffers never go below zero.
THEOREM TypeCorrect == Spec => []TypeOK
  BY Inductive, PTL

\* No process that collect started outlives its finally.
THEOREM HelperConfinement == Spec => []HelperConfined
<1>1. TypeOK /\ IInv => HelperConfined
  BY DEF IInv, GroupInv, CurServed, HelperConfined, Collecting
<1> QED BY <1>1, Inductive, PTL

\* Only the whole output of a helper that ended well is sent as an image.
THEOREM ImageIntegrity == Spec => []ImageIsWhole
<1>1. TypeOK /\ IInv => ImageIsWhole
  BY DEF IInv, OutcomeInv, ImageIsWhole
<1> QED BY <1>1, Inductive, PTL

\* No client that still listens sees its connection closed without a word.
THEOREM AnswerBeforeClose == Spec => []NoSilentClose
<1>1. TypeOK /\ IInv => NoSilentClose
  BY DEF IInv, AnsweredInv
<1> QED BY <1>1, Inductive, PTL

-----------------------------------------------------------------------------
(* The refinement of SensorLease.                                          *)

Queued(c) == \E i \in DOMAIN backlog : backlog[i] = c

\* A client is queued once, and one that is queued or has not come yet has
\* neither been served nor answered.
QueueInv ==
  /\ \A i, j \in DOMAIN backlog : backlog[i] = backlog[j] => i = j
  /\ \A c \in Clients : Queued(c) => client[c] # "new"
  /\ \A c \in Clients :
       Queued(c) \/ client[c] = "new" => /\ reply[c] = <<>>
                                         /\ c \notin served /\ c # cur

\* The client being served has not been answered, except with a part of a
\* frame before the error that follows it.
FreshInv ==
  /\ pc \in {"recv", "dispatch", "send"} \cup Collecting =>
       reply[cur] = <<>> /\ cur \notin served
  /\ pc = "except" => reply[cur] \in {<<>>, <<"part">>}

\* What one more answer makes of what the client has been sent.
LEMMA OneMore ==
  ASSUME TypeOK, cur \in Clients, NEW a \in Answers,
         reply' = [reply EXCEPT ![cur] = Append(@, a)]
  PROVE  /\ reply'[cur] # <<>>
         /\ reply[cur] = <<>> => reply'[cur] = <<a>>
         /\ reply[cur] = <<"part">> => reply'[cur] # <<"frame">>
         /\ \A c \in Clients \ {cur} : reply'[c] = reply[c]
<1>1. /\ reply'[cur] = Append(reply[cur], a)
      /\ \A c \in Clients \ {cur} : reply'[c] = reply[c]
  BY DEF TypeOK
<1>2. reply'[cur] # <<>>
  BY AnsweredType
<1>3. reply[cur] = <<>> => Append(reply[cur], a) = <<a>>
  OBVIOUS
<1>4. reply[cur] = <<"part">> => Append(reply[cur], a) # <<"frame">>
  <2> SUFFICES ASSUME reply[cur] = <<"part">>
               PROVE  Append(<<"part">>, a) # <<"frame">>
    OBVIOUS
  <2>1. Len(Append(<<"part">>, a)) = 2 /\ Len(<<"frame">>) = 1
    OBVIOUS
  <2> QED BY <2>1
<1> QED BY <1>1, <1>2, <1>3, <1>4

LEMMA InitQueue == Init => QueueInv /\ FreshInv
  BY ServiceAssumption DEF Init, QueueInv, FreshInv, Queued, Collecting

LEMMA ServeQueue == TypeOK /\ IInv /\ QueueInv /\ FreshInv /\ Serve
                      => QueueInv' /\ FreshInv'
<1> SUFFICES ASSUME TypeOK, CurServed, QueueInv, FreshInv, Serve
             PROVE  QueueInv' /\ FreshInv'
  BY DEF IInv
<1> USE ServiceAssumption DEF Collecting, CurServed, world, helper, collect
<1>1. CASE LoopEnds
  BY <1>1 DEF LoopEnds, Shutdown, QueueInv, FreshInv, Queued
<1>2. CASE Accept
  <2>1. /\ backlog \in Seq(Clients) /\ backlog # <<>>
        /\ backlog' = Tail(backlog) /\ cur' = Head(backlog) /\ pc' = "recv"
        /\ UNCHANGED <<client, reply, served>>
    BY <1>2 DEF Accept, TypeOK
  <2>2. /\ cur' = backlog[1] /\ 1 \in DOMAIN backlog /\ cur' \in Clients
        /\ \A i \in DOMAIN backlog' : /\ i + 1 \in DOMAIN backlog
                                      /\ i + 1 # 1
                                      /\ backlog'[i] = backlog[i + 1]
    BY <2>1
  <2>3. \A i, j \in DOMAIN backlog' : backlog'[i] = backlog'[j] => i = j
    <3> SUFFICES ASSUME NEW i \in DOMAIN backlog', NEW j \in DOMAIN backlog',
                        backlog'[i] = backlog'[j]
                 PROVE  i = j
      OBVIOUS
    <3>1. i + 1 = j + 1
      BY <2>2 DEF QueueInv
    <3>2. i \in Nat /\ j \in Nat
      BY <2>1
    <3> QED BY <3>1, <3>2
  <2>4. \A c \in Clients : Queued(c)' => Queued(c) /\ c # cur'
    BY <2>2 DEF Queued, QueueInv
  <2>5. reply[cur'] = <<>> /\ cur' \notin served /\ client[cur'] # "new"
    BY <2>2 DEF QueueInv, Queued
  <2>6. QueueInv'
    BY <2>1, <2>3, <2>4, <2>5 DEF QueueInv
  <2>7. FreshInv'
    BY <2>1, <2>5 DEF FreshInv
  <2> QED BY <2>6, <2>7
<1>3. ASSUME UNCHANGED <<cur, served, world, reply>>,
             pc \in {"recv", "dispatch", "send"} \cup Collecting
      PROVE  QueueInv' /\ FreshInv'
  <2>1. UNCHANGED <<cur, served, backlog, client, reply>>
    BY <1>3
  <2>2. \A c \in Clients : Queued(c)' <=> Queued(c)
    BY <2>1 DEF Queued
  <2>3. QueueInv'
    BY <2>1, <2>2 DEF QueueInv
  <2>4. FreshInv'
    BY <1>3 DEF FreshInv
  <2> QED BY <2>3, <2>4
<1>4. CASE LoopContinues \/ AcceptTimeout
  BY <1>4 DEF LoopContinues, AcceptTimeout, Jump, QueueInv, FreshInv, Queued
<1>5. CASE Recv \/ RecvTimeout \/ HeadDone \/ EventsDone
  BY <1>5, <1>3 DEF Recv, RecvTimeout, HeadDone, EventsDone, Jump
<1>6. CASE DispatchFails \/ DispatchCapture
  BY <1>6, <1>3 DEF DispatchFails, DispatchCapture, Start
<1>7. CASE HeadRaises \/ EventCancel \/ WaitTimeout
  BY <1>7, <1>3 DEF HeadRaises, EventCancel, WaitTimeout, Raise
<1>8. CASE HeadSelects \/ EventRead \/ EventEOF
  BY <1>8, <1>3 DEF HeadSelects, EventRead, EventEOF, Raise
<1>9. CASE WaitExited \/ Cleanup
  BY <1>9, <1>3 DEF WaitExited, Waited, Cleanup, Finally
<1>10. CASE DispatchAnswer \/ Send \/ Except
  <2>0. cur \in Clients /\ UNCHANGED <<cur, served, world>>
        /\ pc \in {"dispatch", "send", "except"} /\ pc' \in {"except", "close"}
    BY <1>10 DEF DispatchAnswer, Send, Except, TypeOK
  <2>1. CASE reply' = reply
    <3>1. FreshInv'
      BY <2>0, <2>1 DEF FreshInv
    <3>2. QueueInv'
      BY <2>0, <2>1 DEF QueueInv, Queued
    <3> QED BY <3>1, <3>2
  <2>2. CASE reply' # reply
    <3>1. PICK a \in Answers :
            /\ reply' = [reply EXCEPT ![cur] = Append(@, a)]
            /\ pc' = "except" => a = "part" /\ pc = "send"
      BY <1>10, <2>2 DEF DispatchAnswer, Send, Except, Answers
    <3>2. /\ reply[cur] = <<>> => reply'[cur] = <<a>>
          /\ \A c \in Clients \ {cur} : reply'[c] = reply[c]
      BY <3>1, <2>0, OneMore
    <3>3. FreshInv'
      BY <2>0, <3>1, <3>2 DEF FreshInv
    <3>4. QueueInv'
      BY <2>0, <3>2 DEF QueueInv, Queued
    <3> QED BY <3>3, <3>4
  <2> QED BY <2>1, <2>2
<1>11. CASE Close
  BY <1>11 DEF Close, QueueInv, FreshInv, Queued, TypeOK
<1> QED
  BY <1>1, <1>2, <1>4, <1>5, <1>6, <1>7, <1>8, <1>9, <1>10, <1>11 DEF Serve

LEMMA EnvironmentQueue ==
  TypeOK /\ IInv /\ QueueInv /\ FreshInv /\ Environment => QueueInv' /\ FreshInv'
<1> SUFFICES ASSUME TypeOK, CurServed, QueueInv, FreshInv, Environment
             PROVE  QueueInv' /\ FreshInv'
  BY DEF IInv
<1> USE DEF world, service, collect
<1>1. ASSUME UNCHANGED <<pc, cur, served, reply, backlog>>,
             \A c \in Clients : client'[c] = "new" => client[c] = "new",
             \A c \in Clients : Queued(c) => client'[c] # "new"
      PROVE  QueueInv' /\ FreshInv'
  BY <1>1 DEF QueueInv, FreshInv, Queued
<1>2. ASSUME UNCHANGED <<pc, cur, served, reply, backlog, client>>
      PROVE  QueueInv' /\ FreshInv'
  BY <1>2, <1>1 DEF QueueInv
<1>3. ASSUME NEW d \in Descendants, Fork(d) PROVE QueueInv' /\ FreshInv'
  BY <1>3, <1>2 DEF Fork
<1>4. ASSUME NEW p \in Procs, NEW f \in Pipes, Write(p, f) \/ ClosePipe(p, f)
      PROVE  QueueInv' /\ FreshInv'
  BY <1>4, <1>2 DEF Write, ClosePipe
<1>5. ASSUME NEW p \in Procs, Exit(p) PROVE QueueInv' /\ FreshInv'
  BY <1>5, <1>2 DEF Exit
<1>6. CASE DaemonDies \/ DeadlinePasses \/ Stop
  BY <1>6, <1>2 DEF DaemonDies, DeadlinePasses, Stop
<1>7. CASE Kill
  BY <1>7, ServiceAssumption
     DEF Kill, Shutdown, QueueInv, FreshInv, Queued, Collecting
<1>8. ASSUME NEW c \in Clients, Connect(c) PROVE QueueInv' /\ FreshInv'
  <2>1. /\ backlog \in Seq(Clients) /\ backlog' = Append(backlog, c)
        /\ client[c] = "new" /\ client' = [client EXCEPT ![c] = "open"]
        /\ UNCHANGED <<pc, cur, served, reply>>
    BY <1>8 DEF Connect, TypeOK
  <2>2. /\ DOMAIN backlog' = DOMAIN backlog \cup {Len(backlog) + 1}
        /\ \A i \in DOMAIN backlog : backlog'[i] = backlog[i]
        /\ backlog'[Len(backlog) + 1] = c
    BY <2>1
  <2>3. ~Queued(c)
    BY <2>1 DEF QueueInv
  <2>4. \A i, j \in DOMAIN backlog' : backlog'[i] = backlog'[j] => i = j
    BY <2>2, <2>3 DEF QueueInv, Queued
  <2>5. \A e \in Clients : Queued(e)' => Queued(e) \/ e = c
    BY <2>2 DEF Queued
  <2>6. /\ client'[c] = "open"
        /\ \A e \in Clients \ {c} : client'[e] = client[e]
    BY <2>1 DEF TypeOK
  <2>7. QueueInv'
    BY <2>1, <2>4, <2>5, <2>6 DEF QueueInv
  <2> QED BY <2>1, <2>7 DEF FreshInv
<1>9. ASSUME NEW c \in Clients, SendCommand(c) PROVE QueueInv' /\ FreshInv'
  BY <1>9, <1>1 DEF SendCommand, TypeOK, QueueInv
<1>10. ASSUME NEW c \in Clients, Leave(c) PROVE QueueInv' /\ FreshInv'
  BY <1>10, <1>1 DEF Leave, TypeOK, QueueInv
<1> QED
  BY <1>3, <1>4, <1>5, <1>6, <1>7, <1>8, <1>9, <1>10 DEF Environment

-----------------------------------------------------------------------------
\* What the abstract state depends on.
LEMMA LeaseStutters ==
  ASSUME \A c \in Clients : Phase(c)' = Phase(c),
         \A c \in Clients : Answer(c)' = Answer(c)
  PROVE  UNCHANGED Lease!vars
  BY DEF Lease!vars

\* The request being served gives up: the others see nothing of it.
LEMMA LeaseAbandons ==
  ASSUME TypeOK, cur \in Clients, UNCHANGED <<cur, served, reply>>,
         pc # "exited", pc \notin Collecting, pc' = "except"
  PROVE  [Lease!Next]_Lease!vars
<1> DEFINE C == {c \in Clients : Phase(c)' # Phase(c)}
<1>1. \A c \in Clients : Answer(c)' = Answer(c)
  BY DEF Answer
<1>2. \A c \in C : Phase(c) # "answered" /\ Phase(c)' = "over"
  BY DEF Phase, Collecting
<1>3. Lease!Abandon(C)
  BY <1>1, <1>2 DEF Lease!Abandon
<1>4. C \in SUBSET Clients
  OBVIOUS
<1> QED BY <1>3, <1>4 DEF Lease!Next

\* The request being served is answered while nobody holds the sensor.
LEMMA LeaseReplies ==
  ASSUME TypeOK, cur \in Clients, UNCHANGED <<cur, served>>,
         pc \in {"dispatch", "send", "except"}, pc' \in {"except", "close"},
         reply[cur] = <<>>, NEW a \in Answers, reply'[cur] = <<a>>,
         \A c \in Clients \ {cur} : reply'[c] = reply[c],
         a = "frame" => pc = "send" /\ cur \notin served
  PROVE  [Lease!Next]_Lease!vars
<1>1. /\ Phase(cur) \in {"idle", "taken", "over"} /\ Phase(cur)' = "answered"
      /\ pc = "send" /\ cur \notin served => Phase(cur) = "taken"
  BY DEF Phase, Collecting
<1>2. \A c \in Clients : Phase(c) # "held"
  BY DEF Phase, Collecting
<1>3. \A c \in Clients \ {cur} : Phase(c)' = Phase(c) /\ Answer(c)' = Answer(c)
  BY DEF Phase, Answer, Collecting
<1>4. Answer(cur)' = IF a = "frame" THEN "image" ELSE "other"
  <2>1. <<a>> # <<>> /\ (<<a>> = <<"frame">> <=> a = "frame")
    OBVIOUS
  <2> QED BY <2>1 DEF Answer
<1>5. Lease!Reply(cur)
  BY <1>1, <1>2, <1>3, <1>4 DEF Lease!Reply
<1> QED BY <1>5 DEF Lease!Next

\* The end of the service is the end of every request not answered yet.
LEMMA ShutdownRefines ==
  ASSUME Shutdown PROVE [Lease!Next]_Lease!vars
<1> DEFINE C == {c \in Clients : reply[c] = <<>>}
<1>1. \A c \in Clients : Answer(c)' = Answer(c)
  BY DEF Shutdown, Answer
<1>2. \A c \in Clients :
        /\ c \in C => Phase(c) # "answered" /\ Phase(c)' = "over"
        /\ c \notin C => Phase(c) = "answered" /\ Phase(c)' = "answered"
  BY DEF Shutdown, Phase, Collecting
<1>3. Lease!Abandon(C)
  BY <1>1, <1>2 DEF Lease!Abandon
<1>4. C \in SUBSET Clients
  OBVIOUS
<1> QED BY <1>3, <1>4 DEF Lease!Next

\* Each step of the service takes the sensor, lets go of it, answers, gives
\* up, or changes nothing a request can see.
LEMMA ServeRefines ==
  TypeOK /\ IInv /\ QueueInv /\ FreshInv /\ Serve => [Lease!Next]_Lease!vars
<1> SUFFICES ASSUME TypeOK, CurServed, FreshInv, Serve
             PROVE  [Lease!Next]_Lease!vars
  BY DEF IInv
<1> USE DEF CurServed, world, helper, collect
<1>1. CASE LoopEnds
  BY <1>1, ShutdownRefines DEF LoopEnds
<1>2. CASE LoopContinues \/ AcceptTimeout \/ Accept
  <2>1. /\ pc \in {"loop", "accept"} /\ pc' \in {"loop", "accept", "recv"}
        /\ UNCHANGED <<served, reply>>
    BY <1>2 DEF LoopContinues, AcceptTimeout, Accept, Jump
  <2>2. \A c \in Clients : Phase(c)' = Phase(c) /\ Answer(c)' = Answer(c)
    BY <2>1 DEF Phase, Answer, Collecting
  <2> QED BY <2>2, LeaseStutters
<1>3. CASE Recv
  <2>1. \A c \in Clients : Phase(c)' = Phase(c) /\ Answer(c)' = Answer(c)
    BY <1>3 DEF Recv, Jump, Phase, Answer, Collecting
  <2> QED BY <2>1, LeaseStutters
<1>4. CASE RecvTimeout \/ DispatchFails
  BY <1>4, LeaseAbandons
     DEF RecvTimeout, DispatchFails, Jump, Collecting, TypeOK
<1>5. CASE DispatchAnswer \/ Send
  <2>0. /\ cur \in Clients /\ pc \in {"dispatch", "send"}
        /\ reply[cur] = <<>> /\ cur \notin served
        /\ UNCHANGED <<cur, served>> /\ pc' \in {"except", "close"}
    BY <1>5 DEF DispatchAnswer, Send, TypeOK, FreshInv
  <2>1. CASE reply' = reply /\ pc' = "except"
    BY <2>0, <2>1, LeaseAbandons DEF Collecting
  <2>2. CASE ~(reply' = reply /\ pc' = "except")
    <3>1. PICK a \in Answers :
            /\ reply' = [reply EXCEPT ![cur] = Append(@, a)]
            /\ a = "frame" => pc = "send"
      BY <1>5, <2>2 DEF DispatchAnswer, Send, Answers
    <3>2. /\ reply'[cur] = <<a>>
          /\ \A c \in Clients \ {cur} : reply'[c] = reply[c]
      BY <3>1, <2>0, OneMore
    <3> QED BY <2>0, <3>1, <3>2, LeaseReplies
  <2> QED BY <2>1, <2>2
<1>6. CASE DispatchCapture
  <2>1. /\ cur \in Clients /\ pc = "dispatch" /\ pc' = "head"
        /\ reply[cur] = <<>> /\ cur \notin served
        /\ UNCHANGED <<cur, served, reply>>
    BY <1>6 DEF DispatchCapture, Start, TypeOK, FreshInv
  <2>2. Phase(cur) = "idle" /\ Phase(cur)' = "held"
    BY <2>1 DEF Phase, Collecting
  <2>3. \A c \in Clients \ {cur} : Phase(c)' = Phase(c)
    BY <2>1 DEF Phase, Collecting
  <2>4. \A c \in Clients : Phase(c) # "held"
    BY <2>1 DEF Phase, Collecting
  <2>5. \A c \in Clients : Answer(c)' = Answer(c)
    BY <2>1 DEF Answer
  <2>6. Lease!Take(cur)
    BY <2>1, <2>2, <2>3, <2>4, <2>5 DEF Lease!Take
  <2> QED BY <2>1, <2>6 DEF Lease!Next
<1>7. ASSUME /\ pc \in Collecting /\ pc' \in Collecting
             /\ UNCHANGED <<cur, served, reply>>
      PROVE  [Lease!Next]_Lease!vars
  <2>1. \A c \in Clients : Phase(c)' = Phase(c) /\ Answer(c)' = Answer(c)
    BY <1>7 DEF Phase, Answer, Collecting
  <2> QED BY <2>1, LeaseStutters
<1>8. CASE HeadDone \/ EventsDone \/ HeadRaises \/ EventCancel \/ WaitTimeout
  BY <1>8, <1>7
     DEF HeadDone, EventsDone, HeadRaises, EventCancel, WaitTimeout, Jump,
         Raise, Collecting
<1>9. CASE HeadSelects \/ EventRead \/ EventEOF \/ WaitExited
  BY <1>9, <1>7
     DEF HeadSelects, EventRead, EventEOF, WaitExited, Waited, Raise, Collecting
<1>10. CASE Cleanup
  <2>1. /\ cur \in Clients /\ pc = "cleanup" /\ pc' \in {"send", "except"}
        /\ reply[cur] = <<>> /\ cur \notin served
        /\ UNCHANGED <<cur, served, reply>>
    BY <1>10 DEF Cleanup, Finally, TypeOK, FreshInv, Collecting
  <2>2. Phase(cur) = "held" /\ Phase(cur)' \in {"taken", "over"}
    BY <2>1 DEF Phase, Collecting
  <2>3. \A c \in Clients \ {cur} : Phase(c)' = Phase(c)
    BY <2>1 DEF Phase, Collecting
  <2>4. \A c \in Clients : Answer(c)' = Answer(c)
    BY <2>1 DEF Answer
  <2>5. Lease!LetGo(cur)
    BY <2>1, <2>2, <2>3, <2>4 DEF Lease!LetGo
  <2> QED BY <2>1, <2>5 DEF Lease!Next
<1>11. CASE Except
  <2>0. /\ cur \in Clients /\ pc = "except" /\ pc' = "close"
        /\ reply[cur] \in {<<>>, <<"part">>}
        /\ UNCHANGED <<cur, served>>
    BY <1>11 DEF Except, TypeOK, FreshInv
  <2>1. CASE reply' = reply
    <3>1. \A c \in Clients : Phase(c)' = Phase(c) /\ Answer(c)' = Answer(c)
      BY <2>0, <2>1 DEF Phase, Answer, Collecting
    <3> QED BY <3>1, LeaseStutters
  <2>2. CASE reply' # reply
    <3>1. reply' = [reply EXCEPT ![cur] = Append(@, "error")]
      BY <1>11, <2>2 DEF Except
    <3>2. /\ reply'[cur] # <<>>
          /\ reply[cur] = <<>> => reply'[cur] = <<"error">>
          /\ reply[cur] = <<"part">> => reply'[cur] # <<"frame">>
          /\ \A c \in Clients \ {cur} : reply'[c] = reply[c]
      BY <3>1, <2>0, OneMore DEF Answers
    <3>3. CASE reply[cur] = <<>>
      BY <2>0, <3>2, <3>3, LeaseReplies DEF Answers
    <3>4. CASE reply[cur] = <<"part">>
      <4>1. \A c \in Clients : Phase(c)' = Phase(c) /\ Answer(c)' = Answer(c)
        BY <2>0, <3>2, <3>4 DEF Phase, Answer, Collecting
      <4> QED BY <4>1, LeaseStutters
    <3> QED BY <2>0, <3>3, <3>4
  <2> QED BY <2>1, <2>2
<1>12. CASE Close
  <2>1. \A c \in Clients : Phase(c)' = Phase(c) /\ Answer(c)' = Answer(c)
    BY <1>12 DEF Close, Phase, Answer, Collecting
  <2> QED BY <2>1, LeaseStutters
<1> QED
  BY <1>1, <1>2, <1>3, <1>4, <1>5, <1>6, <1>8, <1>9, <1>10, <1>11, <1>12
     DEF Serve

LEMMA EnvironmentRefines ==
  TypeOK /\ Environment => [Lease!Next]_Lease!vars
<1> SUFFICES ASSUME TypeOK, Environment PROVE [Lease!Next]_Lease!vars
  OBVIOUS
<1>1. CASE Kill
  BY <1>1, ShutdownRefines DEF Kill
<1>2. CASE ~Kill
  <2>1. UNCHANGED <<pc, cur, served, reply>>
    BY <1>2 DEF Environment, service, Fork, Write, ClosePipe, Exit, DaemonDies,
         DeadlinePasses, Stop, Connect, SendCommand, Leave
  <2>2. \A c \in Clients : Phase(c)' = Phase(c) /\ Answer(c)' = Answer(c)
    BY <2>1 DEF Phase, Answer
  <2> QED BY <2>2, LeaseStutters
<1> QED BY <1>1, <1>2

\* The service, its supervisor and its clients implement SensorLease, however
\* many clients, descendants and blocks there are: one request at a time holds
\* the sensor, an image goes only to the request that held it and let go of
\* it, and no answer is revised.
THEOREM ImplementsLease == Spec => LeaseSpec
<1>1. Init => QueueInv /\ FreshInv /\ Lease!Init
  <2> SUFFICES ASSUME Init PROVE Lease!Init
    BY InitQueue
  <2>1. \A c \in Clients : Phase(c) = "idle" /\ Answer(c) = "none"
    BY DEF Init, Phase, Answer, Collecting
  <2> QED BY <2>1 DEF Lease!Init
<1>2. TypeOK /\ IInv /\ QueueInv /\ FreshInv /\ [Next]_vars
        => QueueInv' /\ FreshInv' /\ [Lease!Next]_Lease!vars
  <2> SUFFICES ASSUME TypeOK, IInv, QueueInv, FreshInv, [Next]_vars
               PROVE  QueueInv' /\ FreshInv' /\ [Lease!Next]_Lease!vars
    OBVIOUS
  <2>1. CASE Serve
    BY <2>1, ServeQueue, ServeRefines
  <2>2. CASE Environment
    BY <2>2, EnvironmentQueue, EnvironmentRefines
  <2>3. CASE UNCHANGED vars
    <3>1. UNCHANGED <<pc, cur, served, reply, backlog, client>>
      BY <2>3 DEF vars, world
    <3>2. \A c \in Clients : Phase(c)' = Phase(c) /\ Answer(c)' = Answer(c)
      BY <3>1 DEF Phase, Answer
    <3>3. QueueInv' /\ FreshInv'
      BY <3>1 DEF QueueInv, FreshInv, Queued
    <3> QED BY <3>2, <3>3, LeaseStutters
  <2> QED BY <2>1, <2>2, <2>3 DEF Next
<1> QED BY <1>1, <1>2, Inductive, PTL DEF Spec, LeaseSpec, Lease!Spec
=============================================================================
