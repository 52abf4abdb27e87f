--------------------------- MODULE RegistryProofs ---------------------------
(***************************************************************************)
(* What Registry.tla keeps true for any number of users, jobs, connects,   *)
(* refreshes and losses of fprintd.                                        *)
(***************************************************************************)
EXTENDS Registry, FiniteSetTheorems, SequenceTheorems, TLAPS

-----------------------------------------------------------------------------
(* Types                                                                   *)

\* The calls of a job; the number of the others' chain is a connect's.
JobMethods == {"Claim", "EnrollStart", "VerifyStart", "Delete", "Stop", "Release"}
Numbered == {c \in Calls : c.m \in Linking => c.id \in 1..MaxConnects}

Jobs == [id : 1..MaxJobs, mode : Modes, user : Users, claimed : BOOLEAN,
         started : BOOLEAN, pending : BOOLEAN, cancel : BOOLEAN, ending : BOOLEAN,
         mutation : BOOLEAN, terminal : {"none", "yes", "no"}, success : BOOLEAN]
Replies == {r \in [kind : {"reply"}, call : Numbered,
                   value : {"ok", "error", "none", "yes", "no"}] :
              r.call.m = "List" => r.value \in {"yes", "no", "error"}}
Messages == Replies
            \cup [kind : {"owner"}, call : {NoCall}]
            \cup [kind : {"status"}, call : {NoCall}, mode : {"enroll", "verify"},
                  value : {"ok", "error"}]
Dialogs == {NoDialog, Running, Finished, Ended} \cup {Ready(m, u) : m \in Modes, u \in Users}

CountTypes ==
  count \in [jobs : 0..MaxJobs, connects : 0..MaxConnects, refreshes : Nat, deaths : Nat]
ClientTypes ==
  /\ device \in 0..MaxConnects /\ busy \in BOOLEAN /\ closing \in BOOLEAN
  /\ shown \in [Users -> {"unknown", "yes", "no"}] /\ dialog \in Dialogs
JobTypes == job = NoJob \/ job \in Jobs
BusTypes ==
  /\ calls \subseteq Numbered /\ IsFiniteSet(calls)
  /\ asked \subseteq {c \in Numbered : c.m \in Asking}
  /\ sent \in Seq(Numbered) /\ inbox \in Seq(Messages)
FprintdTypes ==
  /\ claimed \in Users \cup {Nobody}
  /\ action \in {"none", "enroll", "verify", "done"}
  /\ action # "none" => claimed # Nobody
  /\ stored \in [Users -> BOOLEAN]
Types == CountTypes /\ ClientTypes /\ JobTypes /\ BusTypes /\ FprintdTypes

-----------------------------------------------------------------------------
(* Sequences                                                               *)

LEMMA AppendFacts ==
  ASSUME NEW S, NEW s \in Seq(S), NEW e \in S
  PROVE  /\ Append(s, e) \in Seq(S) /\ DOMAIN Append(s, e) = 1..(Len(s) + 1)
         /\ DOMAIN s = 1..Len(s) /\ Len(s) \in Nat
         /\ \A i \in DOMAIN s : i \in DOMAIN Append(s, e) /\ Append(s, e)[i] = s[i]
         /\ \A i \in DOMAIN Append(s, e) :
              (i \in DOMAIN s /\ Append(s, e)[i] = s[i]) \/ (i = Len(s) + 1 /\ Append(s, e)[i] = e)
<1>1. /\ Append(s, e) \in Seq(S) /\ Len(Append(s, e)) = Len(s) + 1
      /\ DOMAIN s = 1..Len(s) /\ Len(s) \in Nat
  OBVIOUS
<1>2. DOMAIN Append(s, e) = 1..(Len(s) + 1)
  BY <1>1
<1>3. Append(s, e)[Len(s) + 1] = e
  OBVIOUS
<1>4. \A i \in DOMAIN s : i \in DOMAIN Append(s, e) /\ Append(s, e)[i] = s[i]
  BY <1>1, <1>2
<1>5. \A i \in 1..(Len(s) + 1) : i \in 1..Len(s) \/ i = Len(s) + 1
  BY <1>1
<1> QED BY <1>1, <1>2, <1>3, <1>4, <1>5

LEMMA TailFacts ==
  ASSUME NEW S, NEW s \in Seq(S), s # <<>>
  PROVE  /\ Tail(s) \in Seq(S)
         /\ Head(s) \in S /\ Head(s) = s[1] /\ 1 \in DOMAIN s
         /\ \A i \in DOMAIN Tail(s) : i + 1 \in DOMAIN s /\ Tail(s)[i] = s[i + 1]
         /\ \A i \in DOMAIN s : i > 1 => i - 1 \in DOMAIN Tail(s) /\ Tail(s)[i - 1] = s[i]
         /\ \A i \in DOMAIN s : i \in Nat /\ i >= 1
  OBVIOUS

-----------------------------------------------------------------------------
(* What a step of the client does to the bus                               *)

Gone(queue) == \E i \in DOMAIN queue : queue[i].kind = "owner"

\* The main loop has taken n messages from the inbox, and at most one call
\* of `new` was made: sent, or answered with an error.
Moved(n, new) ==
  /\ n \in {0, 1}
  /\ n = 1 => 1 \in DOMAIN inbox
  /\ \A i \in DOMAIN inbox : i > n => i - n \in DOMAIN inbox' /\ inbox'[i - n] = inbox[i]
  /\ \A i \in DOMAIN inbox' :
       \/ i + n \in DOMAIN inbox /\ inbox'[i] = inbox[i + n]
       \/ /\ i + n \notin DOMAIN inbox /\ \A k \in DOMAIN inbox : k < i + n
          /\ \E c \in new : inbox'[i] = ReplyTo(c, "error")
          /\ \E k \in DOMAIN inbox : k > n /\ inbox[k].kind = "owner"
  /\ \A i, k \in DOMAIN inbox' : i + n \notin DOMAIN inbox /\ k + n \notin DOMAIN inbox => i = k
  /\ \A i \in DOMAIN sent : i \in DOMAIN sent' /\ sent'[i] = sent[i]
  /\ \A i \in DOMAIN sent' :
       \/ i \in DOMAIN sent /\ sent'[i] = sent[i]
       \/ /\ i \notin DOMAIN sent /\ sent'[i] \in new
          /\ \/ sent'[i].m \in Linking
             \/ \A k \in DOMAIN inbox : k > n => inbox[k].kind # "owner"
  /\ \A i, k \in DOMAIN sent' : i \notin DOMAIN sent /\ k \notin DOMAIN sent => i = k
  /\ \A c \in new : \/ \E i \in DOMAIN sent' : sent'[i] \in new
                    \/ \E k \in DOMAIN inbox : k > n /\ inbox[k].kind = "owner"
  /\ calls' = (IF n = 1 THEN calls \ {inbox[1].call} ELSE calls) \cup new
  /\ UNCHANGED <<asked, claimed, action, stored>>

\* The same of Send alone, onto the messages of `queue`.
Sent(new, queue) ==
  /\ inbox' \in Seq(Messages) /\ sent' \in Seq(Numbered)
  /\ \A i \in DOMAIN queue : i \in DOMAIN inbox' /\ inbox'[i] = queue[i]
  /\ \A i \in DOMAIN inbox' :
       \/ i \in DOMAIN queue /\ inbox'[i] = queue[i]
       \/ /\ i = Len(queue) + 1 /\ i \notin DOMAIN queue
          /\ \E c \in new : inbox'[i] = ReplyTo(c, "error")
          /\ Gone(queue)
  /\ \A i \in DOMAIN sent : i \in DOMAIN sent' /\ sent'[i] = sent[i]
  /\ \A i \in DOMAIN sent' :
       \/ i \in DOMAIN sent /\ sent'[i] = sent[i]
       \/ /\ i = Len(sent) + 1 /\ i \notin DOMAIN sent /\ sent'[i] \in new
          /\ (sent'[i].m \in Linking \/ ~Gone(queue))
  /\ \A c \in new : (\E i \in DOMAIN sent' : sent'[i] \in new) \/ Gone(queue)

LEMMA SendFacts ==
  ASSUME NEW queue \in Seq(Messages), NEW new \in SUBSET Numbered, sent \in Seq(Numbered),
         Send(new, queue)
  PROVE  Sent(new, queue)
<1> USE DEF Sent
<1>1. CASE new = {} /\ inbox' = queue /\ UNCHANGED sent
  BY <1>1
<1>2. ASSUME NEW c \in new, Lost(c, queue), inbox' = Append(queue, ReplyTo(c, "error")),
             UNCHANGED sent
      PROVE  Sent(new, queue)
  <2>1. ReplyTo(c, "error") \in Messages
    BY DEF ReplyTo, Messages, Replies
  <2>2. Gone(queue)
    BY <1>2 DEF Lost, Gone
  <2> DEFINE r == ReplyTo(c, "error")
  <2>3. r \in Messages /\ inbox' = Append(queue, r)
    BY <1>2, <2>1
  <2> HIDE DEF r
  <2>4. /\ inbox' \in Seq(Messages) /\ DOMAIN queue = 1..Len(queue) /\ Len(queue) \in Nat
        /\ \A i \in DOMAIN queue : i \in DOMAIN inbox' /\ inbox'[i] = queue[i]
        /\ \A i \in DOMAIN inbox' :
             (i \in DOMAIN queue /\ inbox'[i] = queue[i]) \/ (i = Len(queue) + 1 /\ inbox'[i] = r)
    BY <2>3, AppendFacts
  <2>5. Len(queue) + 1 \notin DOMAIN queue
    BY <2>4
  <2> QED BY <1>2, <2>2, <2>4, <2>5 DEF r
<1>3. ASSUME NEW c \in new, ~Lost(c, queue), inbox' = queue, sent' = Append(sent, c)
      PROVE  Sent(new, queue)
  <2>1. c.m \in Linking \/ ~Gone(queue)
    BY <1>3 DEF Lost, Gone, Linking
  <2>2. c \in Numbered
    OBVIOUS
  <2>3. /\ sent' \in Seq(Numbered) /\ DOMAIN sent = 1..Len(sent) /\ Len(sent) \in Nat
        /\ DOMAIN sent' = 1..(Len(sent) + 1)
        /\ \A i \in DOMAIN sent : i \in DOMAIN sent' /\ sent'[i] = sent[i]
        /\ \A i \in DOMAIN sent' :
             (i \in DOMAIN sent /\ sent'[i] = sent[i]) \/ (i = Len(sent) + 1 /\ sent'[i] = c)
    BY <1>3, <2>2, AppendFacts
  <2>4. Len(sent) + 1 \notin DOMAIN sent /\ Len(sent) + 1 \in DOMAIN sent'
    BY <2>3
  <2> QED BY <1>3, <2>1, <2>3, <2>4
<1> QED BY <1>1, <1>2, <1>3 DEF Send

LEMMA OneMoreFinite ==
  ASSUME NEW S, IsFiniteSet(S), NEW T, \A c, d \in T : c = d
  PROVE  IsFiniteSet(S \cup T)
<1>1. IsFiniteSet(T)
  <2>1. CASE T = {}
    BY <2>1, FS_EmptySet
  <2>2. ASSUME NEW c \in T PROVE IsFiniteSet(T)
    <3>1. T = {c}
      OBVIOUS
    <3> QED BY <3>1, FS_Singleton
  <2> QED BY <2>1, <2>2
<1> QED BY <1>1, FS_Union

LEMMA MakeFacts ==
  ASSUME BusTypes, NEW new \in SUBSET Numbered, \A c, d \in new : c = d, Make(new)
  PROVE  Moved(0, new) /\ BusTypes'
<1>1. inbox \in Seq(Messages) /\ sent \in Seq(Numbered)
  BY DEF BusTypes
<1>2. Sent(new, inbox)
  BY <1>1, SendFacts DEF Make
<1>3. \A i \in DOMAIN inbox : i \in Nat /\ i >= 1 /\ i <= Len(inbox)
  BY <1>1
<1>4. Len(inbox) \in Nat /\ \A i \in DOMAIN inbox' : i + 0 = i /\ i - 0 = i
  <2>1. inbox' \in Seq(Messages)
    BY <1>2 DEF Sent
  <2> QED BY <1>1, <2>1
<1>5. calls' = calls \cup new /\ UNCHANGED <<asked, claimed, action, stored>>
  BY DEF Make, fprintd
<1>6. Moved(0, new)
  BY <1>2, <1>3, <1>4, <1>5 DEF Sent, Moved, Gone
<1>7. BusTypes'
  <2>1. IsFiniteSet(calls')
    BY <1>5, OneMoreFinite DEF BusTypes
  <2> QED BY <1>2, <1>5, <2>1 DEF BusTypes, Sent
<1> QED BY <1>6, <1>7

LEMMA HandleFacts ==
  ASSUME BusTypes, inbox # <<>>, NEW new \in SUBSET Numbered, \A c, d \in new : c = d,
         Handle(new)
  PROVE  Moved(1, new) /\ BusTypes' /\ Msg = inbox[1] /\ Msg \in Messages
<1> DEFINE t == Tail(inbox)
<1>1. sent \in Seq(Numbered) /\ inbox \in Seq(Messages)
  BY DEF BusTypes
<1>2. /\ t \in Seq(Messages) /\ Msg \in Messages /\ Msg = inbox[1] /\ 1 \in DOMAIN inbox
      /\ \A i \in DOMAIN t : i + 1 \in DOMAIN inbox /\ t[i] = inbox[i + 1]
      /\ \A i \in DOMAIN inbox : i > 1 => i - 1 \in DOMAIN t /\ t[i - 1] = inbox[i]
      /\ \A i \in DOMAIN inbox : i \in Nat /\ i >= 1
  BY <1>1, TailFacts DEF Msg
<1>3. Send(new, t) /\ calls' = (calls \ {Msg.call}) \cup new /\ UNCHANGED <<asked, claimed, action, stored>>
  BY DEF Handle, fprintd
<1> HIDE DEF t
<1>4. Sent(new, t)
  BY <1>1, <1>2, <1>3, SendFacts
<1>5. Len(t) \in Nat /\ DOMAIN t = 1..Len(t)
  BY <1>2
<1>6. \A i \in DOMAIN inbox' : i \in Nat /\ i >= 1
  BY <1>4 DEF Sent
<1>7. \A i \in DOMAIN inbox' : i \notin DOMAIN t => /\ i + 1 \notin DOMAIN inbox
                                                  /\ \A k \in DOMAIN inbox : k < i + 1
  <2> SUFFICES ASSUME NEW i \in DOMAIN inbox', i \notin DOMAIN t
               PROVE  /\ i + 1 \notin DOMAIN inbox
                      /\ \A k \in DOMAIN inbox : k < i + 1
    OBVIOUS
  <2>1. i = Len(t) + 1
    BY <1>4 DEF Sent
  <2>2. \A k \in DOMAIN inbox : k > 1 => k - 1 <= Len(t)
    BY <1>2, <1>5
  <2> QED BY <1>2, <1>5, <2>1, <2>2
<1>8. Gone(t) => \E k \in DOMAIN inbox : k > 1 /\ inbox[k].kind = "owner"
  <2> SUFFICES ASSUME NEW i \in DOMAIN t, t[i].kind = "owner"
               PROVE  \E k \in DOMAIN inbox : k > 1 /\ inbox[k].kind = "owner"
    BY DEF Gone
  <2>1. i + 1 \in DOMAIN inbox /\ i + 1 > 1 /\ inbox[i + 1].kind = "owner"
    BY <1>2, <1>5
  <2> QED BY <2>1
<1>9. ~Gone(t) => \A k \in DOMAIN inbox : k > 1 => inbox[k].kind # "owner"
  <2> SUFFICES ASSUME ~Gone(t), NEW k \in DOMAIN inbox, k > 1, inbox[k].kind = "owner" PROVE FALSE
    OBVIOUS
  <2> QED BY <1>2 DEF Gone
<1>10. Moved(1, new)
  <2>1. \A i \in DOMAIN inbox : i > 1 => i - 1 \in DOMAIN inbox' /\ inbox'[i - 1] = inbox[i]
    BY <1>2, <1>4 DEF Sent
  <2>2. \A i \in DOMAIN inbox' :
         \/ i + 1 \in DOMAIN inbox /\ inbox'[i] = inbox[i + 1]
         \/ /\ i + 1 \notin DOMAIN inbox /\ \A k \in DOMAIN inbox : k < i + 1
            /\ \E c \in new : inbox'[i] = ReplyTo(c, "error")
            /\ \E k \in DOMAIN inbox : k > 1 /\ inbox[k].kind = "owner"
    BY <1>2, <1>4, <1>7, <1>8 DEF Sent
  <2>3. \A i, k \in DOMAIN inbox' : i + 1 \notin DOMAIN inbox /\ k + 1 \notin DOMAIN inbox => i = k
    BY <1>2, <1>4 DEF Sent
  <2>4. \A i \in DOMAIN sent' :
         \/ i \in DOMAIN sent /\ sent'[i] = sent[i]
         \/ /\ i \notin DOMAIN sent /\ sent'[i] \in new
            /\ \/ sent'[i].m \in Linking
               \/ \A k \in DOMAIN inbox : k > 1 => inbox[k].kind # "owner"
    BY <1>4, <1>9 DEF Sent
  <2>5. \A c \in new : \/ \E i \in DOMAIN sent' : sent'[i] \in new
                       \/ \E k \in DOMAIN inbox : k > 1 /\ inbox[k].kind = "owner"
    BY <1>4, <1>8 DEF Sent
  <2>6. /\ \A i \in DOMAIN sent : i \in DOMAIN sent' /\ sent'[i] = sent[i]
        /\ \A i, k \in DOMAIN sent' : i \notin DOMAIN sent /\ k \notin DOMAIN sent => i = k
    BY <1>4 DEF Sent
  <2>7. calls' = (IF 1 = 1 THEN calls \ {inbox[1].call} ELSE calls) \cup new
    BY <1>2, <1>3
  <2> QED BY <1>2, <1>3, <2>1, <2>2, <2>3, <2>4, <2>5, <2>6, <2>7 DEF Moved
<1>11. BusTypes'
  <2>1. IsFiniteSet(calls \ {Msg.call})
    BY FS_Subset DEF BusTypes
  <2>2. IsFiniteSet(calls')
    BY <1>3, <2>1, OneMoreFinite
  <2> QED BY <1>3, <1>4, <2>2 DEF BusTypes, Sent
<1> QED BY <1>2, <1>10, <1>11

-----------------------------------------------------------------------------
(* The inductive invariant                                                 *)

Asks(c) == c.m = "Claim"
Reply(i) == inbox[i].kind = "reply"

\* Every call the client has made and that has left a trace.
Handled == {inbox[i].call : i \in DOMAIN inbox}
Made == calls \cup asked \cup {sent[i] : i \in DOMAIN sent} \cup Handled

\* Jobs are numbered as they are started.
KnownInv ==
  /\ \A c \in Made : c.m \in JobMethods => c.id <= count.jobs
  /\ job # NoJob => job.id <= count.jobs

\* A job that is not pending has been started, and one that has not claimed the
\* reader has made no call but Claim.
PhaseInv == job # NoJob =>
  /\ job.started \/ job.ending => job.claimed
  /\ ~job.pending /\ ~job.ending => job.started
  /\ ~job.claimed => \A c \in Made : c.m \in JobMethods \ {"Claim"} => c.id # job.id

\* While a job's Claim is under way the job waits for it, and it is the only one.
ClaimInv == \A c \in calls : Asks(c) =>
  /\ job # NoJob /\ c.id = job.id => job.pending /\ ~job.claimed /\ ~job.ending
  /\ \A d \in calls : Asks(d) /\ d.id = c.id => d = c

\* Calls of a method the bus does not give up.  One that fprintd may still
\* carry out, or has carried out, is the job's and is in one place; one that
\* was lost with an fprintd has an error for an answer.
OfJob(c) == c \in calls /\ job # NoJob /\ c.id = job.id
NotAnswered(c) == \A i \in DOMAIN inbox : inbox[i].call # c
SentInv(m) == \A i \in DOMAIN sent : sent[i].m = m =>
  /\ OfJob(sent[i]) /\ NotAnswered(sent[i])
  /\ \A k \in DOMAIN sent : sent[k].m = m => k = i
AskedInv(m) == \A c \in asked : c.m = m =>
  /\ OfJob(c) /\ NotAnswered(c)
  /\ \A k \in DOMAIN sent : sent[k].m # m
InboxInv(m) == \A i \in DOMAIN inbox : inbox[i].call.m = m =>
  /\ inbox[i].call \in calls
  /\ \A k \in DOMAIN inbox : inbox[k].call = inbox[i].call => k = i
  /\ inbox[i].value = "ok" => OfJob(inbox[i].call)
LostInv(m) == \A i \in DOMAIN inbox : inbox[i].kind = "owner" =>
  \A k \in DOMAIN inbox : k > i /\ inbox[k].call.m = m => inbox[k].value = "error"
OnBus(m) == SentInv(m) /\ AskedInv(m) /\ InboxInv(m) /\ LostInv(m)

\* As long as the client has not seen that fprintd is gone, a new fprintd gets
\* none of its calls but those that look for a device.
OwnerInv == \A i \in DOMAIN inbox : inbox[i].kind = "owner" =>
  /\ claimed = Nobody /\ action = "none" /\ asked = {}
  /\ \A k \in DOMAIN sent : sent[k].m \in Linking

\* If the reader is claimed, its release has been sent, or the client is about
\* to learn of the claim, or it has a job that knows and will release it.
Releasing == \E i \in DOMAIN sent : sent[i].m = "Release"
Granted == \E i \in DOMAIN inbox : Asks(inbox[i].call) /\ inbox[i].value = "ok"
Holding == /\ job # NoJob /\ job.claimed
           /\ \A c \in calls \cup Handled : c.m = "Release" => c.id # job.id
HeldInv == claimed # Nobody => Releasing \/ Granted \/ Holding

\* busy without a job has a refresh or the newest connect to clear it.
Clears(c) == c.m = "List" \/ (c.m \in Linking /\ c.id = count.connects)
BusyInv == busy /\ job = NoJob => \E c \in calls : Clears(c)

\* The dialog on the screen is the running job's.
DialogInv == dialog = Running <=> job # NoJob

ClaimsInv == ClaimInv /\ OnBus("Claim") /\ OwnerInv
Good == Types /\ KnownInv /\ PhaseInv /\ ClaimsInv /\ HeldInv /\ BusyInv /\ DialogInv

-----------------------------------------------------------------------------
(* Steps of the client, as far as the bus goes                             *)

LEMMA MovedMade ==
  ASSUME NEW n, NEW new, Moved(n, new)
  PROVE  /\ Made' \subseteq Made \cup new
         /\ calls' \cup Handled' \subseteq calls \cup Handled \cup new
<1>1. ASSUME NEW i \in DOMAIN inbox' PROVE inbox'[i].call \in Handled \cup new
  <2>1. CASE i + n \in DOMAIN inbox /\ inbox'[i] = inbox[i + n]
    BY <2>1 DEF Handled
  <2>2. CASE \E c \in new : inbox'[i] = ReplyTo(c, "error")
    BY <2>2 DEF ReplyTo
  <2> QED BY <2>1, <2>2 DEF Moved
<1>2. Handled' \subseteq Handled \cup new
  BY <1>1 DEF Handled
<1>3. \A i \in DOMAIN sent' : sent'[i] \in {sent[k] : k \in DOMAIN sent} \cup new
  BY DEF Moved
<1>4. calls' \subseteq calls \cup new /\ asked' = asked
  BY DEF Moved
<1> QED BY <1>2, <1>3, <1>4 DEF Made

\* Is the call c one that fprintd may still carry out, or of which the client
\* may still learn that it has?
Live(n, c) ==
  \/ c \in asked \/ \E i \in DOMAIN sent : sent[i] = c
  \/ \E i \in DOMAIN inbox : i > n /\ inbox[i].call = c /\ inbox[i].value = "ok"

\* A step of the client that makes no call of m, and does not take the job from
\* a live one.
LEMMA OnBusKept ==
  ASSUME BusTypes, BusTypes', NEW m, OnBus(m), NEW n, NEW new \in SUBSET Numbered, Moved(n, new),
         \A c \in new : c.m # m,
         \A c \in calls : c.m = m /\ OfJob(c) /\ Live(n, c) => job' # NoJob /\ job'.id = c.id
  PROVE  OnBus(m)'
<1> DEFINE gone == IF n = 1 THEN {inbox[1].call} ELSE {}
<1>1. calls' = (calls \ gone) \cup new /\ n \in {0, 1}
  <2>1. /\ calls' = (IF n = 1 THEN calls \ {inbox[1].call} ELSE calls) \cup new
        /\ n \in {0, 1}
    BY Zenon DEF Moved
  <2>2. CASE n = 1
    BY <2>1, <2>2
  <2>3. CASE n # 1
    BY <2>1, <2>3
  <2> QED BY <2>1, <2>2, <2>3
<1>2. \A i \in DOMAIN inbox : i \in Nat /\ i >= 1
  BY DEF BusTypes
<1>3. \A i \in DOMAIN inbox' : i \in Nat /\ i >= 1
  BY DEF BusTypes
<1>4. ASSUME NEW i \in DOMAIN inbox', inbox'[i].call.m = m
      PROVE  i + n \in DOMAIN inbox /\ inbox'[i] = inbox[i + n]
  BY <1>4 DEF Moved, ReplyTo
<1>5. ASSUME NEW c \in calls, c.m = m, NotAnswered(c)
      PROVE  c \notin gone /\ \A i \in DOMAIN inbox' : inbox'[i].call # c
  <2>1. c \notin gone
    BY <1>5, <1>1 DEF NotAnswered, Moved
  <2>2. ASSUME NEW i \in DOMAIN inbox', inbox'[i].call = c PROVE FALSE
    BY <1>4, <1>5, <2>2 DEF NotAnswered
  <2> QED BY <2>1, <2>2
<1> HIDE DEF gone
<1>6. SentInv(m)'
  <2> SUFFICES ASSUME NEW i \in DOMAIN sent', sent'[i].m = m
               PROVE  /\ sent'[i] \in calls' /\ job' # NoJob /\ sent'[i].id = job'.id
                      /\ \A k \in DOMAIN inbox' : inbox'[k].call # sent'[i]
                      /\ \A k \in DOMAIN sent' : sent'[k].m = m => k = i
    BY DEF SentInv, OfJob, NotAnswered
  <2>1. \A k \in DOMAIN sent' : sent'[k].m = m => k \in DOMAIN sent /\ sent'[k] = sent[k]
    BY DEF Moved
  <2>2. i \in DOMAIN sent /\ sent'[i] = sent[i] /\ sent[i].m = m
    BY <2>1
  <2>3. OfJob(sent[i]) /\ NotAnswered(sent[i]) /\ \A k \in DOMAIN sent : sent[k].m = m => k = i
    BY <2>2 DEF SentInv, OnBus
  <2> DEFINE c == sent[i]
  <2>4. c \in calls /\ c \notin new /\ Live(n, c) /\ OfJob(c)
    BY <2>2, <2>3 DEF OfJob, Live
  <2>5. c \in calls' /\ job' # NoJob /\ job'.id = c.id
    BY <1>1, <1>5, <2>2, <2>3, <2>4
  <2>6. \A k \in DOMAIN inbox' : inbox'[k].call # c
    BY <1>5, <2>2, <2>3, <2>4
  <2> QED BY <2>1, <2>2, <2>3, <2>5, <2>6
<1>7. AskedInv(m)'
  <2> SUFFICES ASSUME NEW c \in asked, c.m = m
               PROVE  /\ c \in calls' /\ job' # NoJob /\ c.id = job'.id
                      /\ \A i \in DOMAIN inbox' : inbox'[i].call # c
                      /\ \A k \in DOMAIN sent' : sent'[k].m # m
    BY DEF AskedInv, OfJob, NotAnswered, Moved
  <2>1. OfJob(c) /\ NotAnswered(c) /\ \A k \in DOMAIN sent : sent[k].m # m
    BY DEF AskedInv, OnBus
  <2>2. \A k \in DOMAIN sent' : sent'[k].m # m
    BY <2>1 DEF Moved
  <2>3. c \in calls /\ Live(n, c)
    BY <2>1 DEF OfJob, Live
  <2> QED BY <1>1, <1>5, <2>1, <2>2, <2>3
<1>8. InboxInv(m)'
  <2> SUFFICES ASSUME NEW i \in DOMAIN inbox', inbox'[i].call.m = m
               PROVE  /\ inbox'[i].call \in calls'
                      /\ \A k \in DOMAIN inbox' : inbox'[k].call = inbox'[i].call => k = i
                      /\ inbox'[i].value = "ok" => job' # NoJob /\ inbox'[i].call.id = job'.id
    BY DEF InboxInv, OfJob
  <2> DEFINE c == inbox'[i].call
  <2>1. i + n \in DOMAIN inbox /\ inbox'[i] = inbox[i + n]
    BY <1>4
  <2>2. /\ c \in calls /\ \A k \in DOMAIN inbox : inbox[k].call = c => k = i + n
        /\ inbox[i + n].value = "ok" => OfJob(c)
    BY <2>1 DEF InboxInv, OnBus
  <2>3. i + n > n
    BY <1>1, <1>3
  <2>4. c \notin gone
    BY <1>1, <1>3, <2>2 DEF gone, Moved
  <2>5. \A k \in DOMAIN inbox' : inbox'[k].call = c => k = i
    <3> SUFFICES ASSUME NEW k \in DOMAIN inbox', inbox'[k].call = c PROVE k = i
      OBVIOUS
    <3>1. k + n \in DOMAIN inbox /\ inbox'[k] = inbox[k + n]
      BY <1>4
    <3> QED BY <1>1, <1>3, <2>2, <3>1
  <2>6. ASSUME inbox'[i].value = "ok" PROVE job' # NoJob /\ c.id = job'.id
    <3>1. OfJob(c)
      BY <2>1, <2>2, <2>6
    <3>2. Live(n, c)
      BY <2>1, <2>3, <2>6 DEF Live
    <3> QED BY <2>2, <3>1, <3>2
  <2> QED BY <1>1, <2>2, <2>4, <2>5, <2>6
<1>9. LostInv(m)'
  <2> SUFFICES ASSUME NEW i \in DOMAIN inbox', inbox'[i].kind = "owner",
                      NEW k \in DOMAIN inbox', k > i, inbox'[k].call.m = m
               PROVE  inbox'[k].value = "error"
    BY DEF LostInv
  <2>1. i + n \in DOMAIN inbox /\ inbox'[i] = inbox[i + n]
    BY DEF Moved, ReplyTo
  <2>2. k + n \in DOMAIN inbox /\ inbox'[k] = inbox[k + n] /\ k + n > i + n
    BY <1>1, <1>3, <1>4
  <2> QED BY <2>1, <2>2 DEF LostInv, OnBus
<1> QED BY <1>6, <1>7, <1>8, <1>9 DEF OnBus

LEMMA OwnerKept ==
  ASSUME BusTypes, BusTypes', OwnerInv, NEW n, NEW new, Moved(n, new)
  PROVE  OwnerInv'
<1> SUFFICES ASSUME NEW i \in DOMAIN inbox', inbox'[i].kind = "owner"
             PROVE  /\ claimed = Nobody /\ action = "none" /\ asked = {}
                    /\ \A k \in DOMAIN sent' : sent'[k].m \in Linking
  BY DEF OwnerInv, Moved
<1>1. n \in {0, 1} /\ i \in Nat /\ i >= 1
  BY DEF BusTypes, Moved
<1>2. i + n \in DOMAIN inbox /\ inbox[i + n].kind = "owner" /\ i + n > n
  BY <1>1 DEF Moved, ReplyTo
<1>3. /\ claimed = Nobody /\ action = "none" /\ asked = {}
      /\ \A k \in DOMAIN sent : sent[k].m \in Linking
  BY <1>2 DEF OwnerInv
<1>4. \A k \in DOMAIN sent' : sent'[k].m \in Linking
  BY <1>2, <1>3 DEF Moved
<1> QED BY <1>3, <1>4

\* A step of the client that makes the call c of m, when no other is live.
LEMMA OnBusMade ==
  ASSUME BusTypes, BusTypes', NEW m, m \notin Linking, OnBus(m), NEW n, NEW new, Moved(n, new),
         NEW c \in Numbered, c.m = m, \A d : d \in new <=> d = c,
         c \notin Made, \A d : d.m = m => ~Live(n, d),
         job' # NoJob, job'.id = c.id
  PROVE  OnBus(m)'
<1>1. n \in {0, 1}
  BY DEF Moved
<1>2. /\ \A i \in DOMAIN inbox : i \in Nat /\ i >= 1 /\ inbox[i].call # c
      /\ \A i \in DOMAIN inbox' : i \in Nat /\ i >= 1
  BY DEF BusTypes, Made, Handled
<1>3. \A i \in DOMAIN inbox' :
        \/ i + n \in DOMAIN inbox /\ inbox'[i] = inbox[i + n]
        \/ /\ i + n \notin DOMAIN inbox /\ inbox'[i] = ReplyTo(c, "error")
           /\ \E k \in DOMAIN inbox : k > n /\ inbox[k].kind = "owner"
  BY DEF Moved
<1>4. \A i \in DOMAIN sent' : sent'[i].m = m =>
        /\ i \notin DOMAIN sent /\ sent'[i] = c
        /\ \A k \in DOMAIN inbox : k > n => inbox[k].kind # "owner"
  <2> SUFFICES ASSUME NEW i \in DOMAIN sent', sent'[i].m = m
               PROVE  /\ i \notin DOMAIN sent /\ sent'[i] = c
                      /\ \A k \in DOMAIN inbox : k > n => inbox[k].kind # "owner"
    OBVIOUS
  <2>1. i \notin DOMAIN sent \/ sent'[i] # sent[i]
    BY DEF Live
  <2> QED BY <2>1 DEF Moved
<1>5. c \in calls' /\ \A d \in calls : d = inbox[1].call \/ d \in calls' \/ n = 0
  <2>1. calls' = (IF n = 1 THEN calls \ {inbox[1].call} ELSE calls) \cup new
    BY Zenon DEF Moved
  <2> QED BY <2>1
<1>6. ASSUME NEW d \in calls, n = 0 PROVE d \in calls'
  <2>1. calls' = (IF n = 1 THEN calls \ {inbox[1].call} ELSE calls) \cup new
    BY Zenon DEF Moved
  <2> QED BY <1>6, <2>1
<1>7. SentInv(m)'
  <2> SUFFICES ASSUME NEW i \in DOMAIN sent', sent'[i].m = m
               PROVE  /\ sent'[i] \in calls' /\ job' # NoJob /\ sent'[i].id = job'.id
                      /\ \A k \in DOMAIN inbox' : inbox'[k].call # sent'[i]
                      /\ \A k \in DOMAIN sent' : sent'[k].m = m => k = i
    BY DEF SentInv, OfJob, NotAnswered
  <2>1. \A k \in DOMAIN inbox' : inbox'[k].call # c
    BY <1>2, <1>3, <1>4
  <2>2. \A k \in DOMAIN sent' : sent'[k].m = m => k = i
    BY <1>4 DEF Moved
  <2> QED BY <1>4, <1>5, <2>1, <2>2
<1>8. AskedInv(m)'
  <2>1. \A d \in asked : d.m # m
    BY DEF Live
  <2> QED BY <2>1 DEF AskedInv, Moved
<1>9. InboxInv(m)'
  <2> SUFFICES ASSUME NEW i \in DOMAIN inbox', inbox'[i].call.m = m
               PROVE  /\ inbox'[i].call \in calls'
                      /\ \A k \in DOMAIN inbox' : inbox'[k].call = inbox'[i].call => k = i
                      /\ inbox'[i].value # "ok"
    BY DEF InboxInv
  <2>1. CASE i + n \in DOMAIN inbox /\ inbox'[i] = inbox[i + n]
    <3> DEFINE d == inbox[i + n].call
    <3>1. /\ d \in calls /\ \A k \in DOMAIN inbox : inbox[k].call = d => k = i + n
          /\ i + n > n
      BY <1>1, <1>2, <2>1 DEF InboxInv, OnBus
    <3>2. inbox[i + n].value # "ok"
      BY <2>1, <3>1 DEF Live
    <3>3. d \in calls'
      BY <1>1, <1>2, <1>5, <1>6, <3>1 DEF Moved
    <3>4. \A k \in DOMAIN inbox' : inbox'[k].call = d => k = i
      <4> SUFFICES ASSUME NEW k \in DOMAIN inbox', inbox'[k].call = d PROVE k = i
        OBVIOUS
      <4>1. k + n \in DOMAIN inbox /\ inbox'[k] = inbox[k + n]
        BY <1>2, <1>3, <2>1 DEF ReplyTo
      <4> QED BY <1>1, <1>2, <3>1, <4>1
    <3> QED BY <2>1, <3>2, <3>3, <3>4
  <2>2. CASE i + n \notin DOMAIN inbox /\ inbox'[i] = ReplyTo(c, "error")
    <3>1. inbox'[i].call = c /\ inbox'[i].value = "error"
      BY <2>2 DEF ReplyTo
    <3>2. \A k \in DOMAIN inbox' : inbox'[k].call = c => k + n \notin DOMAIN inbox
      BY <1>2, <1>3
    <3>3. \A k \in DOMAIN inbox' : inbox'[k].call = c => k = i
      BY <2>2, <3>2 DEF Moved
    <3> QED BY <1>5, <3>1, <3>3
  <2> QED BY <1>3, <2>1, <2>2
<1>10. LostInv(m)'
  <2> SUFFICES ASSUME NEW i \in DOMAIN inbox', inbox'[i].kind = "owner",
                      NEW k \in DOMAIN inbox', k > i, inbox'[k].call.m = m
               PROVE  inbox'[k].value = "error"
    BY DEF LostInv
  <2>1. i + n \in DOMAIN inbox /\ inbox'[i] = inbox[i + n]
    BY <1>3 DEF ReplyTo
  <2>2. CASE k + n \in DOMAIN inbox /\ inbox'[k] = inbox[k + n]
    <3>1. k + n > i + n
      BY <1>1, <1>2
    <3> QED BY <2>1, <2>2, <3>1 DEF LostInv, OnBus
  <2>3. CASE inbox'[k] = ReplyTo(c, "error")
    BY <2>3 DEF ReplyTo
  <2> QED BY <1>3, <2>2, <2>3
<1> QED BY <1>7, <1>8, <1>9, <1>10 DEF OnBus

LEMMA ClaimsKept ==
  ASSUME BusTypes, BusTypes', ClaimsInv, NEW n, NEW new \in SUBSET Numbered, Moved(n, new),
         \A c \in new : ~Asks(c),
         \A c \in calls : Asks(c) /\ OfJob(c) /\ Live(n, c) => job' # NoJob /\ job'.id = c.id,
         \A c \in calls' : Asks(c) /\ job' # NoJob /\ c.id = job'.id =>
           job'.pending /\ ~job'.claimed /\ ~job'.ending
  PROVE  ClaimsInv'
<1>1. calls' \subseteq calls \cup new
  BY DEF Moved
<1>2. ClaimInv'
  BY <1>1 DEF ClaimInv, ClaimsInv, Asks
<1>3. OnBus("Claim")'
  BY OnBusKept DEF ClaimsInv, Asks
<1>4. OwnerInv'
  BY OwnerKept DEF ClaimsInv
<1> QED BY <1>2, <1>3, <1>4 DEF ClaimsInv

LEMMA KnownKept ==
  ASSUME CountTypes, CountTypes', BusTypes, KnownInv, NEW n, NEW new \in SUBSET Numbered, Moved(n, new),
         count.jobs <= count'.jobs, \A c \in new : c.m \in JobMethods => c.id <= count'.jobs,
         job' # NoJob => job'.id <= count'.jobs
  PROVE  KnownInv'
<1>1. Made' \subseteq Made \cup new
  BY MovedMade
<1>2. \A c \in Made : c.m \in JobMethods => c.id \in Nat /\ c.id <= count.jobs
  <2>1. \A i \in DOMAIN inbox : inbox[i] \in Messages
    BY DEF BusTypes
  <2>2. \A i \in DOMAIN sent : sent[i] \in Numbered
    BY DEF BusTypes
  <2>3. \A i \in DOMAIN inbox : inbox[i].call \in Numbered \/ inbox[i].call = NoCall
    BY <2>1 DEF Messages, Replies
  <2>4. \A c \in Made : c \in Numbered \/ c = NoCall
    BY <2>2, <2>3 DEF Made, Handled, BusTypes
  <2>5. NoCall.m \notin JobMethods
    BY DEF NoCall, Call, JobMethods
  <2> QED BY <2>4, <2>5 DEF Numbered, Calls, KnownInv
<1>3. count.jobs \in Nat /\ count'.jobs \in Nat
  BY RegistryAssumption DEF CountTypes
<1> QED BY <1>1, <1>2, <1>3 DEF KnownInv

LEMMA HeldKept ==
  ASSUME BusTypes, ClaimsInv, HeldInv, NEW n, NEW new \in SUBSET Numbered, Moved(n, new),
         n = 1 => ~(Asks(inbox[1].call) /\ inbox[1].value = "ok"),
         \A c, d \in new : c = d,
         claimed # Nobody /\ Holding =>
           \/ job' # NoJob /\ job'.claimed /\ job'.id = job.id
           \/ \E c \in new : c.m = "Release"
  PROVE  HeldInv'
<1> SUFFICES ASSUME claimed # Nobody PROVE Releasing' \/ Granted' \/ Holding'
  BY DEF HeldInv, Moved
<1>1. \A i \in DOMAIN inbox : i \in Nat /\ i >= 1 /\ inbox[i].kind # "owner"
  BY DEF BusTypes, ClaimsInv, OwnerInv
<1>2. CASE Releasing
  BY <1>2 DEF Releasing, Moved
<1>3. CASE Granted
  <2> PICK i \in DOMAIN inbox : Asks(inbox[i].call) /\ inbox[i].value = "ok"
    BY <1>3 DEF Granted
  <2>1. i > n
    BY <1>1 DEF Moved
  <2>2. i - n \in DOMAIN inbox' /\ inbox'[i - n] = inbox[i]
    BY <2>1 DEF Moved
  <2> QED BY <2>2 DEF Granted, Asks
<1>4. CASE Holding /\ \E c \in new : c.m = "Release"
  <2>1. \E i \in DOMAIN sent' : sent'[i] \in new
    BY <1>1, <1>4 DEF Moved
  <2> QED BY <1>4, <2>1 DEF Releasing
<1>5. CASE Holding /\ ~\E c \in new : c.m = "Release"
  <2>1. job' # NoJob /\ job'.claimed /\ job'.id = job.id
    BY <1>5
  <2>2. calls' \cup Handled' \subseteq calls \cup Handled \cup new
    BY MovedMade
  <2>3. \A c \in calls' \cup Handled' : c.m = "Release" => c.id # job'.id
    BY <1>5, <2>1, <2>2 DEF Holding
  <2> QED BY <2>1, <2>3 DEF Holding
<1> QED BY <1>2, <1>3, <1>4, <1>5 DEF HeldInv

\* A step that leaves the job alone and is not about it.
LEMMA PlainKept ==
  ASSUME Good, BusTypes', CountTypes', NEW n, NEW new \in SUBSET Numbered, Moved(n, new),
         job' = job, count'.jobs = count.jobs,
         n = 1 => ~(Asks(inbox[1].call) /\ inbox[1].value = "ok"),
         \A c, d \in new : c = d, \A c \in new : c.m \notin JobMethods
  PROVE  KnownInv' /\ PhaseInv' /\ ClaimsInv' /\ HeldInv' /\ JobTypes' /\ FprintdTypes'
<1> USE DEF Good, Types
<1>1. KnownInv'
  <2>1. count.jobs <= count'.jobs
    BY RegistryAssumption DEF CountTypes
  <2> QED BY <2>1, KnownKept DEF KnownInv
<1>2. PhaseInv'
  <2>1. Made' \subseteq Made \cup new
    BY MovedMade
  <2> QED BY <2>1 DEF PhaseInv
<1>3. ClaimsInv'
  <2>1. \A c \in new : ~Asks(c)
    BY DEF Asks, JobMethods
  <2>2. \A c \in calls' : Asks(c) /\ job' # NoJob /\ c.id = job'.id =>
           job'.pending /\ ~job'.claimed /\ ~job'.ending
    <3>1. calls' \subseteq calls \cup new
      BY DEF Moved
    <3> QED BY <2>1, <3>1 DEF ClaimsInv, ClaimInv
  <2>3. \A c \in calls : Asks(c) /\ OfJob(c) /\ Live(n, c) => job' # NoJob /\ job'.id = c.id
    BY DEF OfJob
  <2> QED BY <2>1, <2>2, <2>3, ClaimsKept
<1>4. HeldInv'
  BY HeldKept DEF Holding
<1>5. JobTypes' /\ FprintdTypes'
  BY DEF JobTypes, FprintdTypes, Moved
<1> QED BY <1>1, <1>2, <1>3, <1>4, <1>5

-----------------------------------------------------------------------------
(* Counters, calls and registers                                           *)

LEMMA CountFacts ==
  ASSUME CountTypes
  PROVE  /\ {count.jobs, count.connects, count.refreshes, count.deaths} \subseteq Nat
         /\ count.connects < MaxConnects /\ count' = [count EXCEPT !.connects = @ + 1] =>
              /\ CountTypes' /\ count'.connects = count.connects + 1
              /\ count'.jobs = count.jobs /\ count.connects + 1 \in 1..MaxConnects
         /\ count.jobs < MaxJobs /\ count' = [count EXCEPT !.jobs = @ + 1] =>
              /\ CountTypes' /\ count'.jobs = count.jobs + 1
              /\ count'.connects = count.connects /\ count.jobs + 1 \in 1..MaxJobs
         /\ count' = [count EXCEPT !.refreshes = @ + 1] =>
              CountTypes' /\ count'.jobs = count.jobs /\ count'.connects = count.connects
         /\ count' = [count EXCEPT !.deaths = @ + 1] =>
              CountTypes' /\ count'.jobs = count.jobs /\ count'.connects = count.connects
<1>1. {count.jobs, count.connects, count.refreshes, count.deaths} \subseteq Nat
  BY RegistryAssumption DEF CountTypes
<1>2. ASSUME count.connects < MaxConnects, count' = [count EXCEPT !.connects = @ + 1]
      PROVE  /\ CountTypes' /\ count'.connects = count.connects + 1
             /\ count'.jobs = count.jobs /\ count.connects + 1 \in 1..MaxConnects
  <2> DEFINE k == count.connects + 1
  <2>1. k \in 0..MaxConnects /\ k \in 1..MaxConnects
    BY <1>1, <1>2, RegistryAssumption
  <2> HIDE DEF k
  <2>2. count' = [count EXCEPT !.connects = k]
    BY <1>2 DEF k
  <2>3. CountTypes' /\ count'.connects = k /\ count'.jobs = count.jobs
    BY <2>1, <2>2 DEF CountTypes
  <2> QED BY <2>1, <2>3 DEF k
<1>3. ASSUME count.jobs < MaxJobs, count' = [count EXCEPT !.jobs = @ + 1]
      PROVE  /\ CountTypes' /\ count'.jobs = count.jobs + 1
             /\ count'.connects = count.connects /\ count.jobs + 1 \in 1..MaxJobs
  <2> DEFINE k == count.jobs + 1
  <2>1. k \in 0..MaxJobs /\ k \in 1..MaxJobs
    BY <1>1, <1>3, RegistryAssumption
  <2> HIDE DEF k
  <2>2. count' = [count EXCEPT !.jobs = k]
    BY <1>3 DEF k
  <2>3. CountTypes' /\ count'.jobs = k /\ count'.connects = count.connects
    BY <2>1, <2>2 DEF CountTypes
  <2> QED BY <2>1, <2>3 DEF k
<1>4. ASSUME count' = [count EXCEPT !.refreshes = @ + 1]
      PROVE  CountTypes' /\ count'.jobs = count.jobs /\ count'.connects = count.connects
  <2> DEFINE k == count.refreshes + 1
  <2>1. k \in Nat
    BY <1>1
  <2> HIDE DEF k
  <2>2. count' = [count EXCEPT !.refreshes = k]
    BY <1>4 DEF k
  <2> QED BY <2>1, <2>2 DEF CountTypes
<1>5. ASSUME count' = [count EXCEPT !.deaths = @ + 1]
      PROVE  CountTypes' /\ count'.jobs = count.jobs /\ count'.connects = count.connects
  <2> DEFINE k == count.deaths + 1
  <2>1. k \in Nat
    BY <1>1
  <2> HIDE DEF k
  <2>2. count' = [count EXCEPT !.deaths = k]
    BY <1>5 DEF k
  <2> QED BY <2>1, <2>2 DEF CountTypes
<1> QED BY <1>1, <1>2, <1>3, <1>4, <1>5

LEMMA CallFacts ==
  /\ \A i \in 1..MaxConnects, m \in Linking : Call(m, i, Own, {}) \in Numbered
  /\ \A i \in Nat, u \in Users, rest \in SUBSET Users : Call("List", i, u, rest) \in Numbered
  /\ \A m \in JobMethods, i \in Nat, u \in Users : Call(m, i, u, {}) \in Numbered
  /\ \A m, i, u, rest : Call(m, i, u, rest).m = m /\ Call(m, i, u, rest).id = i
BY RegistryAssumption DEF Call, Numbered, Calls, Methods, Linking, Asking, JobMethods

\* A refresh of one user is one call; of nobody, or of a client that is not
\* ready, none.
LEMMA RefreshFacts ==
  ASSUME CountTypes, NEW ready, NEW users \in SUBSET Users
  PROVE  /\ RefreshCalls(users, ready) \subseteq Numbered
         /\ \A c \in RefreshCalls(users, ready) : c.m = "List"
         /\ RefreshCalls(users, ready) # {} <=> ready /\ users # {}
         /\ \A u : users = {u} => \A c, d \in RefreshCalls(users, ready) : c = d
<1>1. count.refreshes + 1 \in Nat
  BY CountFacts
<1>2. \A u \in users : /\ Call("List", count.refreshes + 1, u, users \ {u}) \in Numbered
                       /\ Call("List", count.refreshes + 1, u, users \ {u}).m = "List"
  BY <1>1, CallFacts
<1>3. CASE ready /\ users # {}
  BY <1>2, <1>3 DEF RefreshCalls
<1>4. CASE ~(ready /\ users # {})
  BY <1>4 DEF RefreshCalls
<1> QED BY <1>3, <1>4

\* The calls after a step of the client.
LEMMA CallsNow ==
  ASSUME NEW n, NEW new, Moved(n, new)
  PROVE  /\ new \subseteq calls' /\ calls' \subseteq calls \cup new
         /\ \A c \in calls : c \in calls' \/ (n = 1 /\ c = inbox[1].call)
<1>1. calls' = (IF n = 1 THEN calls \ {inbox[1].call} ELSE calls) \cup new
  BY Zenon DEF Moved
<1> QED BY <1>1

-----------------------------------------------------------------------------
(* Steps that leave the job alone                                          *)

LEMMA ReplyFacts ==
  ASSUME BusTypes, NEW methods, Returned(methods)
  PROVE  /\ inbox # <<>> /\ Msg = inbox[1] /\ 1 \in DOMAIN inbox /\ Msg \in Replies
         /\ Msg.call \in Numbered /\ Msg.call.m \in methods /\ dialog # Ended
<1>1. inbox # <<>> /\ inbox \in Seq(Messages) /\ Msg.kind = "reply" /\ Msg.call.m \in methods
  BY DEF Returned, Arrived, BusTypes
<1>2. Msg \in Messages /\ Msg = inbox[1] /\ 1 \in DOMAIN inbox
  BY <1>1, TailFacts DEF Msg
<1>3. Msg \in Replies
  BY <1>1, <1>2 DEF Messages
<1> QED BY <1>1, <1>2, <1>3 DEF Replies, Returned, Arrived

\* Clears of a call, in the next state.
ClearsNow(c) == c.m = "List" \/ (c.m \in Linking /\ c.id = count'.connects)

\* A step that leaves the job alone, and handles no answer to a call of it.
PlainMove(n, new) ==
  /\ Moved(n, new) /\ BusTypes' /\ CountTypes' /\ ClientTypes'
  /\ job' = job /\ count'.jobs = count.jobs
  /\ n = 1 => inbox[1].call.m \notin JobMethods
  /\ (\A c, d \in new : c = d) /\ \A c \in new : c.m \notin JobMethods
  /\ dialog' = Running <=> dialog = Running
  /\ \/ ~busy'
     \/ \E c \in new : ClearsNow(c)
     \/ /\ busy' = busy /\ count'.connects = count.connects
        /\ n = 1 => ~Clears(inbox[1].call)
Plainly == \E n \in {0, 1}, new \in SUBSET Numbered : PlainMove(n, new)

\* One that makes a call which will clear busy.
LEMMA PlainCall ==
  ASSUME NEW n \in {0, 1}, NEW c \in Numbered, Moved(n, {c}), BusTypes', CountTypes',
         ClientTypes', job' = job, count'.jobs = count.jobs,
         n = 1 => inbox[1].call.m \notin JobMethods,
         c.m \notin JobMethods, ClearsNow(c), dialog' = dialog
  PROVE  Plainly
<1>1. {c} \in SUBSET Numbered /\ PlainMove(n, {c})
  BY DEF PlainMove
<1> QED BY <1>1 DEF Plainly

\* One that makes none.
LEMMA PlainQuiet ==
  ASSUME NEW n \in {0, 1}, Moved(n, {}), BusTypes', CountTypes',
         ClientTypes', job' = job, count'.jobs = count.jobs,
         n = 1 => inbox[1].call.m \notin JobMethods,
         dialog' = Running <=> dialog = Running,
         \/ ~busy'
         \/ busy' = busy /\ count'.connects = count.connects /\ (n = 1 => ~Clears(inbox[1].call))
  PROVE  Plainly
<1>1. {} \in SUBSET Numbered /\ PlainMove(n, {})
  BY DEF PlainMove
<1> QED BY <1>1 DEF Plainly

LEMMA ConnectStep == ASSUME Types, Connect PROVE Plainly
<1> DEFINE k == count.connects + 1
           c == Call("Manager", k, Own, {})
<1>1. /\ Make({c}) /\ busy' = TRUE /\ UNCHANGED <<device, job, shown, dialog, closing>>
      /\ count.connects < MaxConnects /\ count' = [count EXCEPT !.connects = @ + 1]
  BY DEF Connect, gui
<1>2. CountTypes' /\ count'.connects = k /\ count'.jobs = count.jobs /\ k \in 1..MaxConnects
  BY <1>1, CountFacts DEF Types
<1> HIDE DEF k
<1>3. c \in Numbered /\ c.m = "Manager" /\ c.id = k
  BY <1>2, CallFacts DEF Linking
<1> HIDE DEF c
<1>4. Moved(0, {c}) /\ BusTypes'
  BY <1>1, <1>3, MakeFacts DEF Types
<1>5. ClientTypes'
  BY <1>1 DEF ClientTypes, Types
<1>6. ClearsNow(c) /\ c.m \notin JobMethods
  BY <1>2, <1>3 DEF Clears, ClearsNow, Linking, JobMethods
<1> QED BY <1>1, <1>2, <1>3, <1>4, <1>5, <1>6, PlainCall

LEMMA FailStep ==
  ASSUME Types, Returned(Linking), Fail PROVE Plainly
<1>1. /\ inbox # <<>> /\ Msg = inbox[1] /\ Msg.call.m \in Linking /\ Handle({})
      /\ device' = 0 /\ busy' = FALSE /\ UNCHANGED <<job, shown, dialog, closing, count>>
  BY ReplyFacts DEF Fail, gui, Types
<1>2. Moved(1, {}) /\ BusTypes'
  BY <1>1, HandleFacts DEF Types
<1>3. ClientTypes' /\ CountTypes'
  <2>1. 0 \in 0..MaxConnects
    BY RegistryAssumption
  <2> QED BY <1>1, <2>1 DEF ClientTypes, CountTypes, Types
<1>4. inbox[1].call.m \notin JobMethods
  BY <1>1 DEF JobMethods, Linking
<1> QED BY <1>1, <1>2, <1>3, <1>4, PlainQuiet

LEMMA GoOnStep ==
  ASSUME Types, Returned(Linking), NEW next \in {"GetDevices", "Proxy"}, GoOn(next)
  PROVE  Plainly
<1> DEFINE c == Call(next, Msg.call.id, Own, {})
           new == IF next = "Proxy" /\ Msg.call.id # count.connects THEN {} ELSE {c}
<1>1. /\ inbox # <<>> /\ Msg = inbox[1] /\ Msg.call \in Numbered /\ Msg.call.m \in Linking
      /\ Handle(new) /\ UNCHANGED <<device, busy, job, shown, dialog, closing, count>>
  BY ReplyFacts DEF GoOn, client, gui, Types
<1>2. c \in Numbered /\ c.m = next /\ c.id = Msg.call.id
  <2>1. Msg.call.id \in 1..MaxConnects
    BY <1>1 DEF Numbered
  <2> QED BY <2>1, CallFacts DEF Linking
<1> HIDE DEF c
<1>3. new \in SUBSET Numbered /\ \A d \in new : d = c
  BY <1>2
<1>4. Msg.call.id = count.connects => c \in new
  OBVIOUS
<1> HIDE DEF new
<1>5. Moved(1, new) /\ BusTypes'
  BY <1>1, <1>3, HandleFacts DEF Types
<1>6. ClientTypes' /\ CountTypes'
  BY <1>1 DEF ClientTypes, CountTypes, Types
<1>7. inbox[1].call.m \notin JobMethods /\ c.m \notin JobMethods
  BY <1>1, <1>2 DEF Linking, JobMethods
<1>8. Clears(inbox[1].call) => c \in new /\ ClearsNow(c)
  BY <1>1, <1>2, <1>4 DEF Clears, ClearsNow, Linking
<1> QED BY <1>1, <1>3, <1>5, <1>6, <1>7, <1>8 DEF Plainly, PlainMove

LEMMA LinkingStep == ASSUME Types, ManagerReady \/ DevicesListed PROVE Plainly
<1>1. Returned(Linking)
  BY DEF ManagerReady, DevicesListed, Returned, Linking
<1> QED BY <1>1, FailStep, GoOnStep DEF ManagerReady, DevicesListed

LEMMA DeviceReadyStep == ASSUME Types, DeviceReady PROVE Plainly
<1>1. Returned(Linking)
  BY DEF DeviceReady, Returned, Linking
<1>2. CASE /\ device' = Msg.call.id /\ busy' = TRUE
           /\ Handle(RefreshCalls({Own}, TRUE))
           /\ count' = [count EXCEPT !.refreshes = @ + 1]
           /\ UNCHANGED <<job, shown, gui>>
  <2> DEFINE new == RefreshCalls({Own}, TRUE)
  <2>1. /\ new \in SUBSET Numbered /\ new # {} /\ \A c \in new : c.m = "List"
        /\ \A c, d \in new : c = d
    <3>1. {Own} \in SUBSET Users /\ {Own} # {} /\ CountTypes
      BY RegistryAssumption DEF Types
    <3> QED BY <3>1, RefreshFacts
  <2>2. /\ inbox # <<>> /\ Msg = inbox[1] /\ Msg.call \in Numbered /\ Msg.call.m \in Linking
    BY <1>1, ReplyFacts DEF Types
  <2>3. Moved(1, new) /\ BusTypes'
    BY <1>2, <2>1, <2>2, HandleFacts DEF Types
  <2>4. CountTypes' /\ count'.jobs = count.jobs
    BY <1>2, CountFacts DEF Types
  <2>5. ClientTypes'
    BY <1>2, <2>2 DEF ClientTypes, Types, Numbered, gui
  <2> HIDE DEF new
  <2>6. inbox[1].call.m \notin JobMethods /\ \A c \in new : c.m \notin JobMethods /\ ClearsNow(c)
    BY <2>1, <2>2 DEF Linking, JobMethods, ClearsNow
  <2> QED BY <1>2, <2>1, <2>3, <2>4, <2>5, <2>6 DEF Plainly, PlainMove, gui
<1>3. CASE GoOn("Proxy") \/ Fail
  BY <1>1, <1>3, GoOnStep, FailStep
<1> QED BY <1>2, <1>3 DEF DeviceReady

LEMMA RefreshStep == ASSUME Types, NEW users \in SUBSET Users, Refresh(users) PROVE Plainly
<1> DEFINE all == RefreshCalls(users, TRUE)
<1>1. all \subseteq Numbered /\ \A c \in all : c.m = "List"
  BY RefreshFacts DEF Types
<1>2. PICK c \in all : Make({c})
  BY DEF Refresh
<1> HIDE DEF all
<1>3. /\ busy' = TRUE /\ UNCHANGED <<device, job, shown, dialog, closing>>
      /\ count' = [count EXCEPT !.refreshes = @ + 1]
  BY DEF Refresh, gui
<1>4. Moved(0, {c}) /\ BusTypes'
  BY <1>1, <1>2, MakeFacts DEF Types
<1>5. CountTypes' /\ count'.jobs = count.jobs /\ ClientTypes'
  BY <1>3, CountFacts DEF ClientTypes, Types
<1>6. ClearsNow(c) /\ c.m \notin JobMethods
  BY <1>1 DEF ClearsNow, JobMethods
<1> QED BY <1>1, <1>3, <1>4, <1>5, <1>6, PlainCall

LEMMA AskStep == ASSUME Types, AskForRegisters PROVE Plainly
  BY RefreshStep DEF AskForRegisters

LEMMA ListedStep == ASSUME Types, Listed PROVE Plainly
<1> DEFINE queue == IF Msg.value = "error" THEN {} ELSE Msg.call.rest
           new == {Call("List", Msg.call.id, u, queue \ {u}) : u \in queue}
<1>1. /\ inbox # <<>> /\ Msg = inbox[1] /\ Msg \in Replies /\ Msg.call \in Numbered
      /\ Msg.call.m = "List"
  BY ReplyFacts DEF Listed, Types
<1>2. queue \subseteq Users /\ Msg.call.id \in Nat /\ Msg.value \in {"yes", "no", "error"}
  BY <1>1 DEF Replies, Numbered, Calls
<1>3. /\ shown' = [shown EXCEPT ![Msg.call.user] =
                     IF Msg.value = "error" THEN "unknown" ELSE Msg.value]
      /\ UNCHANGED <<device, job, dialog, closing, count>>
  BY DEF Listed, gui
<1>4. busy' \in BOOLEAN => ClientTypes' /\ CountTypes'
  BY <1>2, <1>3 DEF ClientTypes, CountTypes, Types
<1>5. inbox[1].call.m \notin JobMethods
  BY <1>1 DEF JobMethods
<1>6. CASE Handle({}) /\ busy' = FALSE
  <2>1. Moved(1, {}) /\ BusTypes'
    BY <1>1, <1>6, HandleFacts DEF Types
  <2> QED BY <1>3, <1>4, <1>5, <1>6, <2>1, PlainQuiet
<1>7. ASSUME NEW u \in queue, Handle({Call("List", Msg.call.id, u, queue \ {u})}),
             UNCHANGED busy
      PROVE  Plainly
  <2> DEFINE c == Call("List", Msg.call.id, u, queue \ {u})
  <2>1. c \in Numbered /\ c.m = "List"
    BY <1>2, CallFacts
  <2> HIDE DEF c
  <2>2. Moved(1, {c}) /\ BusTypes'
    BY <1>1, <1>7, <2>1, HandleFacts DEF Types, c
  <2>3. ClearsNow(c) /\ c.m \notin JobMethods /\ busy' \in BOOLEAN
    BY <1>7, <2>1 DEF ClearsNow, JobMethods, Types, ClientTypes
  <2> QED BY <1>3, <1>4, <1>5, <2>1, <2>2, <2>3, PlainCall
<1> QED BY <1>6, <1>7 DEF Listed

LEMMA BeginStep ==
  ASSUME Types, NEW mode \in Modes, NEW u \in Users, Begin(mode, u) \/ Dismiss PROVE Plainly
<1>1. /\ Make({}) /\ UNCHANGED <<device, busy, job, shown, closing, count>>
      /\ dialog # Running /\ dialog' \in {Ready(mode, u), NoDialog}
  BY DEF Begin, Dismiss, Idle, NoDialog, Running
<1>2. dialog' \in Dialogs /\ dialog' # Running
  BY <1>1 DEF Dialogs, Ready, NoDialog, Running
<1>3. Moved(0, {}) /\ BusTypes'
  BY <1>1, MakeFacts DEF Types
<1>4. ClientTypes' /\ CountTypes'
  BY <1>1, <1>2 DEF ClientTypes, CountTypes, Types
<1> QED BY <1>1, <1>2, <1>3, <1>4, PlainQuiet

LEMMA StartRaisesStep ==
  ASSUME Types, NEW mode \in Modes, NEW u \in Users, StartRaises(mode, u) PROVE Plainly
<1> DEFINE again == RefreshCalls({u}, shown[u] = "unknown" /\ ~busy /\ device # 0)
<1>1. /\ Make(again) /\ busy' = (busy \/ again # {})
      /\ count' = IF again = {} THEN count ELSE [count EXCEPT !.refreshes = @ + 1]
      /\ dialog = Ready(mode, u) /\ dialog' = Finished
      /\ UNCHANGED <<device, job, shown, closing>>
  BY DEF StartRaises
<1>2. /\ again \in SUBSET Numbered /\ \A c \in again : c.m = "List"
      /\ \A c, d \in again : c = d
  BY RefreshFacts DEF Types
<1> HIDE DEF again
<1>3. Moved(0, again) /\ BusTypes'
  BY <1>1, <1>2, MakeFacts DEF Types
<1>4. CountTypes' /\ count'.jobs = count.jobs /\ count'.connects = count.connects
  <2>1. CASE again = {}
    BY <1>1, <2>1 DEF CountTypes, Types
  <2>2. CASE again # {}
    BY <1>1, <2>2, CountFacts DEF Types
  <2> QED BY <2>1, <2>2
<1>5. dialog # Running /\ dialog' # Running /\ dialog' \in Dialogs
  BY <1>1 DEF Ready, Running, Finished, Dialogs
<1>6. ClientTypes'
  BY <1>1, <1>5 DEF ClientTypes, Types
<1>7. \A c \in again : ClearsNow(c) /\ c.m \notin JobMethods
  BY <1>2 DEF ClearsNow, JobMethods
<1>8. ~busy' \/ (\E c \in again : ClearsNow(c)) \/ busy' = busy
  BY <1>1, <1>7
<1> QED BY <1>1, <1>2, <1>3, <1>4, <1>5, <1>6, <1>7, <1>8 DEF Plainly, PlainMove

\* Of what such a step does, all but the buses is in sight.
LEMMA PlainGood ==
  ASSUME Good, NEW n, NEW new \in SUBSET Numbered, Moved(n, new), BusTypes', CountTypes',
         ClientTypes', job' = job, count'.jobs = count.jobs,
         n = 1 => ~(Asks(inbox[1].call) /\ inbox[1].value = "ok"),
         \A c, d \in new : c = d, \A c \in new : c.m \notin JobMethods,
         dialog' = Running <=> dialog = Running,
         \/ ~busy'
         \/ \E c \in new : ClearsNow(c)
         \/ /\ busy' = busy /\ count'.connects = count.connects
            /\ n = 1 => ~Clears(inbox[1].call)
  PROVE  Good'
<1>1. KnownInv' /\ PhaseInv' /\ ClaimsInv' /\ HeldInv' /\ JobTypes' /\ FprintdTypes'
  BY PlainKept
<1>2. BusyInv'
  BY CallsNow DEF BusyInv, Clears, ClearsNow, Good
<1>3. DialogInv'
  BY DEF DialogInv, Good
<1> QED BY <1>1, <1>2, <1>3 DEF Good, Types

LEMMA PlainStep == ASSUME Good, Plainly PROVE Good'
<1>1. PICK n \in {0, 1}, new \in SUBSET Numbered : PlainMove(n, new)
  BY DEF Plainly
<1>2. n = 1 => ~Asks(inbox[1].call)
  BY <1>1 DEF PlainMove, Asks, JobMethods
<1> QED BY <1>1, <1>2, PlainGood DEF PlainMove

-----------------------------------------------------------------------------
(* Steps of the job                                                        *)

\* The answer to a call that is live has not come.
LEMMA LiveNotHead ==
  ASSUME BusTypes, NEW m, OnBus(m), NEW c, c.m = m, Live(1, c), inbox # <<>>
  PROVE  c # inbox[1].call
<1>1. 1 \in DOMAIN inbox
  BY TailFacts DEF BusTypes
<1>2. CASE c \in asked
  BY <1>1, <1>2 DEF OnBus, AskedInv, NotAnswered
<1>3. CASE \E i \in DOMAIN sent : sent[i] = c
  BY <1>1, <1>3 DEF OnBus, SentInv, NotAnswered
<1>4. ASSUME NEW i \in DOMAIN inbox, i > 1, inbox[i].call = c, c = inbox[1].call PROVE FALSE
  <2>1. i = 1
    BY <1>1, <1>4 DEF OnBus, InboxInv
  <2> QED BY <1>4, <2>1
<1> QED BY <1>2, <1>3, <1>4 DEF Live

\* A granted Claim is taken by a job that will release the reader.
LEMMA GrantTaken ==
  ASSUME BusTypes, ClaimsInv, PhaseInv, NEW new \in SUBSET Numbered, Moved(1, new),
         Asks(inbox[1].call), inbox[1].value = "ok", job' # NoJob, job'.id = job.id, job'.claimed,
         \A c, d \in new : c = d
  PROVE  HeldInv'
<1> SUFFICES ASSUME claimed # Nobody, ~Releasing' PROVE Holding'
  BY DEF HeldInv, Moved
<1>1. 1 \in DOMAIN inbox
  BY DEF Moved
<1>2. \A i \in DOMAIN inbox : inbox[i].kind # "owner"
  BY DEF ClaimsInv, OwnerInv
<1>3. inbox[1].call \in calls /\ job # NoJob /\ inbox[1].call.id = job.id
  BY <1>1 DEF ClaimsInv, OnBus, InboxInv, OfJob, Asks
<1>4. ~job.claimed
  BY <1>3 DEF ClaimsInv, ClaimInv
<1>5. \A c \in new : c.m # "Release"
  BY <1>2 DEF Moved, Releasing
<1>6. \A c \in calls \cup Handled : c.m = "Release" => c.id # job.id
  BY <1>3, <1>4 DEF PhaseInv, JobMethods, Made
<1>7. calls' \cup Handled' \subseteq calls \cup Handled \cup new
  BY MovedMade
<1>8. \A c \in calls' \cup Handled' : c.m = "Release" => c.id # job'.id
  BY <1>5, <1>6, <1>7
<1> QED BY <1>8 DEF Holding

\* The job is a job still.
LEMMA JobGood ==
  ASSUME Good, job \in Jobs, NEW n, NEW new \in SUBSET Numbered, Moved(n, new), BusTypes',
         CountTypes', ClientTypes', job' \in Jobs, job'.id = job.id, count'.jobs = count.jobs,
         \A c, d \in new : c = d,
         \A c \in new : c.m \in JobMethods \ {"Claim"} /\ c.id = job.id,
         job'.started \/ job'.ending => job'.claimed,
         ~job'.pending /\ ~job'.ending => job'.started,
         ~job'.claimed => new = {},
         job.claimed => job'.claimed,
         n = 1 /\ Asks(inbox[1].call) /\ inbox[1].value = "ok" => job'.claimed,
         \A c \in calls : Asks(c) /\ c.id = job.id /\ (n = 1 => c # inbox[1].call) =>
           job'.pending /\ ~job'.claimed /\ ~job'.ending,
         dialog' = dialog
  PROVE  Good'
<1> USE DEF Good, Types
<1>1. job # NoJob /\ job' # NoJob /\ count.jobs \in Nat
  <2>1. 1..MaxJobs \subseteq Nat \ {0} /\ NoJob.id = 0
    BY RegistryAssumption DEF NoJob
  <2>2. job.id # 0 /\ job'.id # 0
    BY <2>1 DEF Jobs
  <2> QED BY <2>1, <2>2, CountFacts
<1>2. KnownInv'
  <2>1. job.id <= count.jobs /\ count.jobs <= count'.jobs
    BY <1>1 DEF KnownInv
  <2> QED BY <1>1, <2>1, KnownKept
<1>3. PhaseInv'
  <2>1. Made' \subseteq Made \cup new
    BY MovedMade
  <2> QED BY <1>1, <2>1 DEF PhaseInv
<1>4. ClaimsInv'
  <2>1. \A c \in new : ~Asks(c)
    BY DEF Asks
  <2>2. \A c \in calls : Asks(c) /\ OfJob(c) /\ Live(n, c) => job' # NoJob /\ job'.id = c.id
    BY <1>1 DEF OfJob
  <2>3. \A c \in calls' : c \notin new => c \in calls /\ (n = 1 => c # inbox[1].call)
    <3>1. calls' = (IF n = 1 THEN calls \ {inbox[1].call} ELSE calls) \cup new
      BY Zenon DEF Moved
    <3> QED BY <3>1
  <2>4. \A c \in calls' : Asks(c) /\ job' # NoJob /\ c.id = job'.id =>
           job'.pending /\ ~job'.claimed /\ ~job'.ending
    BY <2>1, <2>3
  <2> QED BY <2>1, <2>2, <2>4, ClaimsKept
<1>5. HeldInv'
  <2>1. CASE n = 1 /\ Asks(inbox[1].call) /\ inbox[1].value = "ok"
    BY <1>1, <2>1, GrantTaken
  <2>2. CASE ~(n = 1 /\ Asks(inbox[1].call) /\ inbox[1].value = "ok")
    <3>1. claimed # Nobody /\ Holding => job' # NoJob /\ job'.claimed /\ job'.id = job.id
      BY <1>1 DEF Holding
    <3> QED BY <2>2, <3>1, HeldKept
  <2> QED BY <2>1, <2>2
<1>6. BusyInv' /\ DialogInv'
  BY <1>1 DEF BusyInv, DialogInv
<1>7. JobTypes' /\ FprintdTypes'
  BY DEF JobTypes, FprintdTypes, Moved
<1> QED BY <1>2, <1>3, <1>4, <1>5, <1>6, <1>7

LEMMA ContinueGood ==
  ASSUME Good, job \in Jobs, inbox # <<>>, NEW j \in Jobs, NEW new \in SUBSET Numbered, Continue(j, new),
         j.id = job.id,
         \A c, d \in new : c = d,
         \A c \in new : c.m \in JobMethods \ {"Claim"} /\ c.id = job.id,
         j.started \/ j.ending => j.claimed,
         ~j.pending /\ ~j.ending => j.started,
         ~j.claimed => new = {},
         job.claimed => j.claimed,
         Asks(inbox[1].call) /\ inbox[1].value = "ok" => j.claimed,
         \A c \in calls : Asks(c) /\ c.id = job.id /\ c # inbox[1].call =>
           j.pending /\ ~j.claimed /\ ~j.ending
  PROVE  Good'
<1>1. /\ job' = j /\ Handle(new) /\ UNCHANGED <<device, busy, shown, dialog, closing, count>>
  BY DEF Continue, gui
<1>2. Moved(1, new) /\ BusTypes'
  BY <1>1, HandleFacts DEF Good, Types
<1>3. ClientTypes' /\ CountTypes' /\ count'.jobs = count.jobs /\ dialog' = dialog
  BY <1>1 DEF ClientTypes, CountTypes, Good, Types
<1> QED BY <1>1, <1>2, <1>3, JobGood

LEMMA CompleteGood ==
  ASSUME Good, job \in Jobs, inbox # <<>>, NEW j \in Jobs, j.user = job.user, Complete(j),
         \A c \in calls : Asks(c) /\ c # inbox[1].call => c.id # job.id,
         ~(Asks(inbox[1].call) /\ inbox[1].value = "ok"),
         ~Holding
  PROVE  Good'
<1> USE DEF Good, Types
<1> DEFINE known == IF j.success /\ j.mode # "verify" THEN "unknown" ELSE shown[j.user]
           again == RefreshCalls({j.user}, ~closing /\ known = "unknown" /\ device # 0)
<1>1. /\ job' = NoJob /\ busy' = (again # {}) /\ shown' = [shown EXCEPT ![j.user] = known]
      /\ count' = IF again = {} THEN count ELSE [count EXCEPT !.refreshes = @ + 1]
      /\ Handle(again) /\ UNCHANGED <<device, closing>> /\ dialog' \in {Ended, Finished}
  BY DEF Complete, Done
<1>2. j.user \in Users /\ known \in {"unknown", "yes", "no"}
  BY DEF Jobs, ClientTypes
<1>3. /\ again \in SUBSET Numbered /\ \A c \in again : c.m = "List"
      /\ \A c, d \in again : c = d
  <2>1. {j.user} \in SUBSET Users
    BY <1>2
  <2> QED BY <2>1, RefreshFacts
<1> HIDE DEF again, known
<1>4. Moved(1, again) /\ BusTypes'
  BY <1>1, <1>3, HandleFacts
<1>5. CountTypes' /\ count'.jobs = count.jobs /\ count.jobs \in Nat
  <2>1. CASE again = {}
    BY <1>1, <2>1, CountFacts DEF CountTypes
  <2>2. CASE again # {}
    BY <1>1, <2>2, CountFacts
  <2> QED BY <2>1, <2>2
<1>6. dialog' \in Dialogs /\ dialog' # Running
  BY <1>1 DEF Dialogs, Ended, Finished, Running
<1>7. ClientTypes'
  BY <1>1, <1>2, <1>6 DEF ClientTypes
<1>8. KnownInv'
  <2>1. count.jobs <= count'.jobs /\ \A c \in again : c.m \notin JobMethods
    BY <1>3, <1>5 DEF JobMethods
  <2> QED BY <1>1, <1>3, <1>4, <1>5, <2>1, KnownKept
<1>9. PhaseInv' /\ DialogInv' /\ JobTypes'
  BY <1>1, <1>6 DEF PhaseInv, DialogInv, JobTypes
<1>10. ClaimsInv'
  <2>1. \A c \in again : ~Asks(c)
    BY <1>3 DEF Asks
  <2>2. \A c \in calls : Asks(c) /\ OfJob(c) /\ Live(1, c) => job' # NoJob /\ job'.id = c.id
    BY LiveNotHead DEF OfJob, ClaimsInv, Asks
  <2> QED BY <1>1, <1>3, <1>4, <2>1, <2>2, ClaimsKept
<1>11. HeldInv'
  BY <1>3, <1>4, HeldKept
<1>12. BusyInv'
  BY <1>1, <1>3, <1>4, CallsNow DEF BusyInv, Clears
<1>13. FprintdTypes'
  BY <1>4 DEF FprintdTypes, Moved
<1> QED BY <1>4, <1>5, <1>7, <1>8, <1>9, <1>10, <1>11, <1>12, <1>13

LEMMA FinishGood ==
  ASSUME Good, job \in Jobs, inbox # <<>>, NEW j \in Jobs, NEW success \in BOOLEAN, Finish(j, success),
         j.id = job.id, j.user = job.user,
         j.started \/ j.ending => j.claimed,
         job.claimed => j.claimed,
         Asks(inbox[1].call) /\ inbox[1].value = "ok" => j.claimed,
         \A c \in calls : Asks(c) /\ c.id = job.id /\ c # inbox[1].call =>
           j.pending /\ ~j.claimed /\ ~j.ending
  PROVE  Good'
<1>1. CASE j.ending
  <2>1. Continue(j, {})
    BY <1>1 DEF Finish
  <2> QED BY <1>1, <2>1, ContinueGood
<1>2. CASE ~j.ending /\ j.pending
  <2> DEFINE t == IF success THEN "yes" ELSE "no"
             k == [j EXCEPT !.terminal = t]
  <2>1. Continue(k, {})
    BY <1>2 DEF Finish
  <2>2. /\ k \in Jobs /\ k.id = j.id /\ k.started = j.started /\ k.claimed = j.claimed
        /\ k.pending = j.pending /\ k.ending = j.ending
    BY DEF Jobs
  <2> HIDE DEF k, t
  <2>3. /\ k.id = job.id /\ (k.started \/ k.ending => k.claimed)
        /\ (job.claimed => k.claimed) /\ k.pending
        /\ (Asks(inbox[1].call) /\ inbox[1].value = "ok" => k.claimed)
        /\ \A c \in calls : Asks(c) /\ c.id = job.id /\ c # inbox[1].call =>
             k.pending /\ ~k.claimed /\ ~k.ending
    BY <1>2, <2>2
  <2>4. {} \in SUBSET Numbered
    OBVIOUS
  <2> QED BY <2>1, <2>2, <2>3, <2>4, ContinueGood
<1>3. CASE ~j.ending /\ ~j.pending
  <2> DEFINE e == [j EXCEPT !.ending = TRUE, !.success = success]
             call(m) == JobCall(m, j)
  <2>1. /\ e \in Jobs /\ e.id = j.id /\ e.user = j.user /\ e.started = j.started
        /\ e.claimed = j.claimed /\ e.pending = j.pending /\ e.ending
    BY DEF Jobs
  <2>2. IF j.started THEN Continue(e, {call("Stop")})
        ELSE IF j.claimed THEN Continue(e, {call("Release")}) ELSE Complete(e)
    BY <1>3 DEF Finish
  <2>3. ASSUME NEW m \in {"Stop", "Release"}
        PROVE  call(m) \in Numbered /\ call(m).m \in JobMethods \ {"Claim"} /\ call(m).id = job.id
    <3>1. j.id \in Nat /\ j.user \in Users /\ m \in JobMethods
      BY RegistryAssumption DEF Jobs, JobMethods
    <3> QED BY <3>1, CallFacts DEF JobCall
  <2> HIDE DEF e, call
  <2>4. ASSUME NEW m \in {"Stop", "Release"}, Continue(e, {call(m)}), j.claimed PROVE Good'
    <3> DEFINE new == {call(m)}
    <3>1. /\ new \in SUBSET Numbered /\ \A c, d \in new : c = d
          /\ \A c \in new : c.m \in JobMethods \ {"Claim"} /\ c.id = job.id
      BY <2>3
    <3>2. Continue(e, new)
      BY <2>4
    <3> HIDE DEF new
    <3> QED BY <1>3, <2>1, <2>4, <3>1, <3>2, ContinueGood
  <2>5. CASE j.started
    BY <2>2, <2>4, <2>5
  <2>6. CASE ~j.started /\ j.claimed
    BY <2>2, <2>4, <2>6
  <2>7. CASE ~j.started /\ ~j.claimed
    <3>1. Complete(e)
      BY <2>2, <2>7
    <3>2. ~Holding /\ ~(Asks(inbox[1].call) /\ inbox[1].value = "ok")
      BY <2>7 DEF Holding
    <3>3. \A c \in calls : Asks(c) /\ c # inbox[1].call => c.id # job.id
      BY <1>3
    <3> QED BY <2>1, <3>1, <3>2, <3>3, CompleteGood
  <2> QED BY <2>5, <2>6, <2>7
<1> QED BY <1>1, <1>2, <1>3

\* An answer that is nobody's any more.
LEMMA StaleGood ==
  ASSUME Good, inbox # <<>>, ~(Asks(inbox[1].call) /\ inbox[1].value = "ok"),
         ~Clears(inbox[1].call), Handle({}), UNCHANGED <<client, count>>
  PROVE  Good'
<1>1. Moved(1, {}) /\ BusTypes'
  BY HandleFacts DEF Good, Types
<1>2. UNCHANGED <<device, busy, job, shown, dialog, closing, count>>
  BY DEF client, gui
<1>3. ClientTypes' /\ CountTypes' /\ {} \in SUBSET Numbered
  BY <1>2 DEF ClientTypes, CountTypes, Good, Types
<1> QED BY <1>1, <1>2, <1>3, PlainGood

LEMMA JobFacts ==
  ASSUME Good, job # NoJob
  PROVE  /\ job \in Jobs
         /\ job.id \in Nat /\ job.user \in Users /\ job.mode \in Modes
         /\ \A b \in BOOLEAN : [job EXCEPT !.pending = b] \in Jobs
BY RegistryAssumption DEF Good, Types, JobTypes, Jobs

LEMMA ClaimedStep == ASSUME Good, Claimed PROVE Good'
<1>1. /\ inbox # <<>> /\ Msg = inbox[1] /\ 1 \in DOMAIN inbox /\ Msg.call.m = "Claim"
      /\ Returned({"Claim"})
  BY ReplyFacts DEF Good, Types, Claimed
<1>2. Asks(inbox[1].call) /\ ~Clears(inbox[1].call)
  BY <1>1 DEF Asks, Clears, Linking
<1>3. /\ Msg.call \in calls
      /\ Msg.value = "ok" => job # NoJob /\ Msg.call.id = job.id
  BY <1>1, <1>2 DEF Good, ClaimsInv, OnBus, InboxInv, OfJob, Asks
<1>4. CASE ~Mine /\ Stale
  BY <1>1, <1>2, <1>3, <1>4, StaleGood DEF Mine, Stale
<1>5. CASE Mine
  <2>1. job \in Jobs /\ job.user \in Users /\ job.id \in Nat /\ job.mode \in Modes /\ Msg.call.id = job.id
    BY <1>5, JobFacts DEF Mine
  <2>2. /\ job.pending /\ ~job.claimed /\ ~job.ending /\ ~job.started
        /\ \A c \in calls : Asks(c) /\ c.id = job.id => c = Msg.call
    BY <1>2, <1>3, <1>5, <1>1 DEF Good, ClaimsInv, ClaimInv, PhaseInv, Mine
  <2>3. CASE Msg.value = "error" /\ Finish([job EXCEPT !.pending = FALSE], FALSE)
    <3> DEFINE j == [job EXCEPT !.pending = FALSE]
    <3>1. /\ j \in Jobs /\ j.id = job.id /\ j.user = job.user /\ ~j.started /\ ~j.ending
          /\ Finish(j, FALSE)
      BY <2>1, <2>2, <2>3 DEF Jobs
    <3> HIDE DEF j
    <3> QED BY <1>1, <2>1, <2>2, <2>3, <3>1, FinishGood
  <2>4. CASE Finish([job EXCEPT !.pending = FALSE, !.claimed = TRUE], FALSE)
    <3> DEFINE j == [job EXCEPT !.pending = FALSE, !.claimed = TRUE]
    <3>1. /\ j \in Jobs /\ j.id = job.id /\ j.user = job.user /\ j.claimed
          /\ Finish(j, FALSE)
      BY <2>1, <2>4 DEF Jobs
    <3> HIDE DEF j
    <3> QED BY <1>1, <2>1, <2>2, <3>1, FinishGood
  <2>5. CASE Continue([job EXCEPT !.claimed = TRUE, !.mutation = job.mode = "delete"],
                      IF device = 0 THEN {} ELSE {JobCall(StartOf[job.mode], job)})
    <3> DEFINE b == job.mode = "delete"
               j == [job EXCEPT !.claimed = TRUE, !.mutation = b]
               c == JobCall(StartOf[job.mode], job)
               new == IF device = 0 THEN {} ELSE {c}
    <3>1. b \in BOOLEAN /\ Continue(j, new)
      BY <2>5
    <3> HIDE DEF b
    <3>2. j \in Jobs /\ j.id = job.id /\ j.claimed /\ j.pending /\ ~j.ending
      BY <2>1, <2>2, <3>1 DEF Jobs
    <3>3. StartOf[job.mode] \in JobMethods \ {"Claim"}
      BY <2>1 DEF StartOf, Modes, JobMethods
    <3>4. c \in Numbered /\ c.m \in JobMethods \ {"Claim"} /\ c.id = job.id
      BY <2>1, <3>3, CallFacts DEF JobCall
    <3> HIDE DEF j, c
    <3>5. /\ new \in SUBSET Numbered /\ \A d, e \in new : d = e
          /\ \A d \in new : d.m \in JobMethods \ {"Claim"} /\ d.id = job.id
      BY <3>4
    <3> HIDE DEF new
    <3> QED BY <1>1, <2>1, <2>2, <3>1, <3>2, <3>5, ContinueGood
  <2> QED BY <1>5, <2>3, <2>4, <2>5 DEF Claimed
<1> QED BY <1>4, <1>5 DEF Claimed

\* While a job has claimed the reader no Claim of it is under way.
LEMMA NoClaimLeft ==
  ASSUME Good, job # NoJob, job.claimed \/ ~job.pending \/ job.ending
  PROVE  \A c \in calls : Asks(c) => c.id # job.id
BY DEF Good, ClaimsInv, ClaimInv

LEMMA StartedStep == ASSUME Good, Started PROVE Good'
<1>1. /\ inbox # <<>> /\ Msg = inbox[1] /\ 1 \in DOMAIN inbox
      /\ Msg.call.m \in {"EnrollStart", "VerifyStart", "Delete"}
  BY ReplyFacts DEF Good, Types, Started
<1>2. ~Asks(inbox[1].call) /\ ~Clears(inbox[1].call) /\ Msg.call.m \in JobMethods \ {"Claim"}
  BY <1>1 DEF Asks, Clears, Linking, JobMethods
<1>3. CASE ~Mine /\ Stale
  BY <1>1, <1>2, <1>3, StaleGood DEF Stale
<1>4. CASE Mine
  <2>1. job \in Jobs /\ job # NoJob /\ Msg.call.id = job.id
    BY <1>4, JobFacts DEF Mine
  <2>2. Msg.call \in Made
    BY <1>1 DEF Made, Handled
  <2>3. job.claimed
    BY <1>2, <2>1, <2>2 DEF Good, PhaseInv
  <2>4. \A c \in calls : Asks(c) => c.id # job.id
    BY <2>1, <2>3, NoClaimLeft
  <2> DEFINE b == job.mode # "delete"
             failed == [job EXCEPT !.pending = FALSE]
             on == [failed EXCEPT !.started = b]
  <2>5. \/ Finish(failed, FALSE) \/ \E s \in BOOLEAN : Finish(on, s)
        \/ b /\ Continue(on, {})
    BY <1>4 DEF Started
  <2>6. b \in BOOLEAN
    OBVIOUS
  <2>7. /\ failed \in Jobs /\ failed.id = job.id /\ failed.user = job.user /\ failed.claimed
        /\ on \in Jobs /\ on.id = job.id /\ on.user = job.user /\ on.claimed
        /\ on.started = b
    <3> HIDE DEF b
    <3> QED BY <2>1, <2>3, <2>6 DEF Jobs
  <2> HIDE DEF failed, on, b
  <2>8. CASE Finish(failed, FALSE)
    BY <1>1, <1>2, <2>1, <2>4, <2>7, <2>8, FinishGood
  <2>9. CASE \E s \in BOOLEAN : Finish(on, s)
    BY <1>1, <1>2, <2>1, <2>4, <2>7, <2>9, FinishGood
  <2>10. CASE b /\ Continue(on, {})
    <3>1. {} \in SUBSET Numbered
      OBVIOUS
    <3> QED BY <1>1, <1>2, <2>1, <2>4, <2>7, <2>10, <3>1, ContinueGood
  <2> QED BY <2>5, <2>8, <2>9, <2>10
<1> QED BY <1>3, <1>4 DEF Started

LEMMA StoppedStep == ASSUME Good, Stopped PROVE Good'
<1> USE DEF Good, Types
<1> DEFINE c == [Msg.call EXCEPT !.m = "Release"]
<1>1. /\ inbox # <<>> /\ Msg = inbox[1] /\ 1 \in DOMAIN inbox /\ Msg.call \in Numbered
      /\ Msg.call.m = "Stop"
  BY ReplyFacts DEF Stopped
<1>2. Handle({c}) /\ UNCHANGED <<device, busy, job, shown, dialog, closing, count>>
  BY DEF Stopped, client, gui
<1>3. c \in Numbered /\ c.m = "Release" /\ c.id = Msg.call.id
  BY <1>1 DEF Numbered, Calls, Linking, Asking, Methods
<1> HIDE DEF c
<1>4. Moved(1, {c}) /\ BusTypes'
  BY <1>1, <1>2, <1>3, HandleFacts
<1>5. ClientTypes' /\ CountTypes' /\ JobTypes'
  BY <1>2 DEF ClientTypes, CountTypes, JobTypes
<1>6. Msg.call \in Made /\ Msg.call.m \in JobMethods \ {"Claim"}
  BY <1>1 DEF Made, Handled, JobMethods
<1> DEFINE new == {c}
<1>7. new \in SUBSET Numbered /\ Moved(1, new) /\ \A d, e \in new : d = e
  BY <1>3, <1>4
<1>8. \A d \in new : ~Asks(d) /\ d.m = "Release" /\ d.id = Msg.call.id
  BY <1>3 DEF Asks
<1>9. c \in new /\ c.m = "Release"
  BY <1>3
<1> HIDE DEF new
<1>10. KnownInv'
  <2>1. Msg.call.id <= count.jobs
    BY <1>6 DEF KnownInv
  <2>2. count.jobs <= count'.jobs /\ count'.jobs = count.jobs
    BY <1>2, CountFacts
  <2> QED BY <1>2, <1>5, <1>7, <1>8, <2>1, <2>2, KnownKept DEF KnownInv
<1>11. PhaseInv'
  <2>1. Made' \subseteq Made \cup new
    BY <1>7, MovedMade
  <2>2. job # NoJob /\ ~job.claimed => Msg.call.id # job.id
    BY <1>6 DEF PhaseInv
  <2> QED BY <1>2, <1>8, <2>1, <2>2 DEF PhaseInv
<1>12. ClaimsInv'
  <2>1. \A d \in calls' : Asks(d) => d \in calls
    BY <1>7, <1>8, CallsNow
  <2>2. \A d \in calls' : Asks(d) /\ job' # NoJob /\ d.id = job'.id =>
          job'.pending /\ ~job'.claimed /\ ~job'.ending
    BY <1>2, <2>1 DEF ClaimsInv, ClaimInv
  <2>3. \A d \in calls : Asks(d) /\ OfJob(d) /\ Live(1, d) => job' # NoJob /\ job'.id = d.id
    BY <1>2 DEF OfJob
  <2> QED BY <1>4, <1>7, <1>8, <2>2, <2>3, ClaimsKept
<1>13. HeldInv'
  <2>1. ~Asks(inbox[1].call)
    BY <1>1 DEF Asks
  <2> QED BY <1>7, <1>9, <2>1, HeldKept
<1>14. BusyInv' /\ DialogInv'
  <2>1. ~Clears(inbox[1].call)
    BY <1>1 DEF Clears, Linking
  <2> QED BY <1>2, <1>7, <2>1, CallsNow DEF BusyInv, DialogInv, Clears
<1>15. FprintdTypes'
  BY <1>4 DEF FprintdTypes, Moved
<1> QED BY <1>4, <1>5, <1>10, <1>11, <1>12, <1>13, <1>14, <1>15

LEMMA ReleasedStep == ASSUME Good, Released PROVE Good'
<1>1. /\ inbox # <<>> /\ Msg = inbox[1] /\ 1 \in DOMAIN inbox /\ Msg.call.m = "Release"
  BY ReplyFacts DEF Good, Types, Released
<1>2. ~Asks(inbox[1].call) /\ ~Clears(inbox[1].call) /\ Msg.call.m \in JobMethods \ {"Claim"}
  BY <1>1 DEF Asks, Clears, Linking, JobMethods
<1>3. CASE ~Mine
  BY <1>1, <1>2, <1>3, StaleGood DEF Stale, Released
<1>4. CASE Mine
  <2>1. job \in Jobs /\ job # NoJob /\ Msg.call.id = job.id
    BY <1>4, JobFacts DEF Mine
  <2>2. Msg.call \in Handled /\ Msg.call \in Made
    BY <1>1 DEF Made, Handled
  <2>3. job.claimed
    BY <1>2, <2>1, <2>2 DEF Good, PhaseInv
  <2>4. ~Holding
    BY <1>1, <2>1, <2>2 DEF Holding
  <2>5. Complete(job)
    BY <1>4 DEF Released
  <2> QED BY <1>1, <1>2, <2>1, <2>3, <2>4, <2>5, NoClaimLeft, CompleteGood
<1> QED BY <1>3, <1>4

\* What is not an answer is about no call.
LEMMA NewsFacts ==
  ASSUME Types, NEW kind \in {"status", "owner"}, Arrived(kind)
  PROVE  /\ inbox # <<>> /\ Msg = inbox[1] /\ 1 \in DOMAIN inbox
         /\ inbox[1].kind = kind /\ inbox[1].call = NoCall /\ dialog # Ended
         /\ ~Asks(inbox[1].call) /\ ~Clears(inbox[1].call)
<1>1. inbox # <<>> /\ inbox \in Seq(Messages) /\ Msg.kind = kind /\ dialog # Ended
  BY DEF Arrived, BusTypes, Types
<1>2. Msg \in Messages /\ Msg = inbox[1] /\ 1 \in DOMAIN inbox
  BY <1>1, TailFacts DEF Msg
<1>3. Msg.call = NoCall
  BY <1>1, <1>2 DEF Messages, Replies
<1>4. ~Asks(NoCall) /\ ~Clears(NoCall)
  BY DEF Asks, Clears, NoCall, Call, Linking
<1> QED BY <1>1, <1>2, <1>3, <1>4

LEMMA StatusStep == ASSUME Good, Status PROVE Good'
<1>1. /\ inbox # <<>> /\ Msg = inbox[1] /\ 1 \in DOMAIN inbox
      /\ ~Asks(inbox[1].call) /\ ~Clears(inbox[1].call)
  BY NewsFacts DEF Status, Good
<1>2. CASE Stale
  BY <1>1, <1>2, StaleGood DEF Stale
<1>3. CASE job # NoJob /\ ~job.ending /\ Finish(job, Msg.value = "ok")
  <2>1. job \in Jobs /\ (Msg.value = "ok") \in BOOLEAN
    BY <1>3, JobFacts
  <2>2. /\ job.started \/ job.ending => job.claimed
        /\ \A c \in calls : Asks(c) /\ c.id = job.id => job.pending /\ ~job.claimed /\ ~job.ending
    BY <1>3 DEF Good, PhaseInv, ClaimsInv, ClaimInv
  <2> QED BY <1>1, <1>3, <2>1, <2>2, FinishGood
<1> QED BY <1>2, <1>3 DEF Status

LEMMA OwnerChangedStep == ASSUME Good, OwnerChanged PROVE Good'
<1> USE DEF Good, Types
<1>1. /\ inbox # <<>> /\ Msg = inbox[1] /\ 1 \in DOMAIN inbox /\ inbox[1].kind = "owner"
      /\ ~Asks(inbox[1].call) /\ ~Clears(inbox[1].call)
  BY NewsFacts DEF OwnerChanged
<1>2. Handle({}) /\ UNCHANGED count
  BY DEF OwnerChanged
<1>3. CASE device = 0
  BY <1>1, <1>2, <1>3, StaleGood DEF OwnerChanged
<1>4. CASE device # 0
  <2>1. /\ device' = 0 /\ busy' = FALSE /\ job' = NoJob
        /\ shown' = [u \in Users |-> "unknown"] /\ closing' = closing
        /\ IF job = NoJob THEN dialog' = dialog ELSE dialog' \in {Ended, Finished}
    BY <1>4 DEF OwnerChanged, gui, Done
  <2>2. Moved(1, {}) /\ BusTypes'
    BY <1>1, <1>2, HandleFacts
  <2>3. dialog' \in Dialogs /\ dialog' # Running
    BY <2>1 DEF DialogInv, ClientTypes, Dialogs, Ended, Finished, Running
  <2>4. ClientTypes' /\ CountTypes' /\ JobTypes'
    <3>1. 0 \in 0..MaxConnects
      BY RegistryAssumption
    <3> QED BY <1>2, <2>1, <2>3, <3>1 DEF ClientTypes, CountTypes, JobTypes
  <2>5. {} \in SUBSET Numbered
    OBVIOUS
  <2>6. KnownInv'
    <3>1. count.jobs <= count'.jobs
      BY <1>2, CountFacts
    <3> QED BY <2>1, <2>2, <2>4, <2>5, <3>1, KnownKept
  <2>7. /\ claimed = Nobody /\ asked = {} /\ \A k \in DOMAIN sent : sent[k].m \in Linking
        /\ \A k \in DOMAIN inbox : k > 1 /\ Asks(inbox[k].call) => inbox[k].value = "error"
    BY <1>1 DEF ClaimsInv, OwnerInv, OnBus, LostInv, Asks
  <2>8. ClaimsInv'
    <3>1. \A c : Asks(c) => ~Live(1, c)
      BY <2>7 DEF Live, Asks, Linking
    <3> QED BY <2>1, <2>2, <2>5, <3>1, ClaimsKept
  <2>9. HeldInv'
    BY <2>2, <2>7 DEF HeldInv, Moved
  <2>10. PhaseInv' /\ BusyInv' /\ DialogInv'
    BY <2>1, <2>3 DEF PhaseInv, BusyInv, DialogInv
  <2>11. FprintdTypes'
    BY <2>2 DEF FprintdTypes, Moved
  <2> QED BY <2>2, <2>4, <2>6, <2>8, <2>9, <2>10, <2>11
<1> QED BY <1>3, <1>4

LEMMA CancelStep == ASSUME Good, Cancel, closing' \in BOOLEAN PROVE Good'
<1>1. /\ job \in Jobs /\ job # NoJob /\ ~job.ending
      /\ job.id \in Nat /\ job.user \in Users
  BY JobFacts DEF Cancel
<1>2. UNCHANGED <<device, busy, shown, dialog, count>>
  BY DEF Cancel
<1>3. ClientTypes' /\ CountTypes'
  BY <1>2 DEF ClientTypes, CountTypes, Good, Types
<1> DEFINE j == [job EXCEPT !.cancel = TRUE]
<1>4. CASE job.pending
  <2>1. job' = [j EXCEPT !.terminal = "no"] /\ Make({})
    BY <1>4 DEF Cancel
  <2>2. /\ job' \in Jobs /\ job'.id = job.id /\ job'.started = job.started
        /\ job'.claimed = job.claimed /\ job'.pending = job.pending /\ job'.ending = job.ending
    BY <1>1, <2>1 DEF Jobs
  <2>3. Moved(0, {}) /\ BusTypes'
    BY <2>1, MakeFacts DEF Good, Types
  <2>4. /\ job.started \/ job.ending => job.claimed
        /\ \A c \in calls : Asks(c) /\ c.id = job.id => job.pending /\ ~job.claimed /\ ~job.ending
    BY <1>1 DEF Good, PhaseInv, ClaimsInv, ClaimInv
  <2>5. {} \in SUBSET Numbered
    OBVIOUS
  <2> QED BY <1>1, <1>2, <1>3, <1>4, <2>2, <2>3, <2>4, <2>5, JobGood
<1>5. CASE ~job.pending
  <2> DEFINE c == JobCall("Stop", job)
             new == {c}
  <2>1. job' = [j EXCEPT !.ending = TRUE] /\ Make(new)
    BY <1>5 DEF Cancel
  <2>2. /\ job' \in Jobs /\ job'.id = job.id /\ job'.started = job.started
        /\ job'.claimed = job.claimed /\ job'.pending = job.pending /\ job'.ending
    BY <1>1, <2>1 DEF Jobs
  <2>3. c \in Numbered /\ c.m \in JobMethods \ {"Claim"} /\ c.id = job.id
    BY <1>1, CallFacts DEF JobCall, JobMethods
  <2> HIDE DEF c
  <2>4. /\ new \in SUBSET Numbered /\ \A d, e \in new : d = e
        /\ \A d \in new : d.m \in JobMethods \ {"Claim"} /\ d.id = job.id
    BY <2>3
  <2> HIDE DEF new
  <2>5. Moved(0, new) /\ BusTypes'
    BY <2>1, <2>4, MakeFacts DEF Good, Types
  <2>6. job.started /\ job.claimed
    BY <1>1, <1>5 DEF Good, PhaseInv
  <2>7. \A d \in calls : Asks(d) => d.id # job.id
    BY <1>1, <2>6, NoClaimLeft
  <2> QED BY <1>1, <1>2, <1>3, <2>2, <2>4, <2>5, <2>6, <2>7, JobGood
<1> QED BY <1>4, <1>5

\* The window is to be closed, and its job is on its way to the end.
WaitToClose ==
  Make({}) /\ closing' = TRUE /\ UNCHANGED <<device, busy, job, shown, dialog, count>>
LEMMA CloseWaits == ASSUME Types, WaitToClose PROVE Plainly
<1>1. Moved(0, {}) /\ BusTypes'
  BY MakeFacts DEF Types, WaitToClose
<1>2. ClientTypes' /\ CountTypes'
  BY DEF ClientTypes, CountTypes, Types, WaitToClose
<1> QED BY <1>1, <1>2, PlainQuiet DEF WaitToClose

LEMMA CloseStep == ASSUME Good, PressAvbryt \/ Close PROVE Good'
<1>1. CASE Cancel /\ closing' \in BOOLEAN
  BY <1>1, CancelStep
<1>2. CASE WaitToClose
  BY <1>2, CloseWaits, PlainStep DEF Good
<1> QED BY <1>1, <1>2 DEF PressAvbryt, Close, WaitToClose, Good, Types, ClientTypes

LEMMA StartStep == ASSUME Good, NEW mode \in Modes, NEW u \in Users, Start(mode, u) PROVE Good'
<1> USE DEF Good, Types
<1> DEFINE k == count.jobs + 1
           j == [id |-> k, mode |-> mode, user |-> u,
                 claimed |-> FALSE, started |-> FALSE, pending |-> TRUE,
                 cancel |-> FALSE, ending |-> FALSE, mutation |-> FALSE,
                 terminal |-> "none", success |-> FALSE]
           c == Call("Claim", k, u, {})
           new == {c}
<1>1. count.jobs \in Nat
  BY CountFacts
<1>2. /\ dialog = Ready(mode, u) /\ dialog' = Running /\ busy' = TRUE /\ job' = j
      /\ UNCHANGED <<device, shown, closing>>
  BY DEF Start
<1>3. count.jobs < MaxJobs /\ count' = [count EXCEPT !.jobs = @ + 1] /\ Make({JobCall("Claim", job')})
  BY DEF Start
<1>4. JobCall("Claim", job') = c /\ Make(new)
  BY <1>2, <1>3 DEF JobCall
<1>5. k \in 1..MaxJobs /\ k \in Nat /\ CountTypes' /\ count'.jobs = k /\ count.jobs < k
  BY <1>1, <1>3, CountFacts
<1> HIDE DEF k
<1>6. /\ job' \in Jobs /\ job'.id = k /\ job'.pending /\ ~job'.claimed
      /\ ~job'.started /\ ~job'.ending
  BY <1>2, <1>5 DEF Jobs
<1>7. job' # NoJob
  BY <1>2, <1>5, <1>6 DEF NoJob
<1> HIDE DEF j
<1>8. c \in Numbered /\ c.m = "Claim" /\ c.id = k
  BY <1>5, CallFacts DEF JobMethods
<1> HIDE DEF c
<1>9. new \in SUBSET Numbered /\ (\A d, e \in new : d = e) /\ \A d : d \in new <=> d = c
  BY <1>8
<1> HIDE DEF new
<1>10. Moved(0, new) /\ BusTypes'
  BY <1>4, <1>9, MakeFacts
<1>11. job = NoJob
  BY <1>2 DEF DialogInv, Ready, Running
<1>12. ClientTypes' /\ JobTypes' /\ FprintdTypes'
  BY <1>2, <1>6, <1>10 DEF ClientTypes, JobTypes, FprintdTypes, Moved, Dialogs
<1>13. KnownInv'
  <2>1. \A d \in new : d.m \in JobMethods => d.id <= count'.jobs
    BY <1>5, <1>8, <1>9
  <2>2. job'.id <= count'.jobs /\ count.jobs <= count'.jobs
    BY <1>1, <1>5, <1>6
  <2> QED BY <1>5, <1>9, <1>10, <2>1, <2>2, KnownKept
\* The number of the job is new.
<1>14. \A d \in Made : d.m \in JobMethods => d.id # k
  BY <1>1, <1>5 DEF KnownInv
<1>15. PhaseInv'
  <2>1. Made' \subseteq Made \cup new
    BY <1>10, MovedMade
  <2> QED BY <1>6, <1>8, <1>9, <1>14, <2>1 DEF PhaseInv
\* No other Claim is under way.
<1>16. /\ \A i \in DOMAIN sent : ~Asks(sent[i])
       /\ \A d \in asked : ~Asks(d)
       /\ \A i \in DOMAIN inbox : Asks(inbox[i].call) => inbox[i].value # "ok"
  BY <1>11 DEF ClaimsInv, OnBus, SentInv, AskedInv, InboxInv, OfJob, Asks
<1>17. calls' = calls \cup {c} /\ \A d \in calls : Asks(d) => d.id # k
  <2>1. calls' = calls \cup new
    BY <1>10 DEF Moved
  <2> QED BY <1>9, <1>14, <2>1 DEF Made, Asks, JobMethods
<1>18. ClaimInv'
  BY <1>6, <1>8, <1>17 DEF ClaimsInv, ClaimInv, Asks
<1>19. OnBus("Claim")'
  <2>1. \A d : Asks(d) => ~Live(0, d)
    BY <1>16 DEF Live
  <2>2. c \notin Made /\ "Claim" \notin Linking
    BY <1>8, <1>14 DEF JobMethods, Linking
  <2>3. OnBus("Claim")
    BY DEF ClaimsInv
  <2> HIDE DEF Good, Types
  <2> QED BY <1>6, <1>7, <1>8, <1>9, <1>10, <2>1, <2>2, <2>3, OnBusMade DEF Asks, Good, Types
<1>20. OwnerInv'
  BY <1>10, OwnerKept DEF ClaimsInv
<1>21. HeldInv'
  BY <1>9, <1>10, <1>11, HeldKept DEF Holding
<1>22. BusyInv' /\ DialogInv'
  BY <1>2, <1>7 DEF BusyInv, DialogInv
<1> QED BY <1>5, <1>10, <1>12, <1>13, <1>15, <1>18, <1>19, <1>20, <1>21, <1>22 DEF ClaimsInv

-----------------------------------------------------------------------------
(* Steps of fprintd and the bus                                            *)

LEMMA AnswerFacts ==
  ASSUME BusTypes, NEW c \in Numbered, NEW v, ReplyTo(c, v) \in Messages, Answer(c, v)
  PROVE  /\ inbox' \in Seq(Messages)
         /\ \A i \in DOMAIN inbox : i \in DOMAIN inbox' /\ inbox'[i] = inbox[i]
         /\ \A i \in DOMAIN inbox' :
              \/ i \in DOMAIN inbox /\ inbox'[i] = inbox[i]
              \/ /\ i \notin DOMAIN inbox /\ inbox'[i] = ReplyTo(c, v)
                 /\ c \in calls /\ NotAnswered(c)
         /\ \A i, k \in DOMAIN inbox' : i \notin DOMAIN inbox /\ k \notin DOMAIN inbox => i = k
         /\ c \in calls /\ NotAnswered(c) => \E i \in DOMAIN inbox' : inbox'[i] = ReplyTo(c, v)
<1>1. inbox \in Seq(Messages)
  BY DEF BusTypes
<1>2. NotAnswered(c) <=> \A i \in DOMAIN inbox : inbox[i].kind = "reply" => inbox[i].call # c
  <2>1. \A i \in DOMAIN inbox : inbox[i] \in Messages
    BY <1>1
  <2>2. \A i \in DOMAIN inbox : inbox[i].kind = "reply" \/ inbox[i].call = NoCall
    BY <2>1 DEF Messages, Replies
  <2>3. c # NoCall
    BY DEF Numbered, Calls, NoCall, Call, Methods, Linking, Asking
  <2> QED BY <2>2, <2>3 DEF NotAnswered
<1>3. CASE Waits(c)
  <2> DEFINE r == ReplyTo(c, v)
  <2>1. r \in Messages /\ inbox' = Append(inbox, r) /\ c \in calls /\ NotAnswered(c)
    BY <1>2, <1>3 DEF Answer, Waits
  <2> HIDE DEF r
  <2>2. /\ inbox' \in Seq(Messages) /\ DOMAIN inbox = 1..Len(inbox) /\ Len(inbox) \in Nat
        /\ DOMAIN inbox' = 1..(Len(inbox) + 1)
        /\ \A i \in DOMAIN inbox : i \in DOMAIN inbox' /\ inbox'[i] = inbox[i]
        /\ \A i \in DOMAIN inbox' :
             (i \in DOMAIN inbox /\ inbox'[i] = inbox[i]) \/ (i = Len(inbox) + 1 /\ inbox'[i] = r)
    BY <1>1, <2>1, AppendFacts
  <2>3. Len(inbox) + 1 \notin DOMAIN inbox /\ Len(inbox) + 1 \in DOMAIN inbox'
    BY <2>2
  <2> QED BY <2>1, <2>2, <2>3 DEF r
<1>4. CASE ~Waits(c)
  BY <1>1, <1>2, <1>4 DEF Answer, Waits
<1> QED BY <1>3, <1>4

\* What that does to the calls of m: the one that is answered is alone.
Alone(m) == \A c, d \in calls : c.m = m /\ d.m = m /\ OfJob(c) /\ OfJob(d) => c = d

LEMMA OnBusAnswered ==
  ASSUME BusTypes, NEW m, OnBus(m), Alone(m), OwnerInv,
         NEW c \in Numbered, NEW v, ReplyTo(c, v) \in Messages, Answer(c, v),
         job' = job, calls' = calls,
         NEW s \in {0, 1}, sent' \in Seq(Numbered),
         \A i \in DOMAIN sent' : i + s \in DOMAIN sent /\ sent'[i] = sent[i + s],
         asked' \subseteq asked, c.m = m => c \in asked /\ c \notin asked'
  PROVE  OnBus(m)'
<1>1. /\ inbox' \in Seq(Messages)
      /\ \A i \in DOMAIN inbox : i \in DOMAIN inbox' /\ inbox'[i] = inbox[i]
      /\ \A i \in DOMAIN inbox' :
           \/ i \in DOMAIN inbox /\ inbox'[i] = inbox[i]
           \/ /\ i \notin DOMAIN inbox /\ inbox'[i] = ReplyTo(c, v)
              /\ c \in calls /\ NotAnswered(c)
      /\ \A i, k \in DOMAIN inbox' : i \notin DOMAIN inbox /\ k \notin DOMAIN inbox => i = k
  BY AnswerFacts
<1>2. \A r : r = ReplyTo(c, v) => r.call = c /\ r.value = v /\ r.kind = "reply"
  BY DEF ReplyTo
<1>3. c.m = m => /\ OfJob(c) /\ NotAnswered(c)
                 /\ \A k \in DOMAIN sent : sent[k].m # m
                 /\ \A d \in asked' : d.m # m
  <2> SUFFICES ASSUME c.m = m
               PROVE  /\ OfJob(c) /\ NotAnswered(c)
                      /\ \A k \in DOMAIN sent : sent[k].m # m
                      /\ \A d \in asked' : d.m # m
    OBVIOUS
  <2>1. OfJob(c) /\ NotAnswered(c) /\ \A k \in DOMAIN sent : sent[k].m # m
    BY DEF OnBus, AskedInv
  <2>2. ASSUME NEW d \in asked', d.m = m PROVE FALSE
    <3>1. OfJob(d)
      BY <2>2 DEF OnBus, AskedInv
    <3>2. d = c
      BY <2>1, <2>2, <3>1 DEF Alone, OfJob
    <3> QED BY <2>2, <3>2
  <2> QED BY <2>1, <2>2
<1>4. ASSUME NEW d, NotAnswered(d), d # c PROVE \A i \in DOMAIN inbox' : inbox'[i].call # d
  BY <1>1, <1>2, <1>4 DEF NotAnswered
<1>5. SentInv(m)'
  <2> SUFFICES ASSUME NEW i \in DOMAIN sent', sent'[i].m = m
               PROVE  /\ OfJob(sent'[i])
                      /\ \A n \in DOMAIN inbox' : inbox'[n].call # sent'[i]
                      /\ \A n \in DOMAIN sent' : sent'[n].m = m => n = i
    BY DEF SentInv, OfJob, NotAnswered
  <2>1. i + s \in DOMAIN sent /\ sent'[i] = sent[i + s]
    OBVIOUS
  <2>2. /\ OfJob(sent[i + s]) /\ NotAnswered(sent[i + s])
        /\ \A k \in DOMAIN sent : sent[k].m = m => k = i + s
    BY <2>1 DEF OnBus, SentInv
  <2>3. sent[i + s] # c
    BY <1>3, <2>1
  <2>4. \A n \in DOMAIN inbox' : inbox'[n].call # sent[i + s]
    BY <1>4, <2>2, <2>3
  <2>5. \A n \in DOMAIN sent' : sent'[n].m = m => n + s = i + s /\ n \in Int
    BY <2>2
  <2>6. i \in Int
    OBVIOUS
  <2> QED BY <2>1, <2>2, <2>4, <2>5, <2>6
<1>6. AskedInv(m)'
  <2> SUFFICES ASSUME NEW d \in asked', d.m = m
               PROVE  /\ OfJob(d) /\ \A n \in DOMAIN inbox' : inbox'[n].call # d
                      /\ \A n \in DOMAIN sent' : sent'[n].m # m
    BY DEF AskedInv, OfJob, NotAnswered
  <2>1. OfJob(d) /\ NotAnswered(d) /\ \A k \in DOMAIN sent : sent[k].m # m
    BY DEF OnBus, AskedInv
  <2>2. \A n \in DOMAIN inbox' : inbox'[n].call # d
    BY <1>3, <1>4, <2>1
  <2> QED BY <2>1, <2>2
<1>7. InboxInv(m)'
  <2> SUFFICES ASSUME NEW i \in DOMAIN inbox', inbox'[i].call.m = m
               PROVE  /\ inbox'[i].call \in calls
                      /\ \A n \in DOMAIN inbox' : inbox'[n].call = inbox'[i].call => n = i
                      /\ inbox'[i].value = "ok" => OfJob(inbox'[i].call)
    BY DEF InboxInv, OfJob
  <2>1. CASE i \in DOMAIN inbox /\ inbox'[i] = inbox[i]
    <3>1. /\ inbox[i].call \in calls
          /\ \A n \in DOMAIN inbox : inbox[n].call = inbox[i].call => n = i
          /\ inbox[i].value = "ok" => OfJob(inbox[i].call)
      BY <2>1 DEF OnBus, InboxInv
    <3>2. \A n \in DOMAIN inbox' : n \notin DOMAIN inbox => inbox'[n].call = c /\ inbox[i].call # c
      BY <1>1, <1>2, <2>1 DEF NotAnswered
    <3> QED BY <1>1, <2>1, <3>1, <3>2
  <2>2. CASE i \notin DOMAIN inbox
    <3>1. inbox'[i].call = c /\ c \in calls /\ NotAnswered(c) /\ c.m = m
      BY <1>1, <1>2, <2>2
    <3>2. \A n \in DOMAIN inbox' : inbox'[n].call = c => n \notin DOMAIN inbox
      BY <1>1, <3>1 DEF NotAnswered
    <3> QED BY <1>1, <1>3, <2>2, <3>1, <3>2
  <2> QED BY <1>1, <2>1, <2>2
<1>8. LostInv(m)'
  <2> SUFFICES ASSUME NEW i \in DOMAIN inbox', inbox'[i].kind = "owner",
                      NEW n \in DOMAIN inbox', n > i, inbox'[n].call.m = m
               PROVE  inbox'[n].value = "error"
    BY DEF LostInv
  <2>1. i \in DOMAIN inbox /\ inbox[i].kind = "owner"
    BY <1>1, <1>2
  <2>2. c.m # m
    BY <2>1 DEF OwnerInv
  <2>3. n \in DOMAIN inbox /\ inbox'[n] = inbox[n]
    BY <1>1, <1>2, <2>2
  <2> QED BY <2>1, <2>3 DEF OnBus, LostInv
<1> QED BY <1>5, <1>6, <1>7, <1>8 DEF OnBus

\* fprintd puts a call to the user.
LEMMA OnBusAsked ==
  ASSUME BusTypes, NEW m, OnBus(m), sent # <<>>, NEW c, c = Head(sent),
         asked' = asked \cup {c}, sent' = Tail(sent), UNCHANGED <<job, calls, inbox>>
  PROVE  OnBus(m)'
<1>1. /\ sent' \in Seq(Numbered) /\ c = sent[1] /\ 1 \in DOMAIN sent
      /\ \A i \in DOMAIN sent' : i + 1 \in DOMAIN sent /\ sent'[i] = sent[i + 1]
      /\ \A i \in DOMAIN sent : i \in Nat /\ i >= 1
  BY TailFacts DEF BusTypes
<1>2. \A i \in DOMAIN sent' : i \in Nat /\ i >= 1
  BY <1>1
<1>3. SentInv(m)'
  <2> SUFFICES ASSUME NEW i \in DOMAIN sent', sent'[i].m = m
               PROVE  /\ OfJob(sent'[i]) /\ NotAnswered(sent'[i])
                      /\ \A n \in DOMAIN sent' : sent'[n].m = m => n = i
    BY DEF SentInv, OfJob, NotAnswered
  <2>1. i + 1 \in DOMAIN sent /\ sent'[i] = sent[i + 1]
    BY <1>1
  <2>2. /\ OfJob(sent[i + 1]) /\ NotAnswered(sent[i + 1])
        /\ \A k \in DOMAIN sent : sent[k].m = m => k = i + 1
    BY <2>1 DEF OnBus, SentInv
  <2>3. \A n \in DOMAIN sent' : sent'[n].m = m => n + 1 = i + 1
    BY <1>1, <2>2
  <2> QED BY <1>2, <2>1, <2>2, <2>3
<1>4. AskedInv(m)'
  <2> SUFFICES ASSUME NEW d \in asked \cup {c}, d.m = m
               PROVE  /\ OfJob(d) /\ NotAnswered(d)
                      /\ \A n \in DOMAIN sent' : sent'[n].m # m
    BY DEF AskedInv, OfJob, NotAnswered
  <2>1. CASE d \in asked
    BY <1>1, <2>1 DEF OnBus, AskedInv
  <2>2. CASE d = c
    <3>1. /\ OfJob(c) /\ NotAnswered(c) /\ \A k \in DOMAIN sent : sent[k].m = m => k = 1
      BY <1>1, <2>2 DEF OnBus, SentInv
    <3>2. \A n \in DOMAIN sent' : n + 1 # 1
      BY <1>2
    <3> QED BY <1>1, <2>2, <3>1, <3>2
  <2> QED BY <2>1, <2>2
<1>5. InboxInv(m)' /\ LostInv(m)'
  BY DEF OnBus, InboxInv, LostInv, OfJob
<1> QED BY <1>3, <1>4, <1>5 DEF OnBus

\* fprintd, or the bus, answers the call c, which it has taken from its queue
\* or from those that wait for an authorization.
LEMMA AnswerGood ==
  ASSUME Good, NEW c \in Numbered, NEW v, ReplyTo(c, v) \in Messages, Answer(c, v),
         UNCHANGED <<client, calls, count>>, FprintdTypes',
         NEW s \in {0, 1}, sent' \in Seq(Numbered),
         \A i \in DOMAIN sent' : i + s \in DOMAIN sent /\ sent'[i] = sent[i + s],
         asked' \subseteq asked, Asks(c) => c \in asked /\ c \notin asked',
         c.m \in JobMethods => c \in Made,
         \/ claimed' = Nobody
         \/ claimed' = claimed /\ (Releasing => Releasing')
         \/ Asks(c) /\ v = "ok",
         Gone(inbox) => claimed' = Nobody /\ action' = "none"
  PROVE  Good'
<1> USE DEF Good, Types
<1>1. /\ inbox' \in Seq(Messages)
      /\ \A i \in DOMAIN inbox : i \in DOMAIN inbox' /\ inbox'[i] = inbox[i]
      /\ \A i \in DOMAIN inbox' :
           \/ i \in DOMAIN inbox /\ inbox'[i] = inbox[i]
           \/ /\ i \notin DOMAIN inbox /\ inbox'[i] = ReplyTo(c, v)
              /\ c \in calls /\ NotAnswered(c)
      /\ \A i, k \in DOMAIN inbox' : i \notin DOMAIN inbox /\ k \notin DOMAIN inbox => i = k
      /\ c \in calls /\ NotAnswered(c) => \E i \in DOMAIN inbox' : inbox'[i] = ReplyTo(c, v)
  BY AnswerFacts
<1>2. UNCHANGED <<device, busy, job, shown, dialog, closing, calls, count>>
  BY DEF client, gui
<1>3. BusTypes' /\ CountTypes' /\ JobTypes' /\ ClientTypes'
  BY <1>1, <1>2 DEF BusTypes, CountTypes, JobTypes, ClientTypes
<1>4. \A r : r = ReplyTo(c, v) => r.call = c /\ r.value = v /\ r.kind = "reply"
  BY DEF ReplyTo
<1>5. Handled' \subseteq Handled \cup calls /\ Made' \subseteq Made
  <2>1. \A i \in DOMAIN inbox' : inbox'[i].call \in Handled \cup calls
    BY <1>1, <1>4 DEF Handled
  <2>2. Handled' \subseteq Handled \cup calls
    BY <2>1 DEF Handled
  <2>3. \A i \in DOMAIN sent' : sent'[i] \in {sent[k] : k \in DOMAIN sent}
    OBVIOUS
  <2> QED BY <1>2, <2>2, <2>3 DEF Made
<1>6. KnownInv' /\ PhaseInv'
  BY <1>2, <1>5 DEF KnownInv, PhaseInv
<1>7. Asks(c) => c \in calls /\ NotAnswered(c)
  BY DEF ClaimsInv, OnBus, AskedInv, OfJob, Asks
<1>8. ClaimInv'
  BY <1>2 DEF ClaimsInv, ClaimInv
<1>9. OnBus("Claim")'
  <2>1. Alone("Claim")
    BY DEF Alone, ClaimsInv, ClaimInv, OfJob, Asks
  <2>2. OnBus("Claim") /\ OwnerInv
    BY DEF ClaimsInv
  <2> HIDE DEF Good, Types
  <2> QED BY <1>1, <1>2, <2>1, <2>2, OnBusAnswered DEF Asks, Good, Types
<1>10. OwnerInv'
  <2> SUFFICES ASSUME NEW i \in DOMAIN inbox', inbox'[i].kind = "owner"
               PROVE  /\ claimed' = Nobody /\ action' = "none" /\ asked' = {}
                      /\ \A n \in DOMAIN sent' : sent'[n].m \in Linking
    BY DEF OwnerInv
  <2>1. i \in DOMAIN inbox /\ inbox[i].kind = "owner"
    BY <1>1, <1>4
  <2>2. asked = {} /\ \A k \in DOMAIN sent : sent[k].m \in Linking
    BY <2>1 DEF ClaimsInv, OwnerInv
  <2> QED BY <2>1, <2>2 DEF Gone
<1>11. HeldInv'
  <2>1. CASE claimed' = claimed /\ (Releasing => Releasing')
    <3> SUFFICES ASSUME claimed # Nobody PROVE Releasing' \/ Granted' \/ Holding'
      BY <2>1 DEF HeldInv
    <3>1. CASE Granted
      BY <1>1, <3>1 DEF Granted, Asks
    <3>2. CASE Holding
      <4>1. \A d \in calls' \cup Handled' : d.m = "Release" => d.id # job'.id
        BY <1>2, <1>5, <3>2 DEF Holding
      <4> QED BY <1>2, <3>2, <4>1 DEF Holding
    <3> QED BY <2>1, <3>1, <3>2 DEF HeldInv
  <2>2. CASE Asks(c) /\ v = "ok"
    <3>1. c \in calls /\ NotAnswered(c)
      BY <1>7, <2>2 DEF OfJob
    <3>2. \E i \in DOMAIN inbox' : Asks(inbox'[i].call) /\ inbox'[i].value = "ok"
      BY <1>1, <1>4, <2>2, <3>1
    <3> QED BY <3>2 DEF HeldInv, Granted, Asks
  <2> QED BY <2>1, <2>2 DEF HeldInv
<1>12. BusyInv' /\ DialogInv'
  BY <1>2 DEF BusyInv, DialogInv, Clears
<1> QED BY <1>3, <1>6, <1>8, <1>9, <1>10, <1>11, <1>12 DEF ClaimsInv

LEMMA ReplyTyped ==
  ASSUME NEW c \in Numbered, NEW v \in {"ok", "error", "none", "yes", "no"},
         c.m = "List" => v \in {"yes", "no", "error"}
  PROVE  ReplyTo(c, v) \in Messages
BY DEF ReplyTo, Messages, Replies

\* An error for a call that waits for an authorization, or that the bus gives up.
LEMMA RefuseStep == ASSUME Good, NEW c, Refuse(c) \/ (c \in calls /\ Timeout(c)), "Claim" \notin TimesOut
                    PROVE  Good'
<1> USE DEF Good, Types
<1>1. /\ Answer(c, "error") /\ UNCHANGED <<client, calls, count, sent, claimed, action, stored>>
      /\ asked' \subseteq asked
      /\ (c \in asked /\ c \notin asked') \/ c.m # "Claim"
  BY DEF Refuse, Timeout, fprintd
<1>2. c \in Numbered /\ c \in Made
  BY DEF Refuse, Timeout, BusTypes, Made
<1>3. ReplyTo(c, "error") \in Messages
  BY <1>2, ReplyTyped
<1>4. FprintdTypes'
  BY <1>1 DEF FprintdTypes
<1>5. sent' \in Seq(Numbered) /\ \A i \in DOMAIN sent' : i + 0 \in DOMAIN sent /\ sent'[i] = sent[i + 0]
  <2>1. \A i \in DOMAIN sent' : i + 0 = i
    BY <1>1 DEF BusTypes
  <2> QED BY <1>1, <2>1 DEF BusTypes
<1>6. Gone(inbox) => claimed' = Nobody /\ action' = "none"
  BY <1>1 DEF Gone, ClaimsInv, OwnerInv
<1>7. Asks(c) => c \in asked /\ c \notin asked'
  BY <1>1 DEF Asks
<1>8. Releasing => Releasing'
  BY <1>1 DEF Releasing
<1> QED BY <1>1, <1>2, <1>3, <1>4, <1>5, <1>6, <1>7, <1>8, AnswerGood

\* fprintd's answer to a call the user has authorized.
LEMMA GrantFacts ==
  ASSUME Types, NEW c \in asked, Grant(c)
  PROVE  /\ c \in Numbered /\ c \in Made
         /\ asked' = asked \ {c} /\ UNCHANGED <<client, calls, count, sent>>
         /\ \E v \in {"ok", "error", "yes", "no"} :
              /\ Answer(c, v) /\ (c.m = "List" => v \in {"yes", "no", "error"})
              /\ FprintdTypes'
              /\ claimed' = claimed \/ (c.m = "Claim" /\ v = "ok")
<1> DEFINE Gets(v) == /\ Answer(c, v) /\ (c.m = "List" => v \in {"yes", "no", "error"})
                      /\ FprintdTypes'
                      /\ claimed' = claimed \/ (c.m = "Claim" /\ v = "ok")
<1>0. /\ c \in Numbered /\ c \in Made
      /\ asked' = asked \ {c} /\ UNCHANGED <<client, calls, count, sent>>
  BY DEF Grant, Types, BusTypes, Made
<1>1. FprintdTypes
  BY DEF Types
<1> SUFFICES \E v \in {"ok", "error", "yes", "no"} : Gets(v)
  BY <1>0
<1>2. CASE c.m = "List" /\ Answer(c, IF stored[c.user] THEN "yes" ELSE "no") /\ UNCHANGED fprintd
  <2>1. FprintdTypes' /\ claimed' = claimed
    BY <1>1, <1>2 DEF FprintdTypes, fprintd
  <2>2. CASE stored[c.user]
    <3>1. Answer(c, "yes")
      BY <1>2, <2>2
    <3>2. Gets("yes")
      BY <2>1, <3>1
    <3> QED BY <3>2
  <2>3. CASE ~stored[c.user]
    <3>1. Answer(c, "no")
      BY <1>2, <2>3
    <3>2. Gets("no")
      BY <2>1, <3>1
    <3> QED BY <3>2
  <2> QED BY <2>2, <2>3
<1>3. CASE /\ c.m = "Claim" /\ claimed = Nobody /\ claimed' = c.user
           /\ Answer(c, "ok") /\ UNCHANGED <<action, stored>>
  <2>1. c.user \in Users
    BY <1>0 DEF Numbered, Calls
  <2>2. FprintdTypes'
    BY <1>1, <1>3, <2>1 DEF FprintdTypes
  <2>3. Gets("ok")
    BY <1>3, <2>2
  <2> QED BY <2>3
<1>4. CASE /\ c.m \in {"EnrollStart", "VerifyStart"}
           /\ claimed # Nobody /\ action = "none"
           /\ action' = IF c.m = "EnrollStart" THEN "enroll" ELSE "verify"
           /\ Answer(c, "ok") /\ UNCHANGED <<claimed, stored>>
  <2>1. FprintdTypes'
    BY <1>1, <1>4 DEF FprintdTypes
  <2>2. Gets("ok")
    BY <1>4, <2>1
  <2> QED BY <2>2
<1>5. CASE /\ c.m = "Delete" /\ stored' = [stored EXCEPT ![claimed] = FALSE]
           /\ Answer(c, "ok") /\ UNCHANGED <<claimed, action>>
  <2>1. FprintdTypes'
    BY <1>1, <1>5 DEF FprintdTypes
  <2>2. Gets("ok")
    BY <1>5, <2>1
  <2> QED BY <2>2
<1>6. CASE Answer(c, "error") /\ UNCHANGED fprintd
  <2>1. FprintdTypes' /\ claimed' = claimed
    BY <1>1, <1>6 DEF FprintdTypes, fprintd
  <2>2. Gets("error")
    BY <1>6, <2>1
  <2> QED BY <2>2
<1> QED BY <1>2, <1>3, <1>4, <1>5, <1>6 DEF Grant

LEMMA GrantStep == ASSUME Good, NEW c \in asked, Grant(c) PROVE Good'
<1> USE DEF Good, Types
<1>1. /\ asked' = asked \ {c} /\ UNCHANGED <<client, calls, count, sent>>
      /\ c \in Numbered /\ c \in Made
  BY DEF Grant, BusTypes, Made
<1>2. PICK v \in {"ok", "error", "yes", "no"} :
        /\ Answer(c, v) /\ (c.m = "List" => v \in {"yes", "no", "error"})
        /\ FprintdTypes'
        /\ claimed' = claimed \/ (c.m = "Claim" /\ v = "ok")
  BY GrantFacts
<1>3. ReplyTo(c, v) \in Messages
  BY <1>1, <1>2, ReplyTyped
<1>4. sent' \in Seq(Numbered) /\ \A i \in DOMAIN sent' : i + 0 \in DOMAIN sent /\ sent'[i] = sent[i + 0]
  <2>1. \A i \in DOMAIN sent' : i + 0 = i
    BY <1>1 DEF BusTypes
  <2> QED BY <1>1, <2>1 DEF BusTypes
<1>5. ~Gone(inbox)
  BY DEF Gone, ClaimsInv, OwnerInv
<1>6. Asks(c) => c \in asked /\ c \notin asked'
  BY <1>1
<1>7. \/ claimed' = claimed /\ (Releasing => Releasing')
      \/ Asks(c) /\ v = "ok"
  BY <1>1, <1>2 DEF Releasing, Asks
<1> QED BY <1>1, <1>2, <1>3, <1>4, <1>5, <1>6, <1>7, AnswerGood

\* fprintd puts a call to the user.
LEMMA ReadAsking ==
  ASSUME Good, sent # <<>>, NEW c, c = Head(sent), c.m \in Asking, asked' = asked \cup {c},
         sent' = Tail(sent), UNCHANGED <<client, calls, count, inbox, claimed, action, stored>>
  PROVE  Good'
<1> USE DEF Good, Types
<1>1. /\ sent' \in Seq(Numbered) /\ c \in Numbered /\ c = sent[1] /\ 1 \in DOMAIN sent
      /\ \A i \in DOMAIN sent' : i + 1 \in DOMAIN sent /\ sent'[i] = sent[i + 1]
      /\ \A i \in DOMAIN sent : i > 1 => i - 1 \in DOMAIN sent' /\ sent'[i - 1] = sent[i]
      /\ \A i \in DOMAIN sent : i \in Nat /\ i >= 1
  BY TailFacts DEF BusTypes
<1>3. UNCHANGED <<device, busy, job, shown, dialog, closing, calls, count, inbox>>
  BY DEF client, gui
<1>4. BusTypes' /\ CountTypes' /\ JobTypes' /\ ClientTypes' /\ FprintdTypes'
  BY <1>1, <1>3 DEF BusTypes, CountTypes, JobTypes, ClientTypes, FprintdTypes
<1>5. Made' \subseteq Made
  <2>1. \A i \in DOMAIN sent' : sent'[i] \in {sent[k] : k \in DOMAIN sent}
    BY <1>1
  <2>2. Handled' = Handled
    BY <1>3 DEF Handled
  <2> QED BY <1>1, <1>3, <2>1, <2>2 DEF Made
<1>6. KnownInv' /\ PhaseInv'
  BY <1>3, <1>5 DEF KnownInv, PhaseInv
<1>7. ClaimInv'
  BY <1>3 DEF ClaimsInv, ClaimInv
<1>8. OnBus("Claim")'
  <2>1. OnBus("Claim")
    BY DEF ClaimsInv
  <2> HIDE DEF Good, Types
  <2> QED BY <1>3, <2>1, OnBusAsked DEF Good, Types
<1>9. OwnerInv'
  <2>1. \A i \in DOMAIN inbox : inbox[i].kind # "owner"
    BY <1>1 DEF ClaimsInv, OwnerInv, Asking, Linking
  <2> QED BY <1>3, <2>1 DEF OwnerInv
<1>10. HeldInv'
  <2>1. Releasing => Releasing'
    <3> SUFFICES ASSUME NEW i \in DOMAIN sent, sent[i].m = "Release" PROVE Releasing'
      BY DEF Releasing
    <3>1. i > 1
      BY <1>1 DEF Asking
    <3> QED BY <1>1, <3>1 DEF Releasing
  <2>2. Granted' = Granted /\ Holding' = Holding
    BY <1>3 DEF Granted, Holding, Handled, Asks
  <2> QED BY <2>1, <2>2 DEF HeldInv
<1>11. BusyInv' /\ DialogInv'
  BY <1>3 DEF BusyInv, DialogInv, Clears
<1> QED BY <1>4, <1>6, <1>7, <1>8, <1>9, <1>10, <1>11 DEF ClaimsInv

\* fprintd puts a call to the user, or answers it at once.
Puts(c) == c.m \in Asking /\ asked' = asked \cup {c} /\ UNCHANGED <<inbox, fprintd>>
LEMMA ReadAnswers ==
  ASSUME Types, Read, ~Puts(Head(sent))
  PROVE  \E v \in {"ok", "error", "none"} :
           /\ Answer(Head(sent), v) /\ asked' = asked /\ FprintdTypes'
           /\ Head(sent).m \in Linking \cup {"Stop", "Release"}
           /\ claimed' = Nobody \/ (claimed' = claimed /\ Head(sent).m # "Release")
           /\ action' = "none" \/ action' = action
<1> USE DEF Types
<1>1. CASE Head(sent).m \in Linking /\ (\E v \in Values(Head(sent).m) : Answer(Head(sent), v)) /\ UNCHANGED <<asked, fprintd>>
  BY <1>1 DEF Values, fprintd, FprintdTypes, Linking
<1>2. CASE /\ Head(sent).m = "Stop" /\ Answer(Head(sent), IF action = "none" THEN "error" ELSE "ok")
           /\ action' = "none" /\ UNCHANGED <<asked, claimed, stored>>
  BY <1>2 DEF FprintdTypes
<1>3. CASE /\ Head(sent).m = "Release" /\ Answer(Head(sent), IF claimed # Nobody THEN "ok" ELSE "error")
           /\ claimed' = Nobody /\ action' = "none" /\ UNCHANGED <<asked, stored>>
  BY <1>3 DEF FprintdTypes
<1> QED BY <1>1, <1>2, <1>3 DEF Read, Puts

LEMMA ReadStep == ASSUME Good, Read PROVE Good'
<1> USE DEF Good, Types
<1> DEFINE c == Head(sent)
<1>1. /\ c = sent[1] /\ 1 \in DOMAIN sent /\ c \in Numbered /\ Tail(sent) \in Seq(Numbered)
      /\ \A i \in DOMAIN Tail(sent) : i + 1 \in DOMAIN sent /\ Tail(sent)[i] = sent[i + 1]
      /\ \A i \in DOMAIN sent : i > 1 => i - 1 \in DOMAIN Tail(sent) /\ Tail(sent)[i - 1] = sent[i]
      /\ \A i \in DOMAIN sent : i \in Nat /\ i >= 1
  BY TailFacts DEF BusTypes, Read
<1>2. sent' = Tail(sent) /\ UNCHANGED <<client, calls, count>> /\ sent # <<>>
  BY DEF Read
<1>3. CASE c.m \in Asking /\ asked' = asked \cup {c} /\ UNCHANGED <<inbox, fprintd>>
  BY <1>2, <1>3, ReadAsking DEF fprintd
<1>4. CASE ~(c.m \in Asking /\ asked' = asked \cup {c} /\ UNCHANGED <<inbox, fprintd>>)
  <2>1. PICK v \in {"ok", "error", "none"} :
          /\ Answer(c, v) /\ asked' = asked /\ FprintdTypes'
          /\ c.m \in Linking \cup {"Stop", "Release"}
          /\ claimed' = Nobody \/ (claimed' = claimed /\ c.m # "Release")
          /\ action' = "none" \/ action' = action
    BY <1>4, ReadAnswers DEF Puts
  <2>2. c \in Made
    BY <1>1 DEF Made
  <2>3. ReplyTo(c, v) \in Messages
    BY <1>1, <2>1, ReplyTyped DEF Linking
  <2>4. ~Asks(c)
    BY <2>1 DEF Asks, Linking
  <2>5. claimed' = Nobody \/ (claimed' = claimed /\ (Releasing => Releasing'))
    <3> SUFFICES ASSUME c.m # "Release", NEW i \in DOMAIN sent, sent[i].m = "Release" PROVE Releasing'
      BY <2>1 DEF Releasing
    <3>1. i > 1
      BY <1>1
    <3>2. i - 1 \in DOMAIN sent' /\ sent'[i - 1] = sent[i]
      BY <1>1, <1>2, <3>1
    <3> QED BY <3>2 DEF Releasing
  <2>6. Gone(inbox) => claimed' = Nobody /\ action' = "none"
    BY <2>1 DEF Gone, ClaimsInv, OwnerInv
  <2>7. sent' \in Seq(Numbered) /\ \A i \in DOMAIN sent' : i + 1 \in DOMAIN sent /\ sent'[i] = sent[i + 1]
    BY <1>1, <1>2
  <2> HIDE DEF c
  <2> QED BY <1>1, <1>2, <2>1, <2>2, <2>3, <2>4, <2>5, <2>6, <2>7, AnswerGood
<1> QED BY <1>3, <1>4

\* A message put before the last one.
LEMMA InsertFacts ==
  ASSUME inbox \in Seq(Messages), NEW len, len = Len(inbox), len > 0, NEW m \in Messages,
         inbox' = SubSeq(inbox, 1, len - 1) \o <<m, inbox[len]>>
  PROVE  /\ inbox' \in Seq(Messages) /\ len \in Nat
         /\ DOMAIN inbox = 1..len /\ DOMAIN inbox' = 1..(len + 1)
         /\ \A i \in 1..(len - 1) : inbox'[i] = inbox[i]
         /\ inbox'[len] = m /\ inbox'[len + 1] = inbox[len]
<1> DEFINE a == SubSeq(inbox, 1, len - 1)
           b == <<m, inbox[len]>>
<1>1. len \in Nat /\ DOMAIN inbox = 1..len /\ len \in DOMAIN inbox /\ inbox[len] \in Messages
  OBVIOUS
<1>2. /\ a \in Seq(Messages) /\ Len(a) = len - 1
      /\ \A i \in 1..(len - 1) : a[i] = inbox[i]
  BY <1>1
<1>3. b \in Seq(Messages) /\ Len(b) = 2 /\ b[1] = m /\ b[2] = inbox[len]
  BY <1>1
<1>4. inbox' = a \o b
  OBVIOUS
<1> HIDE DEF a, b
<1>5. /\ inbox' \in Seq(Messages) /\ Len(inbox') = Len(a) + Len(b)
      /\ \A i \in 1..(Len(a) + Len(b)) :
           inbox'[i] = IF i <= Len(a) THEN a[i] ELSE b[i - Len(a)]
  <2>1. /\ a \o b \in Seq(Messages) /\ Len(a \o b) = Len(a) + Len(b)
        /\ \A i \in 1..(Len(a) + Len(b)) :
             (a \o b)[i] = IF i <= Len(a) THEN a[i] ELSE b[i - Len(a)]
    BY <1>2, <1>3, ConcatProperties, Zenon
  <2> QED BY <1>4, <2>1
<1>6. DOMAIN inbox' = 1..(len + 1) /\ 1..(Len(a) + Len(b)) = 1..(len + 1)
  BY <1>1, <1>2, <1>3, <1>5
<1>7. ASSUME NEW i \in 1..(len - 1) PROVE inbox'[i] = inbox[i]
  <2>1. i \in 1..(len + 1) /\ i <= Len(a)
    BY <1>1, <1>2
  <2> QED BY <1>2, <1>5, <1>6, <2>1
<1>8. inbox'[len] = m
  <2>1. len \in 1..(len + 1) /\ ~(len <= Len(a)) /\ len - Len(a) = 1
    BY <1>1, <1>2
  <2>2. inbox'[len] = IF len <= Len(a) THEN a[len] ELSE b[len - Len(a)]
    BY <1>5, <1>6, <2>1
  <2> QED BY <1>3, <2>1, <2>2
<1>9. ASSUME NEW k, k = len + 1 PROVE inbox'[k] = inbox[len]
  <2>1. k \in 1..(len + 1) /\ ~(k <= Len(a)) /\ k - Len(a) = 2
    BY <1>1, <1>2, <1>9
  <2>2. inbox'[k] = IF k <= Len(a) THEN a[k] ELSE b[k - Len(a)]
    BY <1>5, <1>6, <2>1
  <2> QED BY <1>3, <2>1, <2>2
<1>10. inbox'[len + 1] = inbox[len]
  BY <1>9
<1> QED BY <1>1, <1>5, <1>6, <1>7, <1>8, <1>10

\* The end of a scan is news; only the reply to its start changes its place.
Scanning == {"EnrollStart", "VerifyStart"}
LEMMA ScanFacts ==
  ASSUME BusTypes, NEW ok \in BOOLEAN, Scan(ok)
  PROVE  /\ inbox' \in Seq(Messages)
         /\ \A i \in DOMAIN inbox' :
              \/ i \in DOMAIN inbox /\ inbox'[i] = inbox[i]
              \/ inbox'[i].kind = "status" /\ inbox'[i].call = NoCall
              \/ \E k \in DOMAIN inbox : inbox'[i] = inbox[k] /\ inbox[k].call.m \in Scanning
         /\ \A i \in DOMAIN inbox :
              inbox[i].call.m \notin Scanning => i \in DOMAIN inbox' /\ inbox'[i] = inbox[i]
<1> DEFINE s == [kind |-> "status", call |-> NoCall, mode |-> action,
                 value |-> IF ok THEN "ok" ELSE "error"]
           n == Len(inbox)
<1>1. action \in {"enroll", "verify"} /\ inbox \in Seq(Messages)
  BY DEF Scan, BusTypes
<1>2. s \in Messages /\ s.call = NoCall /\ s.kind = "status"
  BY <1>1 DEF Messages
<1>3. \/ inbox' = Append(inbox, s)
      \/ /\ n > 0 /\ inbox[n].call.m \in Scanning
         /\ inbox' = SubSeq(inbox, 1, n - 1) \o <<s, inbox[n]>>
  <2>1. StartOf[action] \in Scanning
    BY <1>1 DEF StartOf, Scanning
  <2> QED BY <2>1, Zenon DEF Scan
<1>4. n = Len(inbox)
  OBVIOUS
<1> HIDE DEF s, n
<1>5. CASE inbox' = Append(inbox, s)
  BY <1>1, <1>2, <1>5, AppendFacts
<1>6. ASSUME n > 0, inbox[n].call.m \in Scanning,
             inbox' = SubSeq(inbox, 1, n - 1) \o <<s, inbox[n]>>
      PROVE  /\ inbox' \in Seq(Messages)
             /\ \A i \in DOMAIN inbox' :
                  \/ i \in DOMAIN inbox /\ inbox'[i] = inbox[i]
                  \/ inbox'[i] = s
                  \/ \E k \in DOMAIN inbox : inbox'[i] = inbox[k] /\ inbox[k].call.m \in Scanning
             /\ \A i \in DOMAIN inbox :
                  inbox[i].call.m \notin Scanning => i \in DOMAIN inbox' /\ inbox'[i] = inbox[i]
  <2>1. /\ inbox' \in Seq(Messages) /\ n \in Nat /\ DOMAIN inbox = 1..n
        /\ DOMAIN inbox' = 1..(n + 1)
        /\ \A i \in 1..(n - 1) : inbox'[i] = inbox[i]
        /\ inbox'[n] = s /\ inbox'[n + 1] = inbox[n]
    BY <1>1, <1>2, <1>4, <1>6, InsertFacts
  <2>2. \A i \in 1..(n + 1) : i \in 1..(n - 1) \/ i = n \/ i = n + 1
    BY <2>1
  <2>3. \A i \in 1..n : i \in 1..(n - 1) \/ i = n
    BY <2>1
  <2>4. (\A i \in 1..(n - 1) : i \in 1..n /\ i \in 1..(n + 1)) /\ n \in 1..n
    BY <1>6, <2>1
  <2>5. ASSUME NEW i \in DOMAIN inbox'
        PROVE  \/ i \in DOMAIN inbox /\ inbox'[i] = inbox[i]
               \/ inbox'[i] = s
               \/ \E k \in DOMAIN inbox : inbox'[i] = inbox[k] /\ inbox[k].call.m \in Scanning
    BY <1>6, <2>1, <2>2, <2>4
  <2>6. ASSUME NEW i \in DOMAIN inbox, inbox[i].call.m \notin Scanning
        PROVE  i \in DOMAIN inbox' /\ inbox'[i] = inbox[i]
    BY <1>6, <2>1, <2>3, <2>4, <2>6
  <2> QED BY <2>1, <2>5, <2>6
<1> QED BY <1>2, <1>3, <1>5, <1>6

LEMMA OnBusScanned ==
  ASSUME BusTypes, NEW m \in {"Claim", "Delete"}, OnBus(m), NEW ok \in BOOLEAN, Scan(ok), ~Gone(inbox)
  PROVE  OnBus(m)'
<1>1. UNCHANGED <<job, calls, sent, asked>>
  BY DEF Scan, client
<1>2. m \notin Scanning /\ NoCall.m # m
  BY DEF Scanning, NoCall, Call
<1>3. /\ \A i \in DOMAIN inbox' : inbox'[i].call.m = m => i \in DOMAIN inbox /\ inbox'[i] = inbox[i]
      /\ \A i \in DOMAIN inbox' : inbox'[i].kind # "owner"
  BY <1>2, ScanFacts DEF Gone
<1>4. ASSUME NEW c, c.m = m, NotAnswered(c) PROVE \A i \in DOMAIN inbox' : inbox'[i].call # c
  BY <1>3, <1>4 DEF NotAnswered
<1>5. SentInv(m)'
  <2> SUFFICES ASSUME NEW i \in DOMAIN sent, sent[i].m = m
               PROVE  /\ OfJob(sent[i]) /\ \A n \in DOMAIN inbox' : inbox'[n].call # sent[i]
                      /\ \A k \in DOMAIN sent : sent[k].m = m => k = i
    BY <1>1 DEF SentInv, OfJob, NotAnswered
  <2> QED BY <1>4 DEF OnBus, SentInv
<1>6. AskedInv(m)'
  <2> SUFFICES ASSUME NEW d \in asked, d.m = m
               PROVE  /\ OfJob(d) /\ \A n \in DOMAIN inbox' : inbox'[n].call # d
                      /\ \A k \in DOMAIN sent : sent[k].m # m
    BY <1>1 DEF AskedInv, OfJob, NotAnswered
  <2> QED BY <1>4 DEF OnBus, AskedInv
<1>7. InboxInv(m)'
  <2> SUFFICES ASSUME NEW i \in DOMAIN inbox', inbox'[i].call.m = m
               PROVE  /\ inbox'[i].call \in calls
                      /\ \A n \in DOMAIN inbox' : inbox'[n].call = inbox'[i].call => n = i
                      /\ inbox'[i].value = "ok" => OfJob(inbox'[i].call)
    BY <1>1 DEF InboxInv, OfJob
  <2> QED BY <1>3 DEF OnBus, InboxInv
<1>8. LostInv(m)'
  BY <1>3 DEF LostInv
<1> QED BY <1>5, <1>6, <1>7, <1>8 DEF OnBus

LEMMA ScanStep == ASSUME Good, NEW ok \in BOOLEAN, Scan(ok) PROVE Good'
<1> USE DEF Good, Types
<1>1. /\ action \in {"enroll", "verify"} /\ action' = "done"
      /\ UNCHANGED <<device, busy, job, shown, dialog, closing, calls, sent, asked, claimed, count>>
  BY DEF Scan, client, gui
<1>2. FprintdTypes'
  BY <1>1 DEF Scan, FprintdTypes
<1>3. ~Gone(inbox)
  BY <1>1 DEF Gone, ClaimsInv, OwnerInv
<1>4. /\ inbox' \in Seq(Messages)
      /\ \A i \in DOMAIN inbox' :
           \/ i \in DOMAIN inbox /\ inbox'[i] = inbox[i]
           \/ inbox'[i].kind = "status" /\ inbox'[i].call = NoCall
           \/ \E k \in DOMAIN inbox : inbox'[i] = inbox[k] /\ inbox[k].call.m \in Scanning
      /\ \A i \in DOMAIN inbox :
           inbox[i].call.m \notin Scanning => i \in DOMAIN inbox' /\ inbox'[i] = inbox[i]
  BY ScanFacts
<1>5. NoCall.m \notin JobMethods
  BY DEF NoCall, Call, JobMethods
<1>6. Handled' \subseteq Handled \cup {NoCall}
  <2>1. \A i \in DOMAIN inbox' : inbox'[i].call \in Handled \cup {NoCall}
    BY <1>4 DEF Handled
  <2> QED BY <2>1 DEF Handled
<1>7. Made' \subseteq Made \cup {NoCall}
  BY <1>1, <1>6 DEF Made
<1>8. KnownInv' /\ PhaseInv'
  BY <1>1, <1>5, <1>7 DEF KnownInv, PhaseInv
<1>9. BusTypes' /\ CountTypes' /\ JobTypes' /\ ClientTypes'
  BY <1>1, <1>4 DEF BusTypes, CountTypes, JobTypes, ClientTypes
<1>10. ClaimsInv'
  <2>1. ClaimInv'
    BY <1>1 DEF ClaimsInv, ClaimInv
  <2>2. OwnerInv'
    <3>1. \A i \in DOMAIN inbox' : inbox'[i].kind # "owner"
      BY <1>3, <1>4 DEF Gone
    <3> QED BY <3>1 DEF OwnerInv
  <2>3. OnBus("Claim")'
    <3>1. OnBus("Claim")
      BY DEF ClaimsInv
    <3> HIDE DEF Good, Types
    <3> QED BY <1>3, <3>1, OnBusScanned DEF Good, Types
  <2> QED BY <2>1, <2>2, <2>3 DEF ClaimsInv
<1>11. HeldInv'
  <2>1. Releasing' = Releasing
    BY <1>1 DEF Releasing
  <2>2. Granted => Granted'
    BY <1>4 DEF Granted, Asks, Scanning
  <2>3. Holding => Holding'
    BY <1>1, <1>5, <1>6 DEF Holding, JobMethods
  <2> QED BY <1>1, <2>1, <2>2, <2>3 DEF HeldInv
<1>12. BusyInv' /\ DialogInv'
  BY <1>1 DEF BusyInv, DialogInv, Clears
<1> QED BY <1>2, <1>8, <1>9, <1>10, <1>11, <1>12

\* What fprintd leaves behind: the news that it is gone, and an error for
\* every call that waited.
News == [kind |-> "owner", call |-> NoCall]
LEMMA DieFacts ==
  ASSUME inbox \in Seq(Messages), calls \subseteq Numbered, IsFiniteSet(calls), Die
  PROVE  /\ inbox' \in Seq(Messages)
         /\ \A i \in DOMAIN inbox : i \in DOMAIN inbox' /\ inbox'[i] = inbox[i]
         /\ \A i \in DOMAIN inbox' :
              \/ i \in DOMAIN inbox /\ inbox'[i] = inbox[i]
              \/ inbox'[i] = News /\ \A k \in DOMAIN inbox : k < i
              \/ \E c \in calls : /\ inbox'[i] = ReplyTo(c, "error") /\ Waits(c)
                                  /\ \A k \in DOMAIN inbox' : inbox'[k] = ReplyTo(c, "error") => k = i
<1> DEFINE open == {c \in calls : Waits(c)}
           n == Len(inbox)
           size == Cardinality(open)
           RepliesOf(s) == [i \in DOMAIN s |-> ReplyTo(s[i], "error")]
<1>1. PICK s \in [1..size -> open] :
        /\ \A i, k \in DOMAIN s : s[i] = s[k] => i = k
        /\ inbox' = inbox \o <<News>> \o RepliesOf(s)
  BY Zenon DEF Die, News
<1>2. size \in Nat
  <2>1. IsFiniteSet(open)
    BY FS_Subset
  <2> QED BY <2>1, FS_CardinalityType
<1> HIDE DEF size, open
<1> DEFINE r == RepliesOf(s)
           a == inbox \o <<News>>
<1>3. News \in Messages
  BY DEF News, Messages
<1>4. DOMAIN s = 1..size
  OBVIOUS
<1>5. r \in [1..size -> Messages] /\ \A i \in 1..size : r[i] = ReplyTo(s[i], "error")
  <2>1. \A i \in 1..size : s[i] \in Numbered
    BY DEF open
  <2>2. \A i \in 1..size : ReplyTo(s[i], "error") \in Messages
    BY <2>1, ReplyTyped
  <2> QED BY <1>4, <2>2
<1> HIDE DEF r
<1>6. r \in Seq(Messages) /\ Len(r) = size
  BY <1>2, <1>5
<1>7. /\ a \in Seq(Messages) /\ Len(a) = n + 1 /\ n \in Nat /\ DOMAIN inbox = 1..n
      /\ a[n + 1] = News /\ \A i \in 1..n : a[i] = inbox[i]
  BY <1>3
<1> HIDE DEF a, n
<1>8. /\ inbox' = a \o r
      /\ a \o r \in Seq(Messages) /\ Len(a \o r) = Len(a) + Len(r)
      /\ \A i \in 1..(Len(a) + Len(r)) : (a \o r)[i] = IF i <= Len(a) THEN a[i] ELSE r[i - Len(a)]
  <2>1. inbox' = a \o r
    BY <1>1 DEF a, r
  <2> QED BY <1>6, <1>7, <2>1, ConcatProperties, Zenon
<1>9. /\ inbox' \in Seq(Messages) /\ DOMAIN inbox' = 1..(n + 1 + size)
      /\ \A i \in 1..(n + 1 + size) : inbox'[i] = IF i <= n + 1 THEN a[i] ELSE r[i - (n + 1)]
  <2>1. Len(a) + Len(r) = n + 1 + size
    BY <1>6, <1>7
  <2>2. inbox' \in Seq(Messages) /\ Len(inbox') = n + 1 + size
    BY <1>8, <2>1
  <2>3. DOMAIN inbox' = 1..(n + 1 + size)
    BY <2>2
  <2>4. \A i \in 1..(n + 1 + size) : inbox'[i] = IF i <= n + 1 THEN a[i] ELSE r[i - (n + 1)]
    BY <1>7, <1>8, <2>1
  <2> QED BY <2>2, <2>3, <2>4
<1>10. ASSUME NEW i \in 1..n PROVE i \in DOMAIN inbox' /\ inbox'[i] = inbox[i]
  <2>1. i \in 1..(n + 1 + size) /\ i <= n + 1
    BY <1>2, <1>7
  <2> QED BY <1>7, <1>9, <2>1
<1>11. ASSUME NEW i, i = n + 1 PROVE inbox'[i] = News /\ \A k \in 1..n : k < i
  <2>1. i \in 1..(n + 1 + size) /\ i <= n + 1
    BY <1>2, <1>7, <1>11
  <2>2. inbox'[i] = a[i]
    BY <1>9, <2>1
  <2> QED BY <1>7, <1>11, <2>2
<1>12. ASSUME NEW i \in DOMAIN inbox', i > n + 1
       PROVE  i - (n + 1) \in 1..size /\ inbox'[i] = ReplyTo(s[i - (n + 1)], "error")
  <2>1. i - (n + 1) \in 1..size /\ ~(i <= n + 1)
    BY <1>2, <1>7, <1>9, <1>12
  <2>2. inbox'[i] = r[i - (n + 1)]
    BY <1>9, <2>1
  <2> QED BY <1>5, <2>1, <2>2
<1>13. ASSUME NEW i \in DOMAIN inbox', i > n + 1, NEW c, c = s[i - (n + 1)]
       PROVE  /\ c \in calls /\ Waits(c) /\ inbox'[i] = ReplyTo(c, "error")
              /\ \A k \in DOMAIN inbox' : inbox'[k] = ReplyTo(c, "error") => k = i
  <2>1. c \in calls /\ Waits(c)
    BY <1>12, <1>13 DEF open
  <2>2. inbox'[i] = ReplyTo(c, "error")
    BY <1>12, <1>13
  <2>3. ASSUME NEW k \in DOMAIN inbox', inbox'[k] = ReplyTo(c, "error") PROVE k = i
    <3>1. inbox'[k].kind = "reply" /\ inbox'[k].call = c
      BY <2>3 DEF ReplyTo
    <3>2. k \notin 1..n
      BY <1>7, <1>10, <2>1, <3>1 DEF Waits
    <3>3. k # n + 1
      BY <1>11, <3>1 DEF News
    <3>4. k > n + 1
      BY <1>2, <1>7, <1>9, <3>2, <3>3
    <3>5. s[k - (n + 1)] = c /\ k - (n + 1) \in 1..size
      BY <1>12, <2>3, <3>4 DEF ReplyTo
    <3>6. k - (n + 1) = i - (n + 1)
      BY <1>1, <1>4, <1>12, <1>13, <3>5
    <3> QED BY <1>2, <1>7, <1>9, <3>6
  <2> QED BY <2>1, <2>2, <2>3
<1>14. \A i \in DOMAIN inbox' : i \in 1..n \/ i = n + 1 \/ i > n + 1
  BY <1>2, <1>7, <1>9
<1>15. ASSUME NEW i \in DOMAIN inbox'
       PROVE  \/ i \in DOMAIN inbox /\ inbox'[i] = inbox[i]
              \/ inbox'[i] = News /\ \A k \in DOMAIN inbox : k < i
              \/ \E c \in calls : /\ inbox'[i] = ReplyTo(c, "error") /\ Waits(c)
                                  /\ \A k \in DOMAIN inbox' : inbox'[k] = ReplyTo(c, "error") => k = i
  <2>1. CASE i \in 1..n
    BY <1>7, <1>10, <2>1
  <2>2. CASE i = n + 1
    BY <1>7, <1>11, <2>2
  <2>3. CASE i > n + 1
    <3> DEFINE c == s[i - (n + 1)]
    <3>1. /\ c \in calls /\ Waits(c) /\ inbox'[i] = ReplyTo(c, "error")
          /\ \A k \in DOMAIN inbox' : inbox'[k] = ReplyTo(c, "error") => k = i
      BY <1>13, <2>3, Zenon
    <3> HIDE DEF c
    <3> QED BY <3>1
  <2> QED BY <1>14, <2>1, <2>2, <2>3
<1>16. \A i \in DOMAIN inbox : i \in DOMAIN inbox' /\ inbox'[i] = inbox[i]
  BY <1>7, <1>10
<1> QED BY <1>9, <1>15, <1>16, Zenon

LEMMA OnBusLost ==
  ASSUME BusTypes, NEW m \in {"Claim", "Delete"}, OnBus(m), Die
  PROVE  OnBus(m)'
<1>1. sent' = <<>> /\ asked' = {} /\ UNCHANGED <<job, calls>>
  BY DEF Die, client
<1>2. inbox \in Seq(Messages) /\ calls \subseteq Numbered /\ IsFiniteSet(calls)
  BY DEF BusTypes
<1>3. /\ inbox' \in Seq(Messages)
      /\ \A i \in DOMAIN inbox : i \in DOMAIN inbox' /\ inbox'[i] = inbox[i]
      /\ \A i \in DOMAIN inbox' :
           \/ i \in DOMAIN inbox /\ inbox'[i] = inbox[i]
           \/ inbox'[i] = News /\ \A k \in DOMAIN inbox : k < i
           \/ \E c \in calls : /\ inbox'[i] = ReplyTo(c, "error") /\ Waits(c)
                               /\ \A k \in DOMAIN inbox' : inbox'[k] = ReplyTo(c, "error") => k = i
  BY <1>2, DieFacts
<1>4. NoCall.m # m
  BY DEF NoCall, Call
\* A call that is handled now was handled before, or has just been lost.
<1>5. ASSUME NEW i \in DOMAIN inbox', inbox'[i].call.m = m
      PROVE  \/ i \in DOMAIN inbox /\ inbox'[i] = inbox[i]
             \/ /\ inbox'[i] = ReplyTo(inbox'[i].call, "error") /\ inbox'[i].call \in calls
                /\ Waits(inbox'[i].call)
                /\ \A k \in DOMAIN inbox' : inbox'[k] = inbox'[i] => k = i
  BY <1>3, <1>4, <1>5 DEF News, ReplyTo
<1>6. ASSUME NEW i \in DOMAIN inbox, inbox[i].call.m = m PROVE inbox[i].kind = "reply"
  BY <1>2, <1>4, <1>6 DEF Messages, Replies
<1>7. InboxInv(m)'
  <2> SUFFICES ASSUME NEW i \in DOMAIN inbox', inbox'[i].call.m = m
               PROVE  /\ inbox'[i].call \in calls
                      /\ \A k \in DOMAIN inbox' : inbox'[k].call = inbox'[i].call => k = i
                      /\ inbox'[i].value = "ok" => OfJob(inbox'[i].call)
    BY <1>1 DEF InboxInv, OfJob
  <2>1. inbox'[i].call \in calls
    BY <1>5 DEF OnBus, InboxInv
  <2>2. inbox'[i].value = "ok" => OfJob(inbox'[i].call)
    BY <1>5 DEF OnBus, InboxInv, ReplyTo
  <2>3. ASSUME NEW k \in DOMAIN inbox', inbox'[k].call = inbox'[i].call PROVE k = i
    <3>1. inbox'[k].call.m = m
      BY <2>3
    <3>2. CASE i \in DOMAIN inbox /\ inbox'[i] = inbox[i] /\ k \in DOMAIN inbox /\ inbox'[k] = inbox[k]
      BY <2>3, <3>2 DEF OnBus, InboxInv
    <3>3. CASE i \in DOMAIN inbox /\ inbox'[i] = inbox[i] /\ Waits(inbox'[k].call)
      BY <1>6, <2>3, <3>3 DEF Waits
    <3>4. CASE k \in DOMAIN inbox /\ inbox'[k] = inbox[k] /\ Waits(inbox'[i].call)
      BY <1>6, <2>3, <3>1, <3>4 DEF Waits
    <3>5. CASE /\ inbox'[i] = ReplyTo(inbox'[i].call, "error")
               /\ inbox'[k] = ReplyTo(inbox'[k].call, "error")
               /\ \A o \in DOMAIN inbox' : inbox'[o] = inbox'[i] => o = i
      <4>1. inbox'[k] = inbox'[i]
        BY <2>3, <3>5 DEF ReplyTo
      <4> QED BY <3>5, <4>1
    <3> QED BY <1>5, <3>1, <3>2, <3>3, <3>4, <3>5
  <2> QED BY <2>1, <2>2, <2>3
<1>8. LostInv(m)'
  <2> SUFFICES ASSUME NEW i \in DOMAIN inbox', inbox'[i].kind = "owner",
                      NEW k \in DOMAIN inbox', k > i, inbox'[k].call.m = m
               PROVE  inbox'[k].value = "error"
    BY DEF LostInv
  <2>1. CASE k \in DOMAIN inbox /\ inbox'[k] = inbox[k]
    <3>1. ~(inbox'[i] = News /\ \A o \in DOMAIN inbox : o < i)
      <4>1. i \in Nat /\ k \in Nat /\ (k < i => ~(k > i))
        BY <1>2, <1>3
      <4> QED BY <2>1, <4>1
    <3>2. i \in DOMAIN inbox /\ inbox'[i] = inbox[i]
      BY <1>3, <3>1 DEF ReplyTo
    <3> QED BY <2>1, <3>2 DEF OnBus, LostInv
  <2> QED BY <1>5, <2>1 DEF ReplyTo
<1>9. SentInv(m)' /\ AskedInv(m)'
  BY <1>1 DEF SentInv, AskedInv
<1> QED BY <1>7, <1>8, <1>9 DEF OnBus

LEMMA DieStep == ASSUME Good, Die PROVE Good'
<1> USE DEF Good, Types
<1>1. /\ claimed' = Nobody /\ action' = "none" /\ sent' = <<>> /\ asked' = {}
      /\ count' = [count EXCEPT !.deaths = @ + 1]
      /\ UNCHANGED <<device, busy, job, shown, dialog, closing, calls, stored>>
  BY DEF Die, client, gui
<1>2. inbox \in Seq(Messages) /\ calls \subseteq Numbered /\ IsFiniteSet(calls)
  BY DEF BusTypes
<1>3. /\ inbox' \in Seq(Messages)
      /\ \A i \in DOMAIN inbox : i \in DOMAIN inbox' /\ inbox'[i] = inbox[i]
      /\ \A i \in DOMAIN inbox' :
           \/ i \in DOMAIN inbox /\ inbox'[i] = inbox[i]
           \/ inbox'[i] = News /\ \A k \in DOMAIN inbox : k < i
           \/ \E c \in calls : /\ inbox'[i] = ReplyTo(c, "error") /\ Waits(c)
                               /\ \A k \in DOMAIN inbox' : inbox'[k] = ReplyTo(c, "error") => k = i
  BY <1>2, DieFacts
<1>4. /\ CountTypes' /\ count'.jobs = count.jobs /\ count'.connects = count.connects
  BY <1>1, CountFacts
<1>5. ~Asks(NoCall) /\ NoCall.m \notin JobMethods /\ NoCall.m # "Release"
  BY DEF Asks, NoCall, Call, JobMethods
<1>6. Made' \subseteq Made \cup {NoCall}
  <2>1. \A i \in DOMAIN inbox' : inbox'[i].call \in Handled \cup calls \cup {NoCall}
    BY <1>3 DEF Handled, News, ReplyTo
  <2>2. \A i : i \notin DOMAIN sent'
    BY <1>1
  <2> QED BY <1>1, <2>1, <2>2 DEF Made, Handled
<1>7. KnownInv' /\ PhaseInv'
  BY <1>1, <1>4, <1>5, <1>6 DEF KnownInv, PhaseInv
<1>8. FprintdTypes' /\ ClientTypes' /\ JobTypes'
  BY <1>1 DEF FprintdTypes, ClientTypes, JobTypes
<1>9. BusTypes'
  <2>1. sent' \in Seq(Numbered) /\ asked' \subseteq {c \in Numbered : c.m \in Asking}
    BY <1>1
  <2> QED BY <1>1, <1>3, <2>1 DEF BusTypes
<1>10. ClaimsInv'
  <2>1. ClaimInv'
    BY <1>1 DEF ClaimsInv, ClaimInv
  <2>2. OwnerInv'
    BY <1>1 DEF OwnerInv
  <2>3. OnBus("Claim")'
    <3>1. OnBus("Claim")
      BY DEF ClaimsInv
    <3> HIDE DEF Good, Types
    <3> QED BY <3>1, OnBusLost DEF Good, Types
  <2> QED BY <2>1, <2>2, <2>3 DEF ClaimsInv
<1>11. HeldInv' /\ DialogInv'
  BY <1>1 DEF HeldInv, DialogInv
<1>12. BusyInv'
  BY <1>1, <1>4 DEF BusyInv, Clears
<1> QED BY <1>4, <1>7, <1>8, <1>9, <1>10, <1>11, <1>12

-----------------------------------------------------------------------------
(* Every step                                                              *)

LEMMA InitGood == Init => Good
<1> SUFFICES ASSUME Init PROVE Good
  OBVIOUS
<1>1. CountTypes
  BY RegistryAssumption DEF Init, CountTypes
<1>2. ClientTypes
  <2>1. 0 \in 0..MaxConnects
    BY RegistryAssumption
  <2>2. NoDialog \in Dialogs
    BY DEF Dialogs
  <2> QED BY <2>1, <2>2 DEF Init, ClientTypes
<1>3. JobTypes
  BY DEF Init, JobTypes
<1>4. FprintdTypes
  BY DEF Init, FprintdTypes
<1>5. BusTypes
  BY FS_EmptySet DEF Init, BusTypes
<1>6. KnownInv /\ PhaseInv
  BY DEF Init, KnownInv, PhaseInv, Made, Handled
<1>7. ClaimsInv
  BY DEF Init, ClaimsInv, ClaimInv, OnBus, SentInv, AskedInv, InboxInv, LostInv, OwnerInv
<1>8. HeldInv /\ BusyInv /\ DialogInv
  BY DEF Init, HeldInv, BusyInv, DialogInv, NoDialog, Running
<1> QED BY <1>1, <1>2, <1>5, <1>6, <1>7, <1>8, <1>3, <1>4 DEF Good, Types

LEMMA StutterGood == ASSUME Good, UNCHANGED vars PROVE Good'
<1>1. /\ UNCHANGED <<device, busy, job, shown, dialog, closing>>
      /\ UNCHANGED <<calls, inbox, sent, asked, claimed, action, stored, count>>
  BY DEF vars, client, gui, fprintd
<1>2. Types'
  BY <1>1 DEF Good, Types, CountTypes, ClientTypes, JobTypes, BusTypes, FprintdTypes
<1>3. Made' = Made /\ Handled' = Handled
  BY <1>1 DEF Made, Handled
<1>4. KnownInv' /\ PhaseInv'
  BY <1>1, <1>3 DEF Good, KnownInv, PhaseInv
<1>5. ClaimInv' /\ OwnerInv'
  BY <1>1 DEF Good, ClaimsInv, ClaimInv, OwnerInv
<1>6. OnBus("Claim")'
  BY <1>1 DEF Good, ClaimsInv, OnBus, SentInv, AskedInv, InboxInv, LostInv, OfJob, NotAnswered
<1>7. HeldInv'
  BY <1>1, <1>3 DEF Good, HeldInv, Releasing, Granted, Holding
<1>8. BusyInv' /\ DialogInv'
  BY <1>1 DEF Good, BusyInv, Clears, DialogInv
<1> QED BY <1>2, <1>4, <1>5, <1>6, <1>7, <1>8 DEF Good, ClaimsInv

\* A Claim the client waits for is answered by fprintd, or lost with it: the
\* bus does not give it up on its own.
LEMMA StepGood == ASSUME "Claim" \notin TimesOut, Good, [Next]_vars PROVE Good'
<1>0. CASE Plainly
  BY <1>0, PlainStep
<1>1. CASE MainLoop
  <2>1. CASE ManagerReady \/ DevicesListed \/ DeviceReady \/ Listed
    BY <1>0, <2>1, LinkingStep, DeviceReadyStep, ListedStep DEF Good
  <2> QED BY <1>1, <2>1, ClaimedStep, StartedStep, StoppedStep,
             ReleasedStep, StatusStep, OwnerChangedStep DEF MainLoop
<1>2. CASE User
  <2>1. CASE \E mode \in Modes, u \in Users :
               Begin(mode, u) \/ Start(mode, u) \/ StartRaises(mode, u)
    <3> SUFFICES ASSUME NEW mode \in Modes, NEW u \in Users,
                        Begin(mode, u) \/ Start(mode, u) \/ StartRaises(mode, u)
                 PROVE  Good'
      BY <2>1
    <3>1. CASE Begin(mode, u)
      BY <1>0, <3>1, BeginStep DEF Good
    <3>2. CASE Start(mode, u)
      BY <3>2, StartStep
    <3>3. CASE StartRaises(mode, u)
      BY <1>0, <3>3, StartRaisesStep DEF Good
    <3> QED BY <3>1, <3>2, <3>3
  <2>2. CASE Dismiss
    <3>1. "enroll" \in Modes /\ Own \in Users
      BY RegistryAssumption DEF Modes
    <3> QED BY <1>0, <2>2, <3>1, BeginStep DEF Good
  <2>3. CASE Connect \/ AskForRegisters
    BY <1>0, <2>3, ConnectStep, AskStep DEF Good
  <2> QED BY <1>2, <2>1, <2>2, <2>3, CloseStep DEF User
<1>3. CASE Read
  BY <1>3, ReadStep
<1>4. CASE Decide
  BY <1>4, GrantStep, RefuseStep DEF Decide
<1>5. CASE \E ok \in BOOLEAN : Scan(ok)
  BY <1>5, ScanStep
<1>6. CASE \E c \in calls : Timeout(c)
  BY <1>6, RefuseStep
<1>7. CASE Die
  BY <1>7, DieStep
<1>8. CASE UNCHANGED vars
  BY <1>8, StutterGood
<1> QED BY <1>1, <1>2, <1>3, <1>4, <1>5, <1>6, <1>7, <1>8 DEF Next

LEMMA AlwaysGood == ASSUME "Claim" \notin TimesOut PROVE Spec => []Good
<1>1. Init => Good
  BY InitGood
<1>2. Good /\ [Next]_vars => Good'
  BY StepGood
<1> QED BY <1>1, <1>2, PTL DEF Spec

-----------------------------------------------------------------------------
(* The reader is released.  The bus does not give up a Claim: with one that *)
(* is given up and granted later this would be false, which the run        *)
(* registry_claim shows.                                                   *)

\* However jobs end, by an answer, a refusal, a time-out of any other call, Avbryt,
\* a closed window or the loss of fprintd: once the client has no job and no
\* call under way, the reader is free for others.
THEOREM ReaderIsReleased == ASSUME "Claim" \notin TimesOut PROVE Spec => []ReaderReleased
<1>1. Good => ReaderReleased
  <2> SUFFICES ASSUME Good, Quiet PROVE claimed = Nobody
    BY DEF ReaderReleased
  <2>1. ~Releasing
    BY DEF Releasing, Quiet
  <2>2. ~Granted
    BY DEF Granted, Quiet, Good, ClaimsInv, OnBus, InboxInv, Asks
  <2>3. ~Holding
    BY DEF Holding, Quiet
  <2> QED BY <2>1, <2>2, <2>3 DEF Good, HeldInv
<1> QED BY <1>1, AlwaysGood, PTL

-----------------------------------------------------------------------------
(* What holds whatever the bus gives up and however connects overlap: the  *)
(* calls that begin a job, and the job that waits for them.                *)

Begins == {"Claim", "EnrollStart", "VerifyStart", "Delete"}

\* Jobs are numbered as they are started.
NumberInv ==
  /\ \A c \in calls : c.m \in Begins => c.id <= count.jobs
  /\ job # NoJob => job.id <= count.jobs

\* There is at most one such call of a job, which is pending and not ending.
BeginsInv == \A c \in calls : c.m \in Begins =>
  /\ job # NoJob /\ c.id = job.id => job.pending /\ ~job.ending
  /\ \A d \in calls : d.m \in Begins /\ d.id = c.id => d = c

\* Its answer is one, and the client waits for it.
AnswerInv == \A i \in DOMAIN inbox : inbox[i].call.m \in Begins =>
  /\ inbox[i].call \in calls
  /\ \A k \in DOMAIN inbox : inbox[k].call = inbox[i].call => k = i

Core == Types /\ NumberInv /\ BeginsInv /\ AnswerInv /\ BusyInv /\ DialogInv

\* A step that forgets no job.
Recalls == Forgotten' => Forgotten

LEMMA OwnMethods ==
  /\ \A c \in Numbered : c.m \in JobMethods <=> c.m \notin Linking \cup {"List"}
  /\ Begins \subseteq JobMethods /\ NoCall.m \notin JobMethods
BY DEF Numbered, Calls, Methods, Linking, Asking, JobMethods, Begins, NoCall, Call

LEMMA CoreKept ==
  ASSUME Core, NEW n, NEW new \in SUBSET Numbered, Moved(n, new), BusTypes', CountTypes',
         ClientTypes', JobTypes', \A c, d \in new : c = d,
         count.jobs <= count'.jobs, job' # NoJob => job'.id <= count'.jobs,
         \A c \in new : c.m \in Begins =>
           /\ c.id <= count'.jobs
           /\ \A d \in calls : d.m \in Begins /\ d.id = c.id => n = 1 /\ d = inbox[1].call /\ d # c,
         \A c \in calls' : c.m \in Begins /\ job' # NoJob /\ c.id = job'.id =>
           job'.pending /\ ~job'.ending,
         BusyInv', DialogInv'
  PROVE  Core'
<1> USE DEF Core, Types
<1>1. /\ calls' = (IF n = 1 THEN calls \ {inbox[1].call} ELSE calls) \cup new
      /\ n \in {0, 1} /\ (n = 1 => 1 \in DOMAIN inbox)
  BY Zenon DEF Moved
<1>2. /\ \A c \in calls' : c \in new \/ (c \in calls /\ (n = 1 => c # inbox[1].call))
      /\ new \subseteq calls' /\ \A c \in calls : c \in calls' \/ (n = 1 /\ c = inbox[1].call)
  BY <1>1
<1>3. /\ \A i \in DOMAIN inbox : i \in Nat /\ i >= 1
      /\ \A i \in DOMAIN inbox' : i \in Nat /\ i >= 1
  BY DEF BusTypes
<1>4. NumberInv'
  <2>1. \A c \in calls : c.id \in Nat
    BY DEF BusTypes, Numbered, Calls
  <2>2. count.jobs \in Nat /\ count'.jobs \in Nat
    BY RegistryAssumption DEF CountTypes
  <2> QED BY <1>2, <2>1, <2>2 DEF NumberInv
<1>5. BeginsInv'
  <2> SUFFICES ASSUME NEW c \in calls', c.m \in Begins
               PROVE  /\ job' # NoJob /\ c.id = job'.id => job'.pending /\ ~job'.ending
                      /\ \A d \in calls' : d.m \in Begins /\ d.id = c.id => d = c
    BY DEF BeginsInv
  <2>1. ASSUME NEW d \in calls', d.m \in Begins, d.id = c.id PROVE d = c
    <3>1. CASE c \in new /\ d \in new
      BY <3>1
    <3>2. CASE c \in new /\ d \notin new
      BY <1>2, <2>1, <3>2
    <3>3. CASE c \notin new /\ d \in new
      BY <1>2, <2>1, <3>3
    <3>4. CASE c \notin new /\ d \notin new
      BY <1>2, <2>1, <3>4 DEF BeginsInv
    <3> QED BY <3>1, <3>2, <3>3, <3>4
  <2> QED BY <2>1
<1>6. ASSUME NEW i \in DOMAIN inbox', inbox'[i].call.m \in Begins
      PROVE  \/ /\ i + n \in DOMAIN inbox /\ inbox'[i] = inbox[i + n]
                /\ inbox'[i].call \in calls /\ (n = 1 => inbox'[i].call # inbox[1].call)
             \/ i + n \notin DOMAIN inbox /\ inbox'[i].call \in new
  <2>1. CASE i + n \in DOMAIN inbox /\ inbox'[i] = inbox[i + n]
    <3>1. /\ inbox[i + n].call \in calls
          /\ \A k \in DOMAIN inbox : inbox[k].call = inbox[i + n].call => k = i + n
      BY <1>6, <2>1 DEF AnswerInv
    <3>2. n = 1 => i + n # 1
      BY <1>3
    <3> QED BY <1>1, <2>1, <3>1, <3>2
  <2>2. CASE i + n \notin DOMAIN inbox /\ \E c \in new : inbox'[i] = ReplyTo(c, "error")
    BY <2>2 DEF ReplyTo
  <2> QED BY <2>1, <2>2 DEF Moved
<1>7. AnswerInv'
  <2> SUFFICES ASSUME NEW i \in DOMAIN inbox', inbox'[i].call.m \in Begins
               PROVE  /\ inbox'[i].call \in calls'
                      /\ \A k \in DOMAIN inbox' : inbox'[k].call = inbox'[i].call => k = i
    BY DEF AnswerInv
  <2>1. inbox'[i].call \in calls'
    BY <1>2, <1>6
  <2>2. ASSUME NEW k \in DOMAIN inbox', inbox'[k].call = inbox'[i].call PROVE k = i
    <3> DEFINE old(l) == /\ l + n \in DOMAIN inbox /\ inbox'[l] = inbox[l + n]
                         /\ inbox'[l].call \in calls /\ (n = 1 => inbox'[l].call # inbox[1].call)
               made(l) == l + n \notin DOMAIN inbox /\ inbox'[l].call \in new
    <3>1. (old(i) \/ made(i)) /\ (old(k) \/ made(k))
      BY <1>6, <2>2
    <3>2. CASE old(i) /\ old(k)
      <4>1. k + n = i + n
        BY <2>2, <3>2 DEF AnswerInv
      <4> QED BY <1>1, <1>3, <4>1
    <3>3. CASE made(i) /\ made(k)
      BY <3>3 DEF Moved
    <3>4. CASE (old(i) /\ made(k)) \/ (made(i) /\ old(k))
      BY <2>2, <3>4
    <3> QED BY <3>1, <3>2, <3>3, <3>4
  <2> QED BY <2>1, <2>2
<1>8. FprintdTypes'
  BY DEF FprintdTypes, Moved
<1> QED BY <1>4, <1>5, <1>7, <1>8

\* A job that waits has just made a call, or has waited before, and nothing
\* that it waits for has been handled.
LEMMA WaitKept ==
  ASSUME BusTypes, BusTypes', NEW n, NEW new \in SUBSET Numbered, Moved(n, new),
         job' # NoJob /\ (job'.pending \/ job'.ending) =>
           \/ \E c \in new : c.id = job'.id /\ c.m \in JobMethods
           \/ /\ job # NoJob /\ job.id = job'.id /\ (job.pending \/ job.ending)
              /\ n = 1 /\ inbox[1].call.m \in JobMethods => inbox[1].call.id # job.id
  PROVE  Recalls
<1>1. new \subseteq calls' /\ \A c \in calls : c \in calls' \/ (n = 1 /\ c = inbox[1].call)
  BY CallsNow
<1>2. calls \subseteq Numbered /\ calls' \subseteq Numbered
  BY DEF BusTypes
<1> QED BY <1>1, <1>2, OwnMethods DEF Recalls, Forgotten

-----------------------------------------------------------------------------
(* Every step of the client                                                *)

LEMMA PlainCore == ASSUME Core, Plainly PROVE Core' /\ Recalls
<1> USE DEF Core, Types
<1>1. PICK n \in {0, 1}, new \in SUBSET Numbered : PlainMove(n, new)
  BY DEF Plainly
<1> USE DEF PlainMove
<1>2. \A c \in new : c.m \notin Begins
  BY <1>1, OwnMethods
<1>3. calls' \subseteq calls \cup new /\ new \subseteq calls'
      /\ \A c \in calls : c \in calls' \/ (n = 1 /\ c = inbox[1].call)
  BY <1>1, CallsNow
<1>4. BusyInv' /\ DialogInv'
  BY <1>1, <1>3 DEF BusyInv, DialogInv, Clears, ClearsNow
<1>5. \A c \in calls' : c.m \in Begins /\ job' # NoJob /\ c.id = job'.id =>
        job'.pending /\ ~job'.ending
  BY <1>1, <1>2, <1>3 DEF BeginsInv
<1>6. count.jobs <= count'.jobs /\ (job' # NoJob => job'.id <= count'.jobs) /\ JobTypes'
  BY <1>1, CountFacts DEF NumberInv, JobTypes
<1>7. Core'
  <2> HIDE DEF Core, Types, PlainMove
  <2> QED BY <1>1, <1>2, <1>4, <1>5, <1>6, CoreKept DEF PlainMove
<1>8. Recalls
  BY <1>1, WaitKept
<1> QED BY <1>7, <1>8

\* The job is a job still.
LEMMA JobCore ==
  ASSUME Core, job \in Jobs, NEW n, NEW new \in SUBSET Numbered, Moved(n, new), BusTypes',
         CountTypes', ClientTypes', job' \in Jobs, job'.id = job.id, count'.jobs = count.jobs,
         \A c, d \in new : c = d, \A c \in new : c.id = job.id /\ c.m \in JobMethods,
         \A c \in new : c.m \in Begins =>
           /\ \A d \in calls : d.m \in Begins /\ d.id = c.id => n = 1 /\ d = inbox[1].call /\ d # c
           /\ job'.pending /\ ~job'.ending,
         \A c \in calls : c.m \in Begins /\ c.id = job.id /\ (n = 1 => c # inbox[1].call) =>
           job'.pending /\ ~job'.ending,
         dialog' = dialog
  PROVE  /\ Core'
         /\ (\/ ~job'.pending /\ ~job'.ending
             \/ new # {}
             \/ /\ job.pending \/ job.ending
                /\ n = 1 /\ inbox[1].call.m \in JobMethods => inbox[1].call.id # job.id) => Recalls
<1>1. job # NoJob /\ job' # NoJob /\ count.jobs \in Nat
  <2>1. 1..MaxJobs \subseteq Nat \ {0} /\ NoJob.id = 0
    BY RegistryAssumption DEF NoJob
  <2>2. job.id # 0 /\ job'.id # 0
    BY <2>1 DEF Jobs
  <2> QED BY <2>1, <2>2, CountFacts DEF Core, Types
<1>2. job.id <= count.jobs /\ count.jobs <= count'.jobs
  BY <1>1 DEF Core, NumberInv
<1>3. BusyInv' /\ DialogInv' /\ JobTypes'
  BY <1>1 DEF Core, BusyInv, DialogInv, JobTypes
<1>4. \A c \in calls' : c \in new \/ (c \in calls /\ (n = 1 => c # inbox[1].call))
  <2>1. calls' = (IF n = 1 THEN calls \ {inbox[1].call} ELSE calls) \cup new
    BY Zenon DEF Moved
  <2> QED BY <2>1
<1>5. Core'
  BY <1>1, <1>2, <1>3, <1>4, CoreKept
<1>6. ASSUME \/ ~job'.pending /\ ~job'.ending
             \/ new # {}
             \/ /\ job.pending \/ job.ending
                /\ n = 1 /\ inbox[1].call.m \in JobMethods => inbox[1].call.id # job.id
      PROVE  Recalls
  BY <1>1, <1>6, WaitKept DEF Core, Types
<1> QED BY <1>5, <1>6

LEMMA ContinueCore ==
  ASSUME Core, job \in Jobs, inbox # <<>>, NEW j \in Jobs, NEW new \in SUBSET Numbered,
         Continue(j, new), j.id = job.id,
         \A c, d \in new : c = d, \A c \in new : c.id = job.id /\ c.m \in JobMethods,
         \A c \in new : c.m \in Begins =>
           /\ \A d \in calls : d.m \in Begins /\ d.id = c.id => d = inbox[1].call /\ d # c
           /\ j.pending /\ ~j.ending,
         \A c \in calls : c.m \in Begins /\ c.id = job.id /\ c # inbox[1].call =>
           j.pending /\ ~j.ending
  PROVE  /\ Core'
         /\ (\/ ~j.pending /\ ~j.ending
             \/ new # {}
             \/ /\ job.pending \/ job.ending
                /\ inbox[1].call.m \in JobMethods => inbox[1].call.id # job.id) => Recalls
<1>1. /\ job' = j /\ Handle(new) /\ UNCHANGED <<device, busy, shown, dialog, closing, count>>
  BY DEF Continue, gui
<1>2. Moved(1, new) /\ BusTypes'
  BY <1>1, HandleFacts DEF Core, Types
<1>3. ClientTypes' /\ CountTypes' /\ count'.jobs = count.jobs /\ dialog' = dialog
  BY <1>1 DEF ClientTypes, CountTypes, Core, Types
<1> QED BY <1>1, <1>2, <1>3, JobCore

LEMMA CompleteCore ==
  ASSUME Core, inbox # <<>>, NEW j \in Jobs, Complete(j)
  PROVE  Core' /\ Recalls
<1> USE DEF Core, Types
<1> DEFINE known == IF j.success /\ j.mode # "verify" THEN "unknown" ELSE shown[j.user]
           again == RefreshCalls({j.user}, ~closing /\ known = "unknown" /\ device # 0)
<1>1. /\ job' = NoJob /\ busy' = (again # {}) /\ shown' = [shown EXCEPT ![j.user] = known]
      /\ count' = IF again = {} THEN count ELSE [count EXCEPT !.refreshes = @ + 1]
      /\ Handle(again) /\ UNCHANGED <<device, closing>> /\ dialog' \in {Ended, Finished}
  BY DEF Complete, Done
<1>2. j.user \in Users /\ known \in {"unknown", "yes", "no"}
  BY DEF Jobs, ClientTypes
<1>3. /\ again \in SUBSET Numbered /\ \A c \in again : c.m = "List"
      /\ \A c, d \in again : c = d
  <2>1. {j.user} \in SUBSET Users
    BY <1>2
  <2> QED BY <2>1, RefreshFacts
<1> HIDE DEF again, known
<1>4. Moved(1, again) /\ BusTypes'
  BY <1>1, <1>3, HandleFacts
<1>5. CountTypes' /\ count'.jobs = count.jobs /\ count.jobs \in Nat
  <2>1. CASE again = {}
    BY <1>1, <2>1, CountFacts DEF CountTypes
  <2>2. CASE again # {}
    BY <1>1, <2>2, CountFacts
  <2> QED BY <2>1, <2>2
<1>6. dialog' \in Dialogs /\ dialog' # Running
  BY <1>1 DEF Dialogs, Ended, Finished, Running
<1>7. ClientTypes' /\ JobTypes'
  BY <1>1, <1>2, <1>6 DEF ClientTypes, JobTypes
<1>8. BusyInv' /\ DialogInv'
  BY <1>1, <1>3, <1>4, <1>6, CallsNow DEF BusyInv, Clears, DialogInv
<1>9. \A c \in again : c.m \notin Begins
  BY <1>3 DEF Begins
<1>10. Core'
  <2>1. count.jobs <= count'.jobs
    BY <1>5
  <2> HIDE DEF Core, Types
  <2> QED BY <1>1, <1>3, <1>4, <1>5, <1>7, <1>8, <1>9, <2>1, CoreKept
<1>11. Recalls
  BY <1>1 DEF Recalls, Forgotten
<1> QED BY <1>10, <1>11

\* What handles the last call that begins the job, or news, leaves it to finish.
LEMMA FinishCore ==
  ASSUME Core, job \in Jobs, inbox # <<>>, NEW j \in Jobs, NEW success \in BOOLEAN,
         Finish(j, success), j.id = job.id, ~j.ending,
         j.pending => /\ job.pending
                      /\ inbox[1].call.m \in JobMethods => inbox[1].call.id # job.id,
         \A c \in calls : c.m \in Begins /\ c.id = job.id /\ c # inbox[1].call => j.pending
  PROVE  Core' /\ Recalls
<1>1. CASE j.pending
  <2> DEFINE t == IF success THEN "yes" ELSE "no"
             k == [j EXCEPT !.terminal = t]
  <2>1. Continue(k, {})
    BY <1>1 DEF Finish
  <2>2. k \in Jobs /\ k.id = j.id /\ k.pending = j.pending /\ k.ending = j.ending
    BY DEF Jobs
  <2> HIDE DEF k, t
  <2>3. {} \in SUBSET Numbered
    OBVIOUS
  <2> QED BY <1>1, <2>1, <2>2, <2>3, ContinueCore
<1>2. CASE ~j.pending
  <2> DEFINE e == [j EXCEPT !.ending = TRUE, !.success = success]
             call(m) == JobCall(m, j)
  <2>1. e \in Jobs /\ e.id = j.id /\ e.pending = j.pending /\ e.ending
    BY DEF Jobs
  <2>2. IF j.started THEN Continue(e, {call("Stop")})
        ELSE IF j.claimed THEN Continue(e, {call("Release")}) ELSE Complete(e)
    BY <1>2 DEF Finish
  <2>3. ASSUME NEW m \in {"Stop", "Release"}
        PROVE  /\ call(m) \in Numbered /\ call(m).id = job.id
               /\ call(m).m \in JobMethods /\ call(m).m \notin Begins
    <3>1. j.id \in Nat /\ j.user \in Users /\ m \in JobMethods /\ m \notin Begins
      BY RegistryAssumption DEF Jobs, JobMethods, Begins
    <3> QED BY <3>1, CallFacts DEF JobCall
  <2> HIDE DEF e, call
  <2>4. ASSUME NEW m \in {"Stop", "Release"}, Continue(e, {call(m)}) PROVE Core' /\ Recalls
    <3> DEFINE new == {call(m)}
    <3>1. /\ new \in SUBSET Numbered /\ \A c, d \in new : c = d
          /\ \A c \in new : c.id = job.id /\ c.m \in JobMethods /\ c.m \notin Begins
          /\ new # {}
      BY <2>3
    <3>2. Continue(e, new)
      BY <2>4
    <3> HIDE DEF new
    <3> QED BY <1>2, <2>1, <3>1, <3>2, ContinueCore
  <2>5. CASE j.started
    BY <2>2, <2>4, <2>5
  <2>6. CASE ~j.started /\ j.claimed
    BY <2>2, <2>4, <2>6
  <2>7. CASE ~j.started /\ ~j.claimed
    BY <2>1, <2>2, <2>7, CompleteCore
  <2> QED BY <2>5, <2>6, <2>7
<1> QED BY <1>1, <1>2

\* An answer that is nobody's any more.
LEMMA StaleCore ==
  ASSUME Core, inbox # <<>>, ~Clears(inbox[1].call), Handle({}), UNCHANGED <<client, count>>,
         job # NoJob /\ inbox[1].call.m \in JobMethods => inbox[1].call.id # job.id
  PROVE  Core' /\ Recalls
<1> USE DEF Core, Types
<1>1. Moved(1, {}) /\ BusTypes' /\ {} \in SUBSET Numbered
  BY HandleFacts
<1>2. UNCHANGED <<device, busy, job, shown, dialog, closing, count>>
  BY DEF client, gui
<1>3. ClientTypes' /\ CountTypes' /\ JobTypes' /\ count.jobs <= count'.jobs
  BY <1>2, CountFacts DEF ClientTypes, CountTypes, JobTypes
<1>4. BusyInv' /\ DialogInv'
  BY <1>1, <1>2, CallsNow DEF BusyInv, DialogInv, Clears
<1>5. \A c \in calls' : c.m \in Begins /\ job' # NoJob /\ c.id = job'.id =>
        job'.pending /\ ~job'.ending
  BY <1>1, <1>2, CallsNow DEF BeginsInv
<1>6. Core'
  <2>1. job' # NoJob => job'.id <= count'.jobs
    BY <1>2 DEF NumberInv
  <2> HIDE DEF Core, Types
  <2> QED BY <1>1, <1>3, <1>4, <1>5, <2>1, CoreKept
<1>7. Recalls
  BY <1>1, <1>2, WaitKept
<1> QED BY <1>6, <1>7

LEMMA CoreJob ==
  ASSUME Core, job # NoJob
  PROVE  job \in Jobs /\ job.id \in Nat /\ job.user \in Users /\ job.mode \in Modes
BY RegistryAssumption DEF Core, Types, JobTypes, Jobs

\* The answer to a call that begins a job.
LEMMA BeginFacts ==
  ASSUME Core, NEW methods \in SUBSET Begins, Returned(methods)
  PROVE  /\ inbox # <<>> /\ Msg = inbox[1] /\ Msg.call \in calls /\ Msg.call.m \in methods
         /\ ~Clears(inbox[1].call)
         /\ Mine => /\ job \in Jobs /\ job.id = Msg.call.id /\ job.pending /\ ~job.ending
                    /\ job.id \in Nat /\ job.user \in Users /\ job.mode \in Modes
                    /\ \A c \in calls : c.m \in Begins /\ c.id = job.id => c = Msg.call
<1>1. /\ inbox # <<>> /\ Msg = inbox[1] /\ 1 \in DOMAIN inbox /\ Msg.call.m \in methods
  BY ReplyFacts DEF Core, Types
<1>2. Msg.call \in calls /\ ~Clears(inbox[1].call)
  BY <1>1 DEF Core, AnswerInv, Clears, Begins, Linking
<1>3. ASSUME Mine
      PROVE  /\ job \in Jobs /\ job.id = Msg.call.id /\ job.pending /\ ~job.ending
             /\ job.id \in Nat /\ job.user \in Users /\ job.mode \in Modes
             /\ \A c \in calls : c.m \in Begins /\ c.id = job.id => c = Msg.call
  BY <1>1, <1>2, <1>3, CoreJob DEF Core, BeginsInv, Mine
<1> QED BY <1>1, <1>2, <1>3

\* The one step that forgets a job: claimed, which finds no device.
LEMMA ClaimedCore == ASSUME Core, Claimed PROVE Core' /\ (Recalls \/ DeviceMissing)
<1>1. Returned({"Claim"}) /\ {"Claim"} \in SUBSET Begins
  BY DEF Claimed, Begins
<1>2. /\ inbox # <<>> /\ Msg = inbox[1] /\ Msg.call \in calls /\ Msg.call.m = "Claim"
      /\ ~Clears(inbox[1].call)
  BY <1>1, BeginFacts
<1>3. CASE ~Mine /\ Stale
  BY <1>2, <1>3, StaleCore DEF Mine, Stale
<1>4. CASE Mine
  <2>1. /\ job \in Jobs /\ job.id = Msg.call.id /\ job.pending /\ ~job.ending
        /\ job.id \in Nat /\ job.user \in Users /\ job.mode \in Modes
        /\ \A c \in calls : c.m \in Begins /\ c.id = job.id => c = inbox[1].call
    BY <1>1, <1>2, <1>4, BeginFacts
  <2>2. CASE Finish([job EXCEPT !.pending = FALSE], FALSE)
    <3> DEFINE j == [job EXCEPT !.pending = FALSE]
    <3>1. j \in Jobs /\ j.id = job.id /\ ~j.pending /\ ~j.ending /\ Finish(j, FALSE)
      BY <2>1, <2>2 DEF Jobs
    <3> HIDE DEF j
    <3> QED BY <1>2, <2>1, <3>1, FinishCore
  <2>3. CASE Finish([job EXCEPT !.pending = FALSE, !.claimed = TRUE], FALSE)
    <3> DEFINE j == [job EXCEPT !.pending = FALSE, !.claimed = TRUE]
    <3>1. j \in Jobs /\ j.id = job.id /\ ~j.pending /\ ~j.ending /\ Finish(j, FALSE)
      BY <2>1, <2>3 DEF Jobs
    <3> HIDE DEF j
    <3> QED BY <1>2, <2>1, <3>1, FinishCore
  <2>4. CASE /\ Msg.value = "ok" /\ ~job.cancel
             /\ Continue([job EXCEPT !.claimed = TRUE, !.mutation = job.mode = "delete"],
                         IF device = 0 THEN {} ELSE {JobCall(StartOf[job.mode], job)})
    <3> DEFINE b == job.mode = "delete"
               j == [job EXCEPT !.claimed = TRUE, !.mutation = b]
               c == JobCall(StartOf[job.mode], job)
               new == IF device = 0 THEN {} ELSE {c}
    <3>1. b \in BOOLEAN /\ Continue(j, new)
      BY <2>4
    <3> HIDE DEF b
    <3>2. j \in Jobs /\ j.id = job.id /\ j.pending /\ ~j.ending
      BY <2>1, <3>1 DEF Jobs
    <3>3. StartOf[job.mode] \in JobMethods \ {"Claim"}
      BY <2>1 DEF StartOf, Modes, JobMethods
    <3>4. c \in Numbered /\ c.m \in JobMethods \ {"Claim"} /\ c.id = job.id
      BY <2>1, <3>3, CallFacts DEF JobCall
    <3> HIDE DEF j, c
    <3>5. /\ new \in SUBSET Numbered /\ \A d, e \in new : d = e
          /\ \A d \in new : d.m \in JobMethods /\ d.m # "Claim" /\ d.id = job.id
          /\ device # 0 => new # {}
      BY <3>4
    <3> HIDE DEF new
    <3>6. \A d \in new : \A e \in calls : e.m \in Begins /\ e.id = d.id => e = inbox[1].call /\ e # d
      BY <1>2, <2>1, <3>5
    <3>7. Core' /\ (new # {} => Recalls)
      BY <1>2, <2>1, <3>1, <3>2, <3>5, <3>6, ContinueCore
    <3> QED BY <1>1, <1>4, <2>4, <3>5, <3>7 DEF DeviceMissing
  <2> QED BY <1>4, <2>2, <2>3, <2>4 DEF Claimed
<1> QED BY <1>3, <1>4 DEF Claimed

LEMMA StartedCore == ASSUME Core, Started PROVE Core' /\ Recalls
<1> DEFINE starts == {"EnrollStart", "VerifyStart", "Delete"}
<1>1. Returned(starts) /\ starts \in SUBSET Begins
  BY DEF Started, Begins
<1>2. /\ inbox # <<>> /\ Msg = inbox[1] /\ Msg.call \in calls /\ ~Clears(inbox[1].call)
  BY <1>1, BeginFacts
<1>3. CASE ~Mine /\ Stale
  BY <1>2, <1>3, StaleCore DEF Mine, Stale
<1>4. CASE Mine
  <2>1. /\ job \in Jobs /\ job.id = Msg.call.id /\ ~job.ending
        /\ \A c \in calls : c.m \in Begins /\ c.id = job.id => c = inbox[1].call
    BY <1>1, <1>2, <1>4, BeginFacts
  <2> DEFINE b == job.mode # "delete"
             failed == [job EXCEPT !.pending = FALSE]
             on == [failed EXCEPT !.started = b]
  <2>2. Finish(failed, FALSE) \/ (\E s \in BOOLEAN : Finish(on, s)) \/ Continue(on, {})
    BY <1>4 DEF Started
  <2>3. b \in BOOLEAN
    OBVIOUS
  <2>4. /\ failed \in Jobs /\ failed.id = job.id /\ ~failed.pending /\ ~failed.ending
        /\ on \in Jobs /\ on.id = job.id /\ ~on.pending /\ ~on.ending
    <3> HIDE DEF b
    <3> QED BY <2>1, <2>3 DEF Jobs
  <2> HIDE DEF failed, on, b
  <2>5. CASE Finish(failed, FALSE) \/ \E s \in BOOLEAN : Finish(on, s)
    BY <1>2, <2>1, <2>4, <2>5, FinishCore
  <2>6. CASE Continue(on, {})
    <3>1. {} \in SUBSET Numbered
      OBVIOUS
    <3> QED BY <1>2, <2>1, <2>4, <2>6, <3>1, ContinueCore
  <2> QED BY <2>2, <2>5, <2>6
<1> QED BY <1>3, <1>4 DEF Started

LEMMA StoppedCore == ASSUME Core, Stopped PROVE Core' /\ Recalls
<1> USE DEF Core, Types
<1> DEFINE c == [Msg.call EXCEPT !.m = "Release"]
           new == {c}
<1>1. /\ inbox # <<>> /\ Msg = inbox[1] /\ Msg.call \in Numbered /\ Msg.call.m = "Stop"
  BY ReplyFacts DEF Stopped
<1>2. Handle(new) /\ UNCHANGED <<device, busy, job, shown, dialog, closing, count>>
  BY DEF Stopped, client, gui
<1>3. c \in Numbered /\ c.m = "Release" /\ c.id = Msg.call.id
  BY <1>1 DEF Numbered, Calls, Linking, Asking, Methods
<1> HIDE DEF c
<1>4. /\ new \in SUBSET Numbered /\ (\A d, e \in new : d = e)
      /\ \A d \in new : d.m \notin Begins
  BY <1>3 DEF Begins
<1>5. c \in new /\ c.m \in JobMethods
  BY <1>3 DEF JobMethods
<1> HIDE DEF new
<1>6. Moved(1, new) /\ BusTypes'
  BY <1>1, <1>2, <1>4, HandleFacts
<1>7. ClientTypes' /\ CountTypes' /\ JobTypes' /\ count.jobs <= count'.jobs
  BY <1>2, CountFacts DEF ClientTypes, CountTypes, JobTypes
<1>8. BusyInv' /\ DialogInv'
  <2>1. ~Clears(inbox[1].call)
    BY <1>1 DEF Clears, Linking
  <2> QED BY <1>2, <1>6, <2>1, CallsNow DEF BusyInv, DialogInv, Clears
<1>9. \A d \in calls' : d.m \in Begins /\ job' # NoJob /\ d.id = job'.id =>
        job'.pending /\ ~job'.ending
  BY <1>2, <1>4, <1>6, CallsNow DEF BeginsInv
<1>10. Core'
  <2>1. job' # NoJob => job'.id <= count'.jobs
    BY <1>2 DEF NumberInv
  <2> HIDE DEF Core, Types
  <2> QED BY <1>4, <1>6, <1>7, <1>8, <1>9, <2>1, CoreKept
<1>11. Recalls
  <2>1. job' # NoJob /\ (job'.pending \/ job'.ending) =>
          \/ \E d \in new : d.id = job'.id /\ d.m \in JobMethods
          \/ /\ job # NoJob /\ job.id = job'.id /\ (job.pending \/ job.ending)
             /\ 1 = 1 /\ inbox[1].call.m \in JobMethods => inbox[1].call.id # job.id
    BY <1>1, <1>2, <1>3, <1>5
  <2> QED BY <1>4, <1>6, <2>1, WaitKept
<1> QED BY <1>10, <1>11

LEMMA ReleasedCore == ASSUME Core, Released PROVE Core' /\ Recalls
<1>1. /\ inbox # <<>> /\ Msg = inbox[1] /\ Msg.call.m = "Release"
  BY ReplyFacts DEF Core, Types, Released
<1>2. ~Clears(inbox[1].call)
  BY <1>1 DEF Clears, Linking
<1>3. CASE ~Mine
  BY <1>1, <1>2, <1>3, StaleCore DEF Stale, Released, Mine
<1>4. CASE Mine
  BY <1>1, <1>4, CoreJob, CompleteCore DEF Released, Mine
<1> QED BY <1>3, <1>4

LEMMA StatusCore == ASSUME Core, Status PROVE Core' /\ Recalls
<1>1. /\ inbox # <<>> /\ inbox[1].call = NoCall /\ ~Clears(inbox[1].call)
  BY NewsFacts DEF Status, Core
<1>2. CASE Stale
  BY <1>1, <1>2, StaleCore, OwnMethods DEF Stale
<1>3. CASE job # NoJob /\ ~job.ending /\ Finish(job, Msg.value = "ok")
  <2>1. job \in Jobs /\ (Msg.value = "ok") \in BOOLEAN
    BY <1>3, CoreJob
  <2>2. \A c \in calls : c.m \in Begins /\ c.id = job.id => job.pending
    BY <1>3 DEF Core, BeginsInv
  <2> QED BY <1>1, <1>3, <2>1, <2>2, OwnMethods, FinishCore
<1> QED BY <1>2, <1>3 DEF Status

LEMMA OwnerChangedCore == ASSUME Core, OwnerChanged PROVE Core' /\ Recalls
<1> USE DEF Core, Types
<1>1. /\ inbox # <<>> /\ inbox[1].call = NoCall /\ ~Clears(inbox[1].call)
      /\ Handle({}) /\ UNCHANGED count
  BY NewsFacts DEF OwnerChanged
<1>2. CASE device = 0
  BY <1>1, <1>2, StaleCore, OwnMethods DEF OwnerChanged
<1>3. CASE device # 0
  <2>1. /\ device' = 0 /\ busy' = FALSE /\ job' = NoJob
        /\ shown' = [u \in Users |-> "unknown"] /\ closing' = closing
        /\ IF job = NoJob THEN dialog' = dialog ELSE dialog' \in {Ended, Finished}
    BY <1>3 DEF OwnerChanged, gui, Done
  <2>2. Moved(1, {}) /\ BusTypes' /\ {} \in SUBSET Numbered
    BY <1>1, HandleFacts
  <2>3. dialog' \in Dialogs /\ dialog' # Running
    BY <2>1 DEF DialogInv, ClientTypes, Dialogs, Ended, Finished, Running
  <2>4. 0 \in 0..MaxConnects
    BY RegistryAssumption
  <2>5. ClientTypes' /\ CountTypes' /\ JobTypes' /\ count.jobs <= count'.jobs
    <3>1. UNCHANGED count /\ CountTypes'
      BY <1>1 DEF CountTypes
    <3>2. ClientTypes' /\ JobTypes'
      BY <2>1, <2>3, <2>4 DEF ClientTypes, JobTypes
    <3>3. count.jobs \in Nat
      BY CountFacts
    <3> QED BY <3>1, <3>2, <3>3
  <2>6. BusyInv' /\ DialogInv'
    BY <2>1, <2>3 DEF BusyInv, DialogInv
  <2>7. Core'
    <3> HIDE DEF Core, Types
    <3> QED BY <2>1, <2>2, <2>5, <2>6, CoreKept
  <2>8. Recalls
    BY <2>1 DEF Recalls, Forgotten
  <2> QED BY <2>7, <2>8
<1> QED BY <1>2, <1>3

LEMMA CancelCore == ASSUME Core, Cancel, closing' \in BOOLEAN PROVE Core' /\ Recalls
<1>1. /\ job \in Jobs /\ job # NoJob /\ ~job.ending
      /\ job.id \in Nat /\ job.user \in Users
  BY CoreJob DEF Cancel
<1>2. UNCHANGED <<device, busy, shown, dialog, count>>
  BY DEF Cancel
<1>3. ClientTypes' /\ CountTypes'
  BY <1>2 DEF ClientTypes, CountTypes, Core, Types
<1> DEFINE j == [job EXCEPT !.cancel = TRUE]
<1>4. \A c \in calls : c.m \in Begins /\ c.id = job.id => job.pending
  BY <1>1 DEF Core, BeginsInv
<1>5. CASE job.pending
  <2>1. job' = [j EXCEPT !.terminal = "no"] /\ Make({})
    BY <1>5 DEF Cancel
  <2>2. job' \in Jobs /\ job'.id = job.id /\ job'.pending = job.pending /\ job'.ending = job.ending
    BY <1>1, <2>1 DEF Jobs
  <2>3. {} \in SUBSET Numbered
    OBVIOUS
  <2>4. Moved(0, {}) /\ BusTypes'
    BY <2>1, <2>3, MakeFacts DEF Core, Types
  <2> QED BY <1>1, <1>2, <1>3, <1>5, <2>2, <2>3, <2>4, JobCore
<1>6. CASE ~job.pending
  <2> DEFINE c == JobCall("Stop", job)
             new == {c}
  <2>1. job' = [j EXCEPT !.ending = TRUE] /\ Make(new)
    BY <1>6 DEF Cancel
  <2>2. job' \in Jobs /\ job'.id = job.id
    BY <1>1, <2>1 DEF Jobs
  <2>3. c \in Numbered /\ c.m \in JobMethods /\ c.m \notin Begins /\ c.id = job.id
    BY <1>1, CallFacts DEF JobCall, JobMethods, Begins
  <2> HIDE DEF c
  <2>4. /\ new \in SUBSET Numbered /\ (\A d, e \in new : d = e) /\ new # {}
        /\ \A d \in new : d.m \in JobMethods /\ d.m \notin Begins /\ d.id = job.id
    BY <2>3
  <2> HIDE DEF new
  <2>5. Moved(0, new) /\ BusTypes'
    BY <2>1, <2>4, MakeFacts DEF Core, Types
  <2> QED BY <1>1, <1>2, <1>3, <1>4, <1>6, <2>2, <2>4, <2>5, JobCore
<1> QED BY <1>5, <1>6

LEMMA CloseCore == ASSUME Core, PressAvbryt \/ Close PROVE Core' /\ Recalls
<1>1. CASE Cancel /\ closing' \in BOOLEAN
  BY <1>1, CancelCore
<1>2. CASE WaitToClose
  BY <1>2, CloseWaits, PlainCore DEF Core
<1> QED BY <1>1, <1>2 DEF PressAvbryt, Close, WaitToClose, Core, Types, ClientTypes

\* A dialog that is ready means that there is no job.
LEMMA StartCore ==
  ASSUME Core, NEW mode \in Modes, NEW u \in Users, Start(mode, u)
  PROVE  Core' /\ Recalls /\ job = NoJob
<1> USE DEF Core, Types
<1> DEFINE k == count.jobs + 1
           j == [id |-> k, mode |-> mode, user |-> u,
                 claimed |-> FALSE, started |-> FALSE, pending |-> TRUE,
                 cancel |-> FALSE, ending |-> FALSE, mutation |-> FALSE,
                 terminal |-> "none", success |-> FALSE]
           c == Call("Claim", k, u, {})
           new == {c}
<1>1. count.jobs \in Nat
  BY CountFacts
<1>2. /\ dialog = Ready(mode, u) /\ dialog' = Running /\ busy' = TRUE /\ job' = j
      /\ UNCHANGED <<device, shown, closing>>
  BY DEF Start
<1>3. count.jobs < MaxJobs /\ count' = [count EXCEPT !.jobs = @ + 1] /\ Make({JobCall("Claim", job')})
  BY DEF Start
<1>4. JobCall("Claim", job') = c /\ Make(new)
  BY <1>2, <1>3 DEF JobCall
<1>5. k \in 1..MaxJobs /\ k \in Nat /\ CountTypes' /\ count'.jobs = k /\ count.jobs < k
  BY <1>1, <1>3, CountFacts
<1>6. \A i \in Nat : i <= count.jobs => i # k
  BY <1>1
<1> HIDE DEF k
<1>7. job' \in Jobs /\ job'.id = k /\ job'.pending /\ ~job'.ending
  BY <1>2, <1>5 DEF Jobs
<1>8. job' # NoJob
  BY <1>2, <1>5, <1>7 DEF NoJob
<1> HIDE DEF j
<1>9. c \in Numbered /\ c.m = "Claim" /\ c.id = k
  BY <1>5, CallFacts DEF JobMethods
<1> HIDE DEF c
<1>10. /\ new \in SUBSET Numbered /\ (\A d, e \in new : d = e) /\ c \in new
       /\ \A d \in new : d.id = k
  BY <1>9
<1> HIDE DEF new
<1>11. Moved(0, new) /\ BusTypes'
  BY <1>4, <1>10, MakeFacts
<1>12. job = NoJob
  BY <1>2 DEF DialogInv, Ready, Running
<1>13. ClientTypes' /\ JobTypes' /\ BusyInv' /\ DialogInv'
  BY <1>2, <1>7, <1>8 DEF ClientTypes, JobTypes, Dialogs, BusyInv, DialogInv
<1>14. \A d \in calls : d.m \in Begins => d.id # k
  <2>1. \A d \in calls : d.id \in Nat
    BY DEF BusTypes, Numbered, Calls
  <2> QED BY <1>6, <2>1 DEF NumberInv
<1>15. Core'
  <2>1. count.jobs <= count'.jobs /\ job'.id <= count'.jobs /\ k <= count'.jobs
    BY <1>1, <1>5, <1>7
  <2> HIDE DEF Core, Types
  <2> QED BY <1>5, <1>7, <1>8, <1>10, <1>11, <1>13, <1>14, <2>1, CoreKept
<1>16. Recalls
  <2>1. c.id = job'.id /\ c.m \in JobMethods
    BY <1>7, <1>9 DEF JobMethods
  <2> QED BY <1>10, <1>11, <2>1, WaitKept
<1> QED BY <1>12, <1>15, <1>16

-----------------------------------------------------------------------------
(* Every step of fprintd and the bus                                       *)

\* The client is left as it is, and no call of it is answered twice.
LEMMA BusCore ==
  ASSUME Core, BusTypes', CountTypes', FprintdTypes', UNCHANGED <<client, calls>>,
         count'.jobs = count.jobs, count'.connects = count.connects, AnswerInv'
  PROVE  Core' /\ Recalls
<1>1. UNCHANGED <<device, busy, job, shown, dialog, closing, calls>>
  BY DEF client, gui
<1>2. ClientTypes' /\ JobTypes'
  BY <1>1 DEF Core, Types, ClientTypes, JobTypes
<1>3. NumberInv' /\ BeginsInv' /\ BusyInv' /\ DialogInv'
  BY <1>1 DEF Core, NumberInv, BeginsInv, BusyInv, Clears, DialogInv
<1>4. Recalls
  BY <1>1 DEF Recalls, Forgotten
<1> QED BY <1>2, <1>3, <1>4 DEF Core, Types

LEMMA AnswerCore ==
  ASSUME Core, NEW c \in Numbered, NEW v, ReplyTo(c, v) \in Messages, Answer(c, v),
         UNCHANGED <<client, calls, count>>, FprintdTypes',
         sent' \in Seq(Numbered), asked' \subseteq asked
  PROVE  Core' /\ Recalls
<1> USE DEF Core, Types
<1>1. /\ inbox' \in Seq(Messages)
      /\ \A i \in DOMAIN inbox' :
           \/ i \in DOMAIN inbox /\ inbox'[i] = inbox[i]
           \/ /\ i \notin DOMAIN inbox /\ inbox'[i] = ReplyTo(c, v)
              /\ c \in calls /\ NotAnswered(c)
      /\ \A i, k \in DOMAIN inbox' : i \notin DOMAIN inbox /\ k \notin DOMAIN inbox => i = k
  BY AnswerFacts
<1>2. BusTypes' /\ CountTypes'
  BY <1>1 DEF BusTypes, CountTypes
<1>3. AnswerInv'
  <2> SUFFICES ASSUME NEW i \in DOMAIN inbox', inbox'[i].call.m \in Begins
               PROVE  /\ inbox'[i].call \in calls
                      /\ \A k \in DOMAIN inbox' : inbox'[k].call = inbox'[i].call => k = i
    BY DEF AnswerInv
  <2>1. CASE i \in DOMAIN inbox /\ inbox'[i] = inbox[i]
    <3>1. /\ inbox[i].call \in calls
          /\ \A k \in DOMAIN inbox : inbox[k].call = inbox[i].call => k = i
      BY <2>1 DEF AnswerInv
    <3>2. \A k \in DOMAIN inbox' : k \notin DOMAIN inbox => inbox'[k].call # inbox[i].call
      BY <1>1, <2>1 DEF NotAnswered, ReplyTo
    <3> QED BY <1>1, <2>1, <3>1, <3>2
  <2>2. CASE i \notin DOMAIN inbox
    <3>1. inbox'[i].call = c /\ c \in calls /\ NotAnswered(c)
      BY <1>1, <2>2 DEF ReplyTo
    <3>2. \A k \in DOMAIN inbox' : inbox'[k].call = c => k \notin DOMAIN inbox
      BY <1>1, <3>1 DEF NotAnswered
    <3> QED BY <1>1, <2>2, <3>1, <3>2
  <2> QED BY <1>1, <2>1, <2>2
<1> HIDE DEF Core, Types
<1> QED BY <1>2, <1>3, BusCore

LEMMA RefuseCore ==
  ASSUME Core, NEW c, Refuse(c) \/ (c \in calls /\ Timeout(c)) PROVE Core' /\ Recalls
<1>1. /\ Answer(c, "error") /\ UNCHANGED <<client, calls, count, sent, claimed, action, stored>>
      /\ asked' \subseteq asked /\ c \in Numbered
  BY DEF Refuse, Timeout, fprintd, Core, Types, BusTypes
<1>2. ReplyTo(c, "error") \in Messages
  BY <1>1, ReplyTyped
<1>3. FprintdTypes' /\ sent' \in Seq(Numbered)
  BY <1>1 DEF Core, Types, FprintdTypes, BusTypes
<1> QED BY <1>1, <1>2, <1>3, AnswerCore

LEMMA GrantCore == ASSUME Core, NEW c \in asked, Grant(c) PROVE Core' /\ Recalls
<1>1. /\ c \in Numbered /\ asked' \subseteq asked /\ UNCHANGED <<client, calls, count, sent>>
  BY GrantFacts DEF Core
<1>2. PICK v \in {"ok", "error", "yes", "no"} :
        /\ Answer(c, v) /\ (c.m = "List" => v \in {"yes", "no", "error"})
        /\ FprintdTypes'
  BY GrantFacts DEF Core
<1>3. ReplyTo(c, v) \in Messages
  BY <1>1, <1>2, ReplyTyped
<1>4. sent' \in Seq(Numbered)
  BY <1>1 DEF Core, Types, BusTypes
<1> QED BY <1>1, <1>2, <1>3, <1>4, AnswerCore

LEMMA ReadCore == ASSUME Core, Read PROVE Core' /\ Recalls
<1> DEFINE c == Head(sent)
<1>1. /\ c \in Numbered /\ sent' = Tail(sent) /\ Tail(sent) \in Seq(Numbered)
      /\ UNCHANGED <<client, calls, count>>
  BY TailFacts DEF Core, Types, BusTypes, Read
<1>2. CASE Puts(c)
  <2>1. /\ asked' = asked \cup {c} /\ c.m \in Asking /\ UNCHANGED <<inbox, claimed, action, stored>>
    BY <1>2 DEF Puts, fprintd
  <2> HIDE DEF c
  <2>2. BusTypes' /\ CountTypes' /\ FprintdTypes'
    BY <1>1, <2>1 DEF Core, Types, BusTypes, CountTypes, FprintdTypes
  <2>3. AnswerInv'
    BY <1>1, <2>1 DEF Core, AnswerInv
  <2> QED BY <1>1, <2>2, <2>3, BusCore
<1>3. CASE ~Puts(c)
  <2>1. PICK v \in {"ok", "error", "none"} :
          /\ Answer(c, v) /\ asked' = asked /\ FprintdTypes'
          /\ c.m \in Linking \cup {"Stop", "Release"}
    BY <1>3, ReadAnswers DEF Core
  <2> HIDE DEF c
  <2>2. ReplyTo(c, v) \in Messages
    BY <1>1, <2>1, ReplyTyped DEF Linking
  <2> QED BY <1>1, <2>1, <2>2, AnswerCore
<1> QED BY <1>2, <1>3

LEMMA ScanCore == ASSUME Core, NEW ok \in BOOLEAN, Scan(ok) PROVE Core' /\ Recalls
<1> USE DEF Core, Types
<1> DEFINE s == [kind |-> "status", call |-> NoCall, mode |-> action,
                 value |-> IF ok THEN "ok" ELSE "error"]
           n == Len(inbox)
<1>1. /\ action \in {"enroll", "verify"} /\ action' = "done"
      /\ UNCHANGED <<client, calls, sent, asked, claimed, count>>
  BY DEF Scan
<1>2. s \in Messages /\ s.call = NoCall /\ inbox \in Seq(Messages)
  BY <1>1 DEF Messages, BusTypes
<1>3. \/ inbox' = Append(inbox, s)
      \/ n > 0 /\ inbox' = SubSeq(inbox, 1, n - 1) \o <<s, inbox[n]>>
  BY DEF Scan
<1>4. n = Len(inbox) /\ n \in Nat /\ DOMAIN inbox = 1..n
  BY <1>2
<1> HIDE DEF s, n
\* The last message may be put off by one.
<1>5. PICK l \in Nat : \A i \in DOMAIN inbox' :
        \/ inbox'[i] = s
        \/ i \in DOMAIN inbox /\ i < l /\ inbox'[i] = inbox[i]
        \/ i = l + 1 /\ l \in DOMAIN inbox /\ inbox'[i] = inbox[l]
  <2>1. CASE inbox' = Append(inbox, s)
    <3>1. \A i \in DOMAIN inbox' :
            (i \in DOMAIN inbox /\ inbox'[i] = inbox[i]) \/ (i = Len(inbox) + 1 /\ inbox'[i] = s)
      BY <1>2, <2>1, AppendFacts
    <3>2. n + 1 \in Nat /\ \A i \in DOMAIN inbox : i < n + 1
      BY <1>4
    <3> QED BY <3>1, <3>2
  <2>2. CASE n > 0 /\ inbox' = SubSeq(inbox, 1, n - 1) \o <<s, inbox[n]>>
    <3>1. /\ DOMAIN inbox' = 1..(n + 1)
          /\ \A i \in 1..(n - 1) : inbox'[i] = inbox[i]
          /\ inbox'[n] = s /\ inbox'[n + 1] = inbox[n]
      BY <1>2, <1>4, <2>2, InsertFacts
    <3>2. /\ \A i \in 1..(n + 1) : i \in 1..(n - 1) \/ i = n \/ i = n + 1
          /\ \A i \in 1..(n - 1) : i \in DOMAIN inbox /\ i < n
          /\ n \in DOMAIN inbox
      BY <1>4, <2>2
    <3> QED BY <1>4, <3>1, <3>2
  <2> QED BY <1>3, <2>1, <2>2
<1>6. BusTypes' /\ CountTypes' /\ FprintdTypes'
  <2>1. inbox' \in Seq(Messages)
    BY ScanFacts
  <2>2. BusTypes' /\ CountTypes'
    BY <1>1, <2>1 DEF BusTypes, CountTypes
  <2>3. FprintdTypes'
    BY <1>1 DEF Scan, FprintdTypes
  <2> QED BY <2>2, <2>3
<1>7. AnswerInv'
  <2> SUFFICES ASSUME NEW i \in DOMAIN inbox', inbox'[i].call.m \in Begins
               PROVE  /\ inbox'[i].call \in calls
                      /\ \A k \in DOMAIN inbox' : inbox'[k].call = inbox'[i].call => k = i
    BY <1>1 DEF AnswerInv
  <2> DEFINE from(k) == IF k = l + 1 /\ l \in DOMAIN inbox THEN l ELSE k
  <2>1. s.call.m \notin Begins
    BY <1>2, OwnMethods
  <2>2. ASSUME NEW k \in DOMAIN inbox', inbox'[k].call = inbox'[i].call
        PROVE  \/ k \in DOMAIN inbox /\ k < l /\ inbox'[k] = inbox[k]
               \/ k = l + 1 /\ l \in DOMAIN inbox /\ inbox'[k] = inbox[l]
    BY <1>5, <2>1, <2>2
  <2>3. ASSUME NEW a \in DOMAIN inbox, NEW b \in DOMAIN inbox,
               inbox[a].call = inbox[b].call, inbox[a].call.m \in Begins
        PROVE  a = b /\ inbox[a].call \in calls
    BY <2>3 DEF AnswerInv
  <2>4. inbox'[i].call \in calls
    BY <2>2, <2>3
  <2>5. ASSUME NEW k \in DOMAIN inbox', inbox'[k].call = inbox'[i].call PROVE k = i
    <3>1. \/ k \in DOMAIN inbox /\ k < l /\ inbox'[k] = inbox[k]
          \/ k = l + 1 /\ l \in DOMAIN inbox /\ inbox'[k] = inbox[l]
      BY <2>2, <2>5
    <3>2. \/ i \in DOMAIN inbox /\ i < l /\ inbox'[i] = inbox[i]
          \/ i = l + 1 /\ l \in DOMAIN inbox /\ inbox'[i] = inbox[l]
      BY <2>2
    <3>3. ~(l < l)
      OBVIOUS
    <3> QED BY <2>3, <2>5, <3>1, <3>2, <3>3
  <2> QED BY <2>4, <2>5
<1> HIDE DEF Core, Types
<1> QED BY <1>1, <1>6, <1>7, BusCore

LEMMA DieCore == ASSUME Core, Die PROVE Core' /\ Recalls
<1> USE DEF Core, Types
<1>1. /\ claimed' = Nobody /\ action' = "none" /\ sent' = <<>> /\ asked' = {}
      /\ count' = [count EXCEPT !.deaths = @ + 1] /\ UNCHANGED <<client, calls, stored>>
  BY DEF Die
<1>2. /\ inbox' \in Seq(Messages)
      /\ \A i \in DOMAIN inbox' :
           \/ i \in DOMAIN inbox /\ inbox'[i] = inbox[i]
           \/ inbox'[i] = News /\ \A k \in DOMAIN inbox : k < i
           \/ \E c \in calls : /\ inbox'[i] = ReplyTo(c, "error") /\ Waits(c)
                               /\ \A k \in DOMAIN inbox' : inbox'[k] = ReplyTo(c, "error") => k = i
  BY DieFacts DEF BusTypes
<1>3. CountTypes' /\ count'.jobs = count.jobs /\ count'.connects = count.connects
  BY <1>1, CountFacts
<1>4. FprintdTypes' /\ BusTypes'
  <2>1. sent' \in Seq(Numbered) /\ asked' \subseteq {c \in Numbered : c.m \in Asking}
    BY <1>1
  <2> QED BY <1>1, <1>2, <2>1 DEF BusTypes, FprintdTypes
<1>5. News.call.m \notin Begins
  BY OwnMethods DEF News
\* Whoever waits has no answer yet.
<1>6. ASSUME NEW c \in calls, Waits(c), NEW i \in DOMAIN inbox PROVE inbox[i].call # c
  <2>1. inbox[i] \in Messages /\ c \in Numbered
    BY DEF BusTypes
  <2>2. c # NoCall
    BY <2>1 DEF Numbered, Calls, NoCall, Call, Methods, Linking, Asking
  <2>3. inbox[i].kind = "reply" \/ inbox[i].call = NoCall
    BY <2>1 DEF Messages, Replies
  <2> QED BY <1>6, <2>2, <2>3 DEF Waits
<1>7. AnswerInv'
  <2> SUFFICES ASSUME NEW i \in DOMAIN inbox', inbox'[i].call.m \in Begins
               PROVE  /\ inbox'[i].call \in calls
                      /\ \A k \in DOMAIN inbox' : inbox'[k].call = inbox'[i].call => k = i
    BY <1>1 DEF AnswerInv
  <2> DEFINE old(k) == k \in DOMAIN inbox /\ inbox'[k] = inbox[k]
             lost(k) == \E c \in calls :
                          /\ inbox'[k] = ReplyTo(c, "error") /\ Waits(c)
                          /\ \A h \in DOMAIN inbox' : inbox'[h] = ReplyTo(c, "error") => h = k
  <2>1. ASSUME NEW k \in DOMAIN inbox', inbox'[k].call = inbox'[i].call PROVE old(k) \/ lost(k)
    BY <1>2, <1>5, <2>1
  <2>2. \A c : ReplyTo(c, "error").call = c
    BY DEF ReplyTo
  <2>3. CASE old(i)
    <3>1. /\ inbox[i].call \in calls
          /\ \A k \in DOMAIN inbox : inbox[k].call = inbox[i].call => k = i
      BY <2>3 DEF AnswerInv
    <3>2. ASSUME NEW k \in DOMAIN inbox', inbox'[k].call = inbox'[i].call PROVE k = i
      <4>1. ~lost(k)
        BY <1>6, <2>2, <2>3, <3>2
      <4> QED BY <2>1, <2>3, <3>1, <3>2, <4>1
    <3> QED BY <2>3, <3>1, <3>2
  <2>4. CASE lost(i)
    <3>1. PICK c \in calls : /\ inbox'[i] = ReplyTo(c, "error") /\ Waits(c)
                             /\ \A h \in DOMAIN inbox' : inbox'[h] = ReplyTo(c, "error") => h = i
      BY <2>4
    <3>2. ASSUME NEW k \in DOMAIN inbox', inbox'[k].call = inbox'[i].call PROVE k = i
      <4>1. inbox'[k].call = c
        BY <2>2, <3>1, <3>2
      <4>2. ~old(k)
        BY <1>6, <3>1, <4>1
      <4>3. inbox'[k] = ReplyTo(c, "error")
        BY <2>1, <2>2, <3>2, <4>1, <4>2
      <4> QED BY <3>1, <4>3
    <3> QED BY <2>2, <3>1, <3>2
  <2> QED BY <2>1, <2>3, <2>4
<1> HIDE DEF Core, Types
<1> QED BY <1>1, <1>3, <1>4, <1>7, BusCore

-----------------------------------------------------------------------------
(* Theorems that assume nothing of the bus or of the number of connects    *)

LEMMA InitCore == Init => Core
<1>1. Init => Types /\ BusyInv /\ DialogInv
  BY InitGood DEF Good
<1>2. Init => NumberInv /\ BeginsInv /\ AnswerInv
  BY DEF Init, NumberInv, BeginsInv, AnswerInv
<1> QED BY <1>1, <1>2 DEF Core

LEMMA StutterCore == ASSUME Core, UNCHANGED vars PROVE Core' /\ Recalls
<1>1. /\ UNCHANGED <<client, calls, inbox, sent, asked, claimed, action, stored, count>>
  BY DEF vars, fprintd
<1>2. BusTypes' /\ CountTypes' /\ FprintdTypes' /\ AnswerInv'
  BY <1>1 DEF Core, Types, BusTypes, CountTypes, FprintdTypes, AnswerInv
<1> QED BY <1>1, <1>2, BusCore

\* One step: nothing but a Claim that finds no device forgets a job, and
\* nothing but Start, which finds none, makes a job another.
LEMMA StepCore ==
  ASSUME Core, [Next]_vars
  PROVE  /\ Core' /\ (Recalls \/ DeviceMissing)
         /\ job # NoJob /\ job' # NoJob => job'.id = job.id
<1> DEFINE same == job # NoJob /\ job' # NoJob => job'.id = job.id
<1>1. CASE Plainly
  BY <1>1, PlainCore DEF Plainly, PlainMove
<1>2. CASE MainLoop
  <2>1. CASE ManagerReady \/ DevicesListed \/ DeviceReady \/ Listed
    BY <1>1, <2>1, LinkingStep, DeviceReadyStep, ListedStep DEF Core
  <2>2. CASE Claimed \/ Started \/ Stopped \/ Released \/ Status \/ OwnerChanged
    <3>1. same
      <4>1. \A j, new : Continue(j, new) => job' = j
        BY DEF Continue
      <4>2. \A j : Complete(j) => job' = NoJob
        BY DEF Complete
      <4>3. ASSUME NEW j, NEW success, Finish(j, success), job # NoJob, job' # NoJob, j.id = job.id,
                   j \in Jobs
            PROVE  job'.id = job.id
        BY <4>1, <4>2, <4>3 DEF Finish, Jobs
      <4>4. ASSUME job # NoJob
            PROVE  /\ job \in Jobs
                   /\ \A b, c, d \in BOOLEAN :
                        /\ [job EXCEPT !.pending = b] \in Jobs
                        /\ [job EXCEPT !.pending = b, !.claimed = c] \in Jobs
                        /\ [job EXCEPT !.claimed = b, !.mutation = c].id = job.id
                        /\ [[job EXCEPT !.pending = b] EXCEPT !.started = c] \in Jobs
                        /\ [job EXCEPT !.pending = b].id = job.id
                        /\ [job EXCEPT !.pending = b, !.claimed = c].id = job.id
                        /\ [[job EXCEPT !.pending = b] EXCEPT !.started = c].id = job.id
        BY <4>4, CoreJob DEF Jobs
      <4>5. CASE Claimed
        BY <4>1, <4>3, <4>4, <4>5 DEF Claimed, Stale, client, Mine
      <4>6. CASE Started
        BY <4>1, <4>3, <4>4, <4>6 DEF Started, Stale, client, Mine
      <4>7. CASE Stopped \/ Released
        BY <4>2, <4>7 DEF Stopped, Released, Stale, client
      <4>8. CASE Status
        BY <4>3, <4>4, <4>8 DEF Status, Stale, client
      <4>9. CASE OwnerChanged
        BY <4>9 DEF OwnerChanged, client
      <4> QED BY <2>2, <4>5, <4>6, <4>7, <4>8, <4>9
    <3> QED BY <2>2, <3>1, ClaimedCore, StartedCore, StoppedCore, ReleasedCore, StatusCore,
               OwnerChangedCore
  <2> QED BY <1>2, <2>1, <2>2 DEF MainLoop
<1>3. CASE User
  <2>1. CASE \E mode \in Modes, u \in Users :
               Begin(mode, u) \/ Start(mode, u) \/ StartRaises(mode, u)
    <3> SUFFICES ASSUME NEW mode \in Modes, NEW u \in Users,
                        Begin(mode, u) \/ Start(mode, u) \/ StartRaises(mode, u)
                 PROVE  Core' /\ Recalls /\ same
      BY <2>1
    <3>1. CASE Begin(mode, u) \/ StartRaises(mode, u)
      BY <1>1, <3>1, PlainCore, BeginStep, StartRaisesStep DEF Core, Begin, StartRaises
    <3>2. CASE Start(mode, u)
      BY <3>2, StartCore
    <3> QED BY <3>1, <3>2
  <2>2. CASE Dismiss
    <3>1. "enroll" \in Modes /\ Own \in Users
      BY RegistryAssumption DEF Modes
    <3> QED BY <1>1, <2>2, <3>1, BeginStep DEF Core
  <2>3. CASE Connect \/ AskForRegisters
    BY <1>1, <2>3, ConnectStep, AskStep DEF Core
  <2>4. CASE PressAvbryt \/ Close
    <3>1. same
      <4>1. job # NoJob => /\ [job EXCEPT !.cancel = TRUE, !.terminal = "no"].id = job.id
                           /\ [[job EXCEPT !.cancel = TRUE] EXCEPT !.terminal = "no"].id = job.id
                           /\ [[job EXCEPT !.cancel = TRUE] EXCEPT !.ending = TRUE].id = job.id
        BY CoreJob DEF Jobs
      <4> QED BY <2>4, <4>1 DEF PressAvbryt, Close, Cancel
    <3> QED BY <2>4, <3>1, CloseCore
  <2> QED BY <1>3, <2>1, <2>2, <2>3, <2>4 DEF User
<1>4. CASE UNCHANGED <<client, calls>> /\ Core' /\ Recalls
  BY <1>4 DEF client
<1>5. CASE Read
  BY <1>4, <1>5, ReadCore DEF Read
<1>6. CASE Decide
  BY <1>4, <1>6, GrantCore, RefuseCore DEF Decide, Grant, Refuse
<1>7. CASE \E ok \in BOOLEAN : Scan(ok)
  BY <1>4, <1>7, ScanCore DEF Scan
<1>8. CASE \E c \in calls : Timeout(c)
  BY <1>4, <1>8, RefuseCore DEF Timeout
<1>9. CASE Die
  BY <1>4, <1>9, DieCore DEF Die
<1>10. CASE UNCHANGED vars
  BY <1>4, <1>10, StutterCore DEF vars
<1> QED BY <1>2, <1>3, <1>5, <1>6, <1>7, <1>8, <1>9, <1>10 DEF Next

LEMMA AlwaysCore == Spec => []Core
<1>1. Core /\ [Next]_vars => Core'
  BY StepCore
<1> QED BY <1>1, InitCore, PTL DEF Spec

\* Types of the client, the bus and fprintd: in particular fprintd scans only
\* for who has claimed the reader, and chains stay within the bounds.
THEOREM RegistryTypes == Spec => []TypeOK
<1>1. Core => TypeOK
  <2> SUFFICES ASSUME Core PROVE TypeOK
    OBVIOUS
  <2>1. /\ device \in 0..MaxConnects /\ busy \in BOOLEAN /\ closing \in BOOLEAN
        /\ shown \in [Users -> {"unknown", "yes", "no"}]
        /\ dialog \in {NoDialog, Running, Finished, Ended} \cup {Ready(m, u) : m \in Modes, u \in Users}
    BY DEF Core, Types, ClientTypes, Dialogs
  <2>2. job # NoJob =>
          /\ job.id \in 1..MaxJobs /\ job.mode \in Modes /\ job.user \in Users
          /\ {job.claimed, job.started, job.pending, job.cancel, job.ending,
               job.mutation, job.success} \subseteq BOOLEAN
          /\ job.terminal \in {"none", "yes", "no"}
    BY DEF Core, Types, JobTypes, Jobs
  <2>3. /\ calls \subseteq Calls /\ asked \subseteq Calls
        /\ \A i \in DOMAIN sent : sent[i] \in Calls
    BY DEF Core, Types, BusTypes, Numbered
  <2>4. /\ claimed \in Users \cup {Nobody} /\ action \in {"none", "enroll", "verify", "done"}
        /\ action # "none" => claimed # Nobody
        /\ stored \in [Users -> BOOLEAN]
    BY DEF Core, Types, FprintdTypes
  <2> QED BY <2>1, <2>2, <2>3, <2>4 DEF TypeOK
<1> QED BY <1>1, AlwaysCore, PTL

\* The client is never busy with nothing left that could end it: there is a job,
\* or a call whose callback clears it, whatever calls are given up and however
\* many connects overlap.
THEOREM NeverBusyForGood == Spec => []BusyHasReason
<1>1. Core => BusyHasReason
  BY DEF Core, BusyInv, BusyHasReason
<1> QED BY <1>1, AlwaysCore, PTL

\* The dialog that shows a job is up exactly while the client has one: the modal
\* window never waits for a job that was lost with fprintd.
THEOREM DialogIsTheJobs == Spec => []DialogIsJobs
<1>1. Core => DialogIsJobs
  BY DEF Core, DialogInv, DialogIsJobs
<1> QED BY <1>1, AlwaysCore, PTL

\* A job that waits for an answer keeps a call of its own until it is gone, with
\* the one exception of a Claim granted to a client whose device an overtaken
\* connect has taken away.
THEOREM JobsWaitForAnswers == Spec => JobWaits
<1>1. Core /\ [Next]_vars => [~Forgotten /\ Forgotten' => DeviceMissing]_vars
  BY StepCore DEF Recalls
<1> QED BY <1>1, AlwaysCore, PTL DEF Spec, JobWaits

\* A running job is never replaced by another: what protects it is the modal
\* dialog, even when busy has been cleared under it.
THEOREM JobsAreNotReplaced == Spec => JobNotReplaced
<1>1. Core /\ [Next]_vars => [job # NoJob /\ job' # NoJob => job'.id = job.id]_vars
  BY StepCore
<1> QED BY <1>1, AlwaysCore, PTL DEF Spec, JobNotReplaced

-----------------------------------------------------------------------------
(* What the client offers.  Here the bus gives up neither a Claim nor a     *)
(* Delete.                                                                 *)

\* The calls of the job are about it: a Claim, its start and, once it is
\* ending, a stop and a release.
ChainInv == job # NoJob => \A c \in Made : c.m \in JobMethods /\ c.id = job.id =>
  /\ c = JobCall(c.m, job)
  /\ c.m \in {"Claim", StartOf[job.mode]} \/ job.ending

\* While its Delete is under way a job waits for it and cannot be cancelled.
AtWork(j) == j.claimed /\ j.pending /\ j.mutation /\ ~j.cancel /\ ~j.ending
DeleteInv == \A c \in calls : c.m = "Delete" /\ OfJob(c) => AtWork(job)

\* The reader is claimed for the user of the job, or for nobody.
Permits(i) == inbox[i].call.m = "Claim" /\ inbox[i].value = "ok"
HolderInv ==
  /\ \A i \in DOMAIN inbox : Permits(i) => claimed \in {Nobody, inbox[i].call.user}
  /\ job # NoJob /\ job.claimed => claimed \in {Nobody, job.user}

\* A finger that is not stored, but is or will be shown, has been deleted: the
\* client is still to learn of it, or has a job that will show it as unknown.
Deleted(i, u) == /\ inbox[i].call.m = "Delete" /\ inbox[i].value = "ok"
                 /\ inbox[i].call.user = u
Hides(u) == job # NoJob /\ job.ending /\ job.success /\ job.mode = "delete" /\ job.user = u
Shows(i, u) == /\ inbox[i].call.m = "List" /\ inbox[i].value = "yes"
               /\ inbox[i].call.user = u
ListedInv == \A u \in Users : ~stored[u] =>
  \A i \in DOMAIN inbox : Shows(i, u) => \E k \in DOMAIN inbox : k > i /\ Deleted(k, u)
ShownInv == \A u \in Users : ~stored[u] /\ shown[u] = "yes" =>
  Hides(u) \/ \E i \in DOMAIN inbox : Deleted(i, u)

Sound == OnBus("Delete") /\ ChainInv /\ DeleteInv /\ HolderInv /\ ListedInv /\ ShownInv

\* What the handled message leaves of the others.
LEMMA HandledRest ==
  ASSUME BusTypes, BusTypes', NEW n, NEW new, Moved(n, new)
  PROVE  /\ n \in {0, 1}
         /\ \A i \in DOMAIN inbox : /\ i \in Nat /\ i >= 1
                                    /\ i > n \/ (n = 1 /\ i = 1)
                                    /\ i > n => i - n \in DOMAIN inbox' /\ inbox'[i - n] = inbox[i]
         /\ \A i \in DOMAIN inbox' :
              /\ i \in Nat /\ i >= 1
              /\ \/ i + n \in DOMAIN inbox /\ inbox'[i] = inbox[i + n]
                 \/ inbox'[i].value = "error"
<1>1. n \in {0, 1}
  BY DEF Moved
<1>2. /\ \A i \in DOMAIN inbox : i \in Nat /\ i >= 1
      /\ \A i \in DOMAIN inbox' : i \in Nat /\ i >= 1
  BY DEF BusTypes
<1> QED BY <1>1, <1>2 DEF Moved, ReplyTo

LEMMA ListedKept ==
  ASSUME BusTypes, BusTypes', ListedInv, NEW n, NEW new, Moved(n, new)
  PROVE  ListedInv'
<1> SUFFICES ASSUME NEW u \in Users, ~stored[u], NEW i \in DOMAIN inbox',
                    inbox'[i].call.m = "List", inbox'[i].value = "yes", inbox'[i].call.user = u
             PROVE  \E k \in DOMAIN inbox' : /\ k > i /\ inbox'[k].call.m = "Delete"
                                            /\ inbox'[k].value = "ok" /\ inbox'[k].call.user = u
  BY DEF ListedInv, Shows, Deleted, Moved
<1>1. n \in {0, 1} /\ i \in Nat /\ i >= 1 /\ i + n \in DOMAIN inbox /\ inbox'[i] = inbox[i + n]
  BY HandledRest
<1>2. PICK k \in DOMAIN inbox : k > i + n /\ Deleted(k, u)
  BY <1>1 DEF ListedInv, Shows
<1>3. k > n /\ k \in Nat
  BY <1>1, <1>2, HandledRest
<1>4. k - n \in DOMAIN inbox' /\ inbox'[k - n] = inbox[k] /\ k - n > i
  BY <1>1, <1>2, <1>3, HandledRest
<1> QED BY <1>2, <1>4 DEF Deleted

LEMMA ShownKept ==
  ASSUME BusTypes, BusTypes', ListedInv, ShownInv, NEW n, NEW new, Moved(n, new),
         \A u \in Users : shown'[u] = "yes" => shown[u] = "yes" \/ (n = 1 /\ Shows(1, u)),
         \A u \in Users : shown'[u] = "yes" /\ (Hides(u) \/ (n = 1 /\ Deleted(1, u))) => Hides(u)'
  PROVE  ShownInv'
<1> SUFFICES ASSUME NEW u \in Users, ~stored[u], shown'[u] = "yes", ~Hides(u)'
             PROVE  \E i \in DOMAIN inbox' : /\ inbox'[i].call.m = "Delete"
                                            /\ inbox'[i].value = "ok" /\ inbox'[i].call.user = u
  BY DEF ShownInv, Deleted, Moved
<1>1. n \in {0, 1} /\ (n = 1 => 1 \in DOMAIN inbox)
  BY DEF Moved
<1>2. PICK i \in DOMAIN inbox : i > n /\ Deleted(i, u)
  <2>1. CASE shown[u] = "yes"
    <3>1. PICK i \in DOMAIN inbox : Deleted(i, u)
      BY <2>1 DEF ShownInv
    <3>2. i > n
      BY <3>1, HandledRest
    <3> QED BY <3>1, <3>2
  <2>2. CASE n = 1 /\ Shows(1, u)
    BY <1>1, <2>2 DEF ListedInv
  <2> QED BY <2>1, <2>2
<1>3. i - n \in DOMAIN inbox' /\ inbox'[i - n] = inbox[i]
  BY <1>2, HandledRest
<1> QED BY <1>2, <1>3 DEF Deleted

LEMMA HolderKept ==
  ASSUME BusTypes, BusTypes', HolderInv, NEW n, NEW new, Moved(n, new),
         job' # NoJob /\ job'.claimed =>
           \/ job # NoJob /\ job.claimed /\ job'.user = job.user
           \/ n = 1 /\ Permits(1) /\ inbox[1].call.user = job'.user
  PROVE  HolderInv'
<1>1. claimed' = claimed /\ (n = 1 => 1 \in DOMAIN inbox)
  BY DEF Moved
<1>2. ASSUME NEW i \in DOMAIN inbox', inbox'[i].call.m = "Claim", inbox'[i].value = "ok"
      PROVE  claimed' \in {Nobody, inbox'[i].call.user}
  BY <1>1, <1>2, HandledRest DEF HolderInv, Permits
<1>3. job' # NoJob /\ job'.claimed => claimed' \in {Nobody, job'.user}
  BY <1>1 DEF HolderInv
<1> QED BY <1>2, <1>3 DEF HolderInv, Permits

LEMMA ChainKept ==
  ASSUME ChainInv, NEW n, NEW new, Moved(n, new),
         job' # NoJob => /\ job # NoJob /\ job'.id = job.id /\ job'.user = job.user
                         /\ job'.mode = job.mode /\ (job.ending => job'.ending)
                         /\ \A c \in new : c.m \in JobMethods /\ c.id = job.id =>
                              /\ c = JobCall(c.m, job)
                              /\ c.m \in {"Claim", StartOf[job.mode]} \/ job'.ending
  PROVE  ChainInv'
<1>1. Made' \subseteq Made \cup new
  BY MovedMade
<1> QED BY <1>1 DEF ChainInv, JobCall, Call

\* What answers a Claim or a Delete is about the job's user.
LEMMA AboutJob ==
  ASSUME Good, Sound, 1 \in DOMAIN inbox, inbox[1].call.m \in {"Claim", "Delete"}, inbox[1].value = "ok"
  PROVE  /\ OfJob(inbox[1].call) /\ job # NoJob /\ inbox[1].call.user = job.user
         /\ inbox[1].call.m = "Delete" => job.mode = "delete"
<1> USE DEF Sound
<1>1. OfJob(inbox[1].call)
  BY DEF Good, ClaimsInv, OnBus, InboxInv
<1>2. inbox[1].call \in Made
  BY <1>1 DEF OfJob, Made
<1>3. inbox[1].call = JobCall(inbox[1].call.m, job)
  BY <1>1, <1>2 DEF ChainInv, OfJob, JobMethods
<1>4. inbox[1].call.m = "Delete" => StartOf[job.mode] = "Delete"
  <2>1. inbox[1].call.m = "Delete" => ~job.ending
    BY <1>1 DEF DeleteInv, OfJob, AtWork
  <2> QED BY <1>1, <1>2, <2>1 DEF ChainInv, OfJob, JobMethods
<1>5. job # NoJob /\ job.mode \in Modes
  BY <1>1, JobFacts DEF OfJob
<1> QED BY <1>1, <1>3, <1>4, <1>5 DEF JobCall, Call, StartOf, Modes

\* The job is still the job.
LEMMA JobSound ==
  ASSUME Good, Good', Sound, job # NoJob, job' # NoJob,
         NEW n, NEW new \in SUBSET Numbered, Moved(n, new),
         job'.id = job.id, job'.user = job.user, job'.mode = job.mode, job.ending => job'.ending,
         job.ending => job'.success = job.success, shown' = shown,
         \A c \in new : c = JobCall(c.m, job) /\ c.m \in {"Stop", "Release"} /\ job'.ending,
         job'.claimed => job.claimed \/ (n = 1 /\ Permits(1)),
         n = 1 /\ inbox[1].call.m = "Delete" /\ inbox[1].value = "ok" => job'.ending /\ job'.success,
         \A c \in calls : c.m = "Delete" /\ OfJob(c) /\ (n = 1 => c # inbox[1].call) => AtWork(job')
  PROVE  Sound'
<1> USE DEF Sound
<1>1. BusTypes /\ BusTypes'
  BY DEF Good, Types
<1>2. /\ \A c \in new : c.m # "Delete"
      /\ calls' \subseteq calls \cup new
      /\ \A c \in calls' : c.m = "Delete" => c \in calls /\ (n = 1 => c # inbox[1].call)
  <2>1. calls' = (IF n = 1 THEN calls \ {inbox[1].call} ELSE calls) \cup new
    BY Zenon DEF Moved
  <2> QED BY <2>1
<1>3. OnBus("Delete")'
  <2>1. \A c \in calls : c.m = "Delete" /\ OfJob(c) /\ Live(n, c) => job' # NoJob /\ job'.id = c.id
    BY DEF OfJob
  <2> QED BY <1>1, <1>2, <2>1, OnBusKept
<1>4. ChainInv'
  BY ChainKept
<1>5. DeleteInv'
  <2> SUFFICES ASSUME NEW c \in calls', c.m = "Delete", c.id = job'.id PROVE AtWork(job')
    BY DEF DeleteInv, OfJob, AtWork
  <2> QED BY <1>2 DEF OfJob
<1>6. ASSUME n = 1, inbox[1].call.m \in {"Claim", "Delete"}, inbox[1].value = "ok"
      PROVE  /\ inbox[1].call.user = job.user
             /\ inbox[1].call.m = "Delete" => job.mode = "delete"
  BY <1>6, AboutJob DEF Moved
<1>7. HolderInv'
  <2>1. n = 1 /\ Permits(1) => inbox[1].call.user = job'.user
    BY <1>6 DEF Permits
  <2> QED BY <1>1, <2>1, HolderKept
<1>8. ListedInv'
  BY <1>1, ListedKept
<1>9. ShownInv'
  <2>1. ASSUME NEW u \in Users, Hides(u) \/ (n = 1 /\ Deleted(1, u)) PROVE Hides(u)'
    BY <1>6, <2>1 DEF Hides, Deleted
  <2> QED BY <1>1, <2>1, ShownKept
<1> QED BY <1>3, <1>4, <1>5, <1>7, <1>8, <1>9

\* The job stays as it is, and no answer to a Delete is handled.
LEMMA SameSound ==
  ASSUME Good, Good', Sound, job' = job, NEW n, NEW new \in SUBSET Numbered, Moved(n, new),
         \A c \in new : c.m # "Delete",
         \A c \in new : job # NoJob /\ c.m \in JobMethods /\ c.id = job.id =>
           c = JobCall(c.m, job) /\ job.ending,
         n = 1 => ~(inbox[1].call.m = "Delete" /\ inbox[1].value = "ok"),
         \A u \in Users : shown'[u] = "yes" => shown[u] = "yes" \/ (n = 1 /\ Shows(1, u))
  PROVE  Sound'
<1> USE DEF Sound
<1>1. BusTypes /\ BusTypes'
  BY DEF Good, Types
<1>2. OnBus("Delete")'
  <2>1. \A c \in calls : c.m = "Delete" /\ OfJob(c) /\ Live(n, c) => job' # NoJob /\ job'.id = c.id
    BY DEF OfJob
  <2> QED BY <1>1, <2>1, OnBusKept
<1>3. ChainInv'
  BY ChainKept
<1>4. DeleteInv'
  <2>1. \A c \in calls' : c \in calls \/ c \in new
    BY CallsNow
  <2> QED BY <2>1 DEF DeleteInv, OfJob, AtWork
<1>5. HolderInv'
  BY <1>1, HolderKept
<1>6. ListedInv'
  BY <1>1, ListedKept
<1>7. ShownInv'
  <2>1. \A u \in Users : Hides(u) \/ (n = 1 /\ Deleted(1, u)) => Hides(u)'
    BY DEF Hides, Deleted
  <2> QED BY <1>1, <2>1, ShownKept
<1> QED BY <1>2, <1>3, <1>4, <1>5, <1>6, <1>7

LEMMA ContinueSound ==
  ASSUME Good, Good', Sound, job # NoJob, inbox # <<>>,
         NEW j \in Jobs, NEW new \in SUBSET Numbered, Continue(j, new), \A c, d \in new : c = d,
         j.id = job.id, j.user = job.user, j.mode = job.mode, job.ending => j.ending,
         job.ending => j.success = job.success,
         \A c \in new : c = JobCall(c.m, job) /\ c.m \in {"Stop", "Release"} /\ j.ending,
         j.claimed => job.claimed \/ Permits(1),
         inbox[1].call.m = "Delete" /\ inbox[1].value = "ok" => j.ending /\ j.success,
         \A c \in calls : c.m = "Delete" /\ OfJob(c) /\ c # inbox[1].call => AtWork(j)
  PROVE  Sound'
<1>1. job' = j /\ Handle(new) /\ shown' = shown
  BY DEF Continue
<1>2. Moved(1, new)
  BY <1>1, HandleFacts DEF Good, Types
<1>3. job' # NoJob
  <2>1. j.id # 0
    BY RegistryAssumption DEF Jobs
  <2> QED BY <1>1, <2>1 DEF NoJob
<1>4. \A c \in calls : c.m = "Delete" /\ OfJob(c) /\ c # inbox[1].call => AtWork(job')
  BY <1>1 DEF AtWork
<1> QED BY <1>1, <1>2, <1>3, <1>4, JobSound

LEMMA CompleteSound ==
  ASSUME Good, Good', Sound, job # NoJob, inbox # <<>>, NEW j \in Jobs, Complete(j),
         j.user = job.user, j.mode = job.mode,
         job.ending /\ job.success => j.success,
         inbox[1].call.m = "Delete" /\ inbox[1].value = "ok" => j.success,
         \A c \in calls : c.m = "Delete" /\ OfJob(c) => c = inbox[1].call
  PROVE  Sound'
<1> USE DEF Sound
<1> DEFINE known == IF j.success /\ j.mode # "verify" THEN "unknown" ELSE shown[j.user]
           again == RefreshCalls({j.user}, ~closing /\ known = "unknown" /\ device # 0)
<1>1. job' = NoJob /\ shown' = [shown EXCEPT ![j.user] = known] /\ Handle(again)
  BY DEF Complete
<1>2. BusTypes /\ BusTypes' /\ CountTypes /\ shown \in [Users -> {"unknown", "yes", "no"}]
  BY DEF Good, Types, ClientTypes
<1>3. j.user \in Users
  BY DEF Jobs
<1>4. /\ again \in SUBSET Numbered /\ \A c \in again : c.m = "List"
      /\ \A c, d \in again : c = d
  <2>1. {j.user} \in SUBSET Users
    BY <1>3
  <2> QED BY <1>2, <2>1, RefreshFacts
<1>5. j.success /\ j.mode # "verify" => known = "unknown"
  OBVIOUS
<1>6. known \in {"unknown", shown[j.user]}
  OBVIOUS
<1> HIDE DEF again, known
<1>7. Moved(1, again) /\ 1 \in DOMAIN inbox
  BY <1>1, <1>2, <1>4, HandleFacts DEF Moved
<1>8. OnBus("Delete")'
  <2>1. \A c \in calls : c.m = "Delete" /\ OfJob(c) /\ Live(1, c) => job' # NoJob /\ job'.id = c.id
    BY <1>2, LiveNotHead
  <2>2. \A c \in again : c.m # "Delete"
    BY <1>4
  <2> QED BY <1>2, <1>4, <1>7, <2>1, <2>2, OnBusKept
<1>9. ChainInv' /\ DeleteInv'
  BY <1>1 DEF ChainInv, DeleteInv, OfJob
<1>10. HolderInv'
  BY <1>1, <1>2, <1>7, HolderKept
<1>11. ListedInv'
  BY <1>2, <1>7, ListedKept
<1>12. ShownInv'
  <2>1. \A u \in Users : shown'[u] = "yes" => shown[u] = "yes"
    BY <1>1, <1>2, <1>3, <1>6
  <2>2. ASSUME NEW u \in Users, Hides(u) \/ Deleted(1, u) PROVE shown'[u] # "yes"
    <3>1. u = j.user /\ j.mode = "delete" /\ j.success
      BY <1>7, <2>2, AboutJob DEF Hides, Deleted
    <3> QED BY <1>1, <1>2, <1>3, <1>5, <3>1
  <2> QED BY <1>2, <1>7, <2>1, <2>2, ShownKept
<1> QED BY <1>8, <1>9, <1>10, <1>11, <1>12

LEMMA FinishSound ==
  ASSUME Good, Good', Sound, job # NoJob, inbox # <<>>, NEW j \in Jobs, NEW success \in BOOLEAN,
         Finish(j, success),
         j.id = job.id, j.user = job.user, j.mode = job.mode, j.ending = job.ending,
         j.success = job.success,
         j.claimed => job.claimed \/ Permits(1),
         inbox[1].call.m = "Delete" /\ inbox[1].value = "ok" => ~j.ending /\ ~j.pending /\ success,
         \A c \in calls : c.m = "Delete" /\ OfJob(c) => c = inbox[1].call
  PROVE  Sound'
<1>0. {} \in SUBSET Numbered
  OBVIOUS
<1>1. CASE j.ending
  <2>1. Continue(j, {})
    BY <1>1 DEF Finish
  <2> QED BY <1>0, <1>1, <2>1, ContinueSound
<1>2. CASE ~j.ending /\ j.pending
  <2> DEFINE t == IF success THEN "yes" ELSE "no"
             k == [j EXCEPT !.terminal = t]
  <2>1. Continue(k, {})
    BY <1>2 DEF Finish
  <2>2. /\ k \in Jobs /\ k.id = j.id /\ k.user = j.user /\ k.mode = j.mode
        /\ k.claimed = j.claimed /\ k.ending = j.ending /\ k.success = j.success
    BY DEF Jobs
  <2> HIDE DEF k, t
  <2>3. ~(inbox[1].call.m = "Delete" /\ inbox[1].value = "ok")
    BY <1>2
  <2> QED BY <1>0, <2>1, <2>2, <2>3, ContinueSound
<1>3. CASE ~j.ending /\ ~j.pending
  <2> DEFINE e == [j EXCEPT !.ending = TRUE, !.success = success]
             call(m) == JobCall(m, j)
  <2>1. /\ e \in Jobs /\ e.id = j.id /\ e.user = j.user /\ e.mode = j.mode
        /\ e.claimed = j.claimed /\ e.success = success /\ e.ending
    BY DEF Jobs
  <2>2. IF j.started THEN Continue(e, {call("Stop")})
        ELSE IF j.claimed THEN Continue(e, {call("Release")}) ELSE Complete(e)
    BY <1>3 DEF Finish
  <2>3. ASSUME NEW m \in {"Stop", "Release"}
        PROVE  call(m) \in Numbered /\ call(m).m = m /\ call(m) = JobCall(m, job)
    <3>1. j.id \in Nat /\ j.user \in Users /\ m \in JobMethods
      BY RegistryAssumption DEF Jobs, JobMethods
    <3> QED BY <3>1, CallFacts DEF JobCall
  <2>4. ~job.ending
    BY <1>3
  <2> HIDE DEF e, call
  <2>5. ASSUME NEW m \in {"Stop", "Release"}, Continue(e, {call(m)}) PROVE Sound'
    <3> DEFINE new == {call(m)}
    <3>1. /\ new \in SUBSET Numbered /\ \A c, d \in new : c = d
          /\ \A c \in new : c = JobCall(c.m, job) /\ c.m \in {"Stop", "Release"}
      BY <2>3
    <3>2. Continue(e, new)
      BY <2>5
    <3> HIDE DEF new
    <3> QED BY <2>1, <2>4, <3>1, <3>2, ContinueSound
  <2>6. CASE Complete(e)
    BY <2>1, <2>4, <2>6, CompleteSound
  <2> QED BY <2>2, <2>5, <2>6
<1> QED BY <1>1, <1>2, <1>3

\* Steps that leave the job and make at most calls of other kinds.
LEMMA PlainSound ==
  ASSUME Good, Good', Sound, job' = job, NEW n, NEW new \in SUBSET Numbered, Moved(n, new),
         \A c \in new : c.m \notin JobMethods,
         n = 1 => ~(inbox[1].call.m = "Delete" /\ inbox[1].value = "ok"),
         \A u \in Users : shown'[u] = "yes" => shown[u] = "yes" \/ (n = 1 /\ Shows(1, u))
  PROVE  Sound'
<1>1. \A c \in new : c.m # "Delete"
  BY DEF JobMethods
<1> QED BY <1>1, SameSound

LEMMA ConnectSound == ASSUME Good, Good', Sound, Connect PROVE Sound'
<1> DEFINE k == count.connects + 1
           c == Call("Manager", k, Own, {})
<1>1. /\ Make({c}) /\ UNCHANGED <<job, shown>>
      /\ count.connects < MaxConnects /\ count' = [count EXCEPT !.connects = @ + 1]
  BY DEF Connect
<1>2. k \in 1..MaxConnects
  BY <1>1, CountFacts DEF Good, Types
<1> HIDE DEF k
<1>3. c \in Numbered /\ c.m \notin JobMethods
  BY <1>2, CallFacts DEF Linking, JobMethods
<1> HIDE DEF c
<1>4. Moved(0, {c})
  BY <1>1, <1>3, MakeFacts DEF Good, Types
<1> QED BY <1>1, <1>3, <1>4, PlainSound

LEMMA FailSound == ASSUME Good, Good', Sound, Returned(Linking), Fail PROVE Sound'
<1>1. /\ inbox # <<>> /\ Msg = inbox[1] /\ Msg.call.m \in Linking
      /\ Handle({}) /\ UNCHANGED <<job, shown>>
  BY ReplyFacts DEF Fail, Good, Types
<1>2. Moved(1, {}) /\ {} \in SUBSET Numbered
  BY <1>1, HandleFacts DEF Good, Types
<1>3. inbox[1].call.m # "Delete"
  BY <1>1 DEF Linking
<1> QED BY <1>1, <1>2, <1>3, PlainSound

LEMMA GoOnSound ==
  ASSUME Good, Good', Sound, Returned(Linking), NEW next \in {"GetDevices", "Proxy"}, GoOn(next)
  PROVE  Sound'
<1> DEFINE c == Call(next, Msg.call.id, Own, {})
           new == IF next = "Proxy" /\ Msg.call.id # count.connects THEN {} ELSE {c}
<1>1. /\ inbox # <<>> /\ Msg = inbox[1] /\ Msg.call \in Numbered /\ Msg.call.m \in Linking
      /\ Handle(new) /\ UNCHANGED <<job, shown>>
  BY ReplyFacts DEF GoOn, client, Good, Types
<1>2. c \in Numbered /\ c.m \notin JobMethods
  <2>1. Msg.call.id \in 1..MaxConnects
    BY <1>1 DEF Numbered
  <2> QED BY <2>1, CallFacts DEF Linking, JobMethods
<1> HIDE DEF c
<1>3. new \in SUBSET Numbered /\ (\A d, e \in new : d = e) /\ \A d \in new : d.m \notin JobMethods
  BY <1>2
<1> HIDE DEF new
<1>4. Moved(1, new) /\ inbox[1].call.m # "Delete"
  BY <1>1, <1>3, HandleFacts DEF Good, Types, Linking
<1> QED BY <1>1, <1>3, <1>4, PlainSound

LEMMA LinkingSound == ASSUME Good, Good', Sound, ManagerReady \/ DevicesListed PROVE Sound'
<1>1. Returned(Linking)
  BY DEF ManagerReady, DevicesListed, Returned, Linking
<1> QED BY <1>1, FailSound, GoOnSound DEF ManagerReady, DevicesListed

LEMMA DeviceReadySound == ASSUME Good, Good', Sound, DeviceReady PROVE Sound'
<1>1. Returned(Linking)
  BY DEF DeviceReady, Returned, Linking
<1>2. CASE Handle(RefreshCalls({Own}, TRUE)) /\ UNCHANGED <<job, shown, gui>>
  <2> DEFINE new == RefreshCalls({Own}, TRUE)
  <2>1. new \in SUBSET Numbered /\ (\A c \in new : c.m = "List") /\ \A c, d \in new : c = d
    <3>1. {Own} \in SUBSET Users /\ CountTypes
      BY RegistryAssumption DEF Good, Types
    <3> QED BY <3>1, RefreshFacts
  <2>2. inbox # <<>> /\ Msg = inbox[1] /\ Msg.call.m \in Linking
    BY <1>1, ReplyFacts DEF Good, Types
  <2>3. Moved(1, new)
    BY <1>2, <2>1, <2>2, HandleFacts DEF Good, Types
  <2> HIDE DEF new
  <2>4. inbox[1].call.m # "Delete" /\ \A c \in new : c.m \notin JobMethods
    BY <2>1, <2>2 DEF Linking, JobMethods
  <2> QED BY <1>2, <2>1, <2>3, <2>4, PlainSound
<1>3. CASE GoOn("Proxy") \/ Fail
  BY <1>1, <1>3, GoOnSound, FailSound
<1> QED BY <1>2, <1>3 DEF DeviceReady

LEMMA AskSound == ASSUME Good, Good', Sound, NEW users \in SUBSET Users, Refresh(users) PROVE Sound'
<1> DEFINE all == RefreshCalls(users, TRUE)
<1>1. all \subseteq Numbered /\ \A c \in all : c.m = "List"
  BY RefreshFacts DEF Good, Types
<1>2. PICK c \in all : Make({c})
  BY DEF Refresh
<1> HIDE DEF all
<1>3. Moved(0, {c}) /\ {c} \in SUBSET Numbered /\ c.m \notin JobMethods
  BY <1>1, <1>2, MakeFacts DEF Good, Types, JobMethods
<1> QED BY <1>3, PlainSound DEF Refresh

LEMMA ListedSound == ASSUME Good, Good', Sound, Listed PROVE Sound'
<1> DEFINE queue == IF Msg.value = "error" THEN {} ELSE Msg.call.rest
<1>1. /\ inbox # <<>> /\ Msg = inbox[1] /\ Msg \in Replies /\ Msg.call \in Numbered
      /\ Msg.call.m = "List"
  BY ReplyFacts DEF Listed, Good, Types
<1>2. queue \subseteq Users /\ Msg.call.id \in Nat
  BY <1>1 DEF Numbered, Calls
<1>3. \A u \in Users : shown'[u] = "yes" => shown[u] = "yes" \/ Shows(1, u)
  <2>1. shown' = [shown EXCEPT ![Msg.call.user] =
                    IF Msg.value = "error" THEN "unknown" ELSE Msg.value]
    BY DEF Listed
  <2>2. shown \in [Users -> {"unknown", "yes", "no"}]
    BY DEF Good, Types, ClientTypes
  <2> QED BY <1>1, <2>1, <2>2 DEF Shows
<1>4. ASSUME NEW new \in SUBSET Numbered, Handle(new), \A c, d \in new : c = d,
             \A c \in new : c.m = "List"
      PROVE  Sound'
  <2>1. Moved(1, new) /\ job' = job
    BY <1>1, <1>4, HandleFacts DEF Good, Types, Listed
  <2>2. \A c \in new : c.m \notin JobMethods
    BY <1>4 DEF JobMethods
  <2> QED BY <1>1, <1>3, <2>1, <2>2, PlainSound
<1>5. CASE Handle({})
  BY <1>4, <1>5
<1>6. ASSUME NEW u \in queue, Handle({Call("List", Msg.call.id, u, queue \ {u})}) PROVE Sound'
  <2> DEFINE c == Call("List", Msg.call.id, u, queue \ {u})
  <2>1. c \in Numbered /\ c.m = "List" /\ Handle({c})
    BY <1>2, <1>6, CallFacts
  <2> HIDE DEF c
  <2> QED BY <1>4, <2>1
<1> QED BY <1>5, <1>6 DEF Listed

\* Nothing is sent, and only the window changes.
LEMMA QuietSound == ASSUME Good, Good', Sound, Make({}), UNCHANGED <<job, shown>> PROVE Sound'
<1>1. Moved(0, {}) /\ {} \in SUBSET Numbered
  BY MakeFacts DEF Good, Types
<1> QED BY <1>1, PlainSound

LEMMA StartRaisesSound ==
  ASSUME Good, Good', Sound, NEW mode \in Modes, NEW u \in Users, StartRaises(mode, u) PROVE Sound'
<1> DEFINE again == RefreshCalls({u}, shown[u] = "unknown" /\ ~busy /\ device # 0)
<1>1. Make(again) /\ UNCHANGED <<job, shown>>
  BY DEF StartRaises
<1>2. again \in SUBSET Numbered /\ (\A c \in again : c.m = "List") /\ \A c, d \in again : c = d
  BY RefreshFacts DEF Good, Types
<1> HIDE DEF again
<1>3. Moved(0, again) /\ \A c \in again : c.m \notin JobMethods
  BY <1>1, <1>2, MakeFacts DEF Good, Types, JobMethods
<1> QED BY <1>1, <1>2, <1>3, PlainSound

LEMMA StaleSound ==
  ASSUME Good, Good', Sound, inbox # <<>>, Stale,
         ~(inbox[1].call.m = "Delete" /\ inbox[1].value = "ok")
  PROVE  Sound'
<1>1. Moved(1, {}) /\ {} \in SUBSET Numbered
  BY HandleFacts DEF Good, Types, Stale
<1> QED BY <1>1, PlainSound DEF Stale, client

\* No Delete of a job that has not claimed the reader is made, and an answered
\* Delete is the only one of its job.
LEMMA NoDeleteYet ==
  ASSUME Good, Sound, job # NoJob, ~job.claimed
  PROVE  /\ \A c \in Made : c.m = "Delete" => c.id # job.id
         /\ \A c \in calls : c.m = "Delete" => ~OfJob(c)
         /\ \A n, c : c.m = "Delete" => ~Live(n, c)
<1>1. \A c \in Made : c.m = "Delete" => c.id # job.id
  BY DEF Good, PhaseInv, JobMethods
<1>2. \A c \in calls : c.m = "Delete" => ~OfJob(c)
  BY <1>1 DEF OfJob, Made
<1>3. ASSUME NEW n, NEW c, c.m = "Delete", Live(n, c) PROVE OfJob(c)
  BY <1>3 DEF Live, Sound, OnBus, SentInv, AskedInv, InboxInv
<1> QED BY <1>1, <1>2, <1>3 DEF OfJob

\* A job that deletes nothing has no Delete under way.
LEMMA OnlyDeletes ==
  ASSUME Good, Sound, job # NoJob, NEW c \in calls, c.m = "Delete", OfJob(c)
  PROVE  /\ AtWork(job) /\ job.mode = "delete" /\ c = JobCall("Delete", job)
         /\ \A d \in calls : d.m = "Delete" /\ OfJob(d) => d = c
<1>1. AtWork(job)
  BY DEF Sound, DeleteInv
<1>2. ASSUME NEW d \in calls, d.m = "Delete", OfJob(d)
      PROVE  d = JobCall("Delete", job) /\ StartOf[job.mode] = "Delete"
  BY <1>1, <1>2 DEF Sound, ChainInv, OfJob, Made, JobMethods, AtWork
<1>3. job.mode = "delete"
  BY <1>2, JobFacts DEF StartOf, Modes
<1> QED BY <1>1, <1>2, <1>3

\* A granted Claim starts the job.
LEMMA GoesOnSound ==
  ASSUME Good, Good', Sound, job # NoJob, inbox # <<>>, Permits(1), ~job.claimed, job.pending,
         ~job.ending, ~job.cancel,
         NEW b \in BOOLEAN, b <=> job.mode = "delete",
         Continue([job EXCEPT !.claimed = TRUE, !.mutation = b],
                  IF device = 0 THEN {} ELSE {JobCall(StartOf[job.mode], job)})
  PROVE  Sound'
<1> USE DEF Sound
<1> DEFINE j == [job EXCEPT !.claimed = TRUE, !.mutation = b]
           c == JobCall(StartOf[job.mode], job)
           new == IF device = 0 THEN {} ELSE {c}
<1>1. job' = j /\ Handle(new) /\ shown' = shown
  BY DEF Continue
<1>2. job \in Jobs /\ job.id \in Nat /\ job.user \in Users /\ job.mode \in Modes
  BY JobFacts
<1>3. /\ j.id = job.id /\ j.user = job.user /\ j.mode = job.mode /\ j.claimed /\ j.pending
      /\ ~j.ending /\ ~j.cancel /\ j.mutation = b /\ j.success = job.success
  BY <1>2 DEF Jobs
<1>4. StartOf[job.mode] \in {"EnrollStart", "VerifyStart", "Delete"} /\ (StartOf[job.mode] = "Delete" => b)
  BY <1>2 DEF StartOf, Modes
<1>5. c \in Numbered /\ c.m = StartOf[job.mode] /\ c.id = job.id /\ c = JobCall(c.m, job)
  <2>1. StartOf[job.mode] \in JobMethods
    BY <1>4 DEF JobMethods
  <2> QED BY <1>2, <2>1, CallFacts DEF JobCall
<1>6. j # NoJob
  <2>1. j.id # 0
    BY <1>2, <1>3, RegistryAssumption DEF Jobs
  <2> QED BY <2>1 DEF NoJob
<1> HIDE DEF j, c
<1>7. new \in SUBSET Numbered /\ (\A d \in new : d = c) /\ (device # 0 => c \in new)
  BY <1>5
<1>8. device = 0 => new = {}
  OBVIOUS
<1> HIDE DEF new
<1>9. BusTypes /\ BusTypes' /\ Moved(1, new)
  BY <1>1, <1>7, HandleFacts DEF Good, Types
<1>10. OnBus("Delete")'
  <2>1. CASE c.m = "Delete" /\ device # 0
    <3>1. c \notin Made /\ (\A d : d.m = "Delete" => ~Live(1, d)) /\ \A d : d \in new <=> d = c
      BY <1>5, <1>7, <2>1, NoDeleteYet
    <3>2. "Delete" \notin Linking
      BY DEF Linking
    <3> QED BY <1>1, <1>3, <1>5, <1>6, <1>9, <2>1, <3>1, <3>2, OnBusMade
  <2>2. CASE \A d \in new : d.m # "Delete"
    <3>1. \A d \in calls : d.m = "Delete" /\ OfJob(d) /\ Live(1, d) => job' # NoJob /\ job'.id = d.id
      BY <1>1, <1>3, <1>6 DEF OfJob
    <3> QED BY <1>7, <1>9, <2>2, <3>1, OnBusKept
  <2> QED BY <1>7, <1>8, <2>1, <2>2
<1>11. ChainInv'
  <2>1. \A d \in new : d = JobCall(d.m, job) /\ d.m = StartOf[job.mode]
    BY <1>5, <1>7
  <2> QED BY <1>1, <1>3, <1>9, <2>1, ChainKept
<1>12. DeleteInv'
  <2> SUFFICES ASSUME NEW d \in calls', d.m = "Delete", d.id = job'.id PROVE AtWork(job')
    BY DEF DeleteInv, OfJob, AtWork
  <2>1. d \in calls \/ d \in new
    BY <1>9, CallsNow
  <2>2. d \notin calls
    BY <1>1, <1>3, NoDeleteYet DEF OfJob
  <2>3. b
    BY <1>4, <1>5, <1>7, <2>1, <2>2
  <2> QED BY <1>1, <1>3, <2>3 DEF AtWork
<1>13. HolderInv'
  <2>1. inbox[1].call.user = job.user
    BY <1>9, AboutJob DEF Permits, Moved
  <2> QED BY <1>1, <1>3, <1>9, <2>1, HolderKept
<1>14. ListedInv'
  BY <1>9, ListedKept
<1>15. ShownInv'
  <2>1. \A u \in Users : ~Hides(u) /\ ~Deleted(1, u)
    BY DEF Hides, Deleted, Permits
  <2> QED BY <1>1, <1>9, <2>1, ShownKept
<1> QED BY <1>10, <1>11, <1>12, <1>13, <1>14, <1>15

LEMMA ClaimedSound == ASSUME Good, Good', Sound, Claimed PROVE Sound'
<1>1. /\ inbox # <<>> /\ Msg = inbox[1] /\ 1 \in DOMAIN inbox /\ Msg.call.m = "Claim"
  BY ReplyFacts DEF Good, Types, Claimed
<1>2. CASE ~Mine /\ Stale
  BY <1>1, <1>2, StaleSound
<1>3. CASE Mine
  <2>1. job \in Jobs /\ job # NoJob /\ Msg.call.id = job.id
    BY <1>3, JobFacts DEF Mine
  <2>2. job.pending /\ ~job.claimed /\ ~job.ending
    BY <1>1, <1>3 DEF Good, ClaimsInv, ClaimInv, OnBus, InboxInv, Mine, Asks
  <2>3. \A c \in calls : c.m = "Delete" => ~OfJob(c)
    BY <2>1, <2>2, NoDeleteYet
  <2>4. CASE Finish([job EXCEPT !.pending = FALSE], FALSE)
    <3> DEFINE j == [job EXCEPT !.pending = FALSE]
    <3>1. /\ j \in Jobs /\ j.id = job.id /\ j.user = job.user /\ j.mode = job.mode
          /\ j.ending = job.ending /\ j.success = job.success /\ ~j.claimed /\ Finish(j, FALSE)
      BY <2>1, <2>2, <2>4 DEF Jobs
    <3> HIDE DEF j
    <3> QED BY <1>1, <2>1, <2>3, <3>1, FinishSound
  <2>5. CASE Msg.value = "ok" /\ Finish([job EXCEPT !.pending = FALSE, !.claimed = TRUE], FALSE)
    <3> DEFINE j == [job EXCEPT !.pending = FALSE, !.claimed = TRUE]
    <3>1. /\ j \in Jobs /\ j.id = job.id /\ j.user = job.user /\ j.mode = job.mode
          /\ j.ending = job.ending /\ j.success = job.success /\ Finish(j, FALSE)
      BY <2>1, <2>5 DEF Jobs
    <3> HIDE DEF j
    <3>2. Permits(1)
      BY <1>1, <2>5 DEF Permits
    <3> QED BY <1>1, <2>1, <2>3, <3>1, <3>2, FinishSound
  <2>6. CASE /\ Msg.value = "ok" /\ ~job.cancel
             /\ Continue([job EXCEPT !.claimed = TRUE, !.mutation = job.mode = "delete"],
                         IF device = 0 THEN {} ELSE {JobCall(StartOf[job.mode], job)})
    <3> DEFINE b == job.mode = "delete"
    <3>1. /\ b \in BOOLEAN /\ (b <=> job.mode = "delete")
          /\ Continue([job EXCEPT !.claimed = TRUE, !.mutation = b],
                      IF device = 0 THEN {} ELSE {JobCall(StartOf[job.mode], job)})
      BY <2>6
    <3> HIDE DEF b
    <3>2. Permits(1)
      BY <1>1, <2>6 DEF Permits
    <3> QED BY <1>1, <2>1, <2>2, <2>6, <3>1, <3>2, GoesOnSound
  <2> QED BY <1>3, <2>4, <2>5, <2>6 DEF Claimed
<1> QED BY <1>2, <1>3 DEF Claimed

LEMMA StartedSound == ASSUME Good, Good', Sound, Started PROVE Sound'
<1>1. /\ inbox # <<>> /\ Msg = inbox[1] /\ 1 \in DOMAIN inbox
      /\ Msg.call.m \in {"EnrollStart", "VerifyStart", "Delete"}
  BY ReplyFacts DEF Good, Types, Started
<1>2. Msg.call.m = "Delete" /\ Msg.value = "ok" => Mine /\ OfJob(Msg.call)
  BY <1>1, AboutJob DEF OfJob, Mine
<1>3. CASE ~Mine /\ Stale
  BY <1>1, <1>2, <1>3, StaleSound
<1>4. CASE Mine
  <2>1. job \in Jobs /\ job # NoJob /\ Msg.call.id = job.id
    BY <1>4, JobFacts DEF Mine
  <2>2. job.claimed
    <3>1. Msg.call \in Made /\ Msg.call.m \in JobMethods \ {"Claim"}
      BY <1>1 DEF Made, Handled, JobMethods
    <3> QED BY <2>1, <3>1 DEF Good, PhaseInv
  <2>3. \A c \in calls : c.m = "Delete" /\ OfJob(c) => c = inbox[1].call
    <3> SUFFICES ASSUME NEW c \in calls, c.m = "Delete", OfJob(c) PROVE c = inbox[1].call
      OBVIOUS
    <3>1. /\ AtWork(job) /\ job.mode = "delete" /\ c = JobCall("Delete", job)
      BY <2>1, OnlyDeletes
    <3>2. inbox[1].call \in Made /\ inbox[1].call.m \in JobMethods
      BY <1>1 DEF Made, Handled, JobMethods
    <3>3. /\ inbox[1].call = JobCall(inbox[1].call.m, job)
          /\ inbox[1].call.m \in {"Claim", StartOf[job.mode]}
      BY <1>1, <2>1, <3>1, <3>2 DEF Sound, ChainInv, AtWork
    <3>4. inbox[1].call.m = "Delete"
      BY <1>1, <3>1, <3>3 DEF StartOf
    <3> QED BY <3>1, <3>3, <3>4
  <2>4. inbox[1].call.m = "Delete" /\ inbox[1].value = "ok" =>
          AtWork(job) /\ job.mode = "delete"
    BY <1>1, <1>2, <2>1, OnlyDeletes DEF OfJob
  <2> DEFINE b == job.mode # "delete"
             failed == [job EXCEPT !.pending = FALSE]
             on == [failed EXCEPT !.started = b]
  <2>5. \/ Msg.value = "error" /\ Finish(failed, FALSE)
        \/ Msg.value = "ok" /\ job.cancel /\ Finish(on, FALSE)
        \/ ~b /\ Finish(on, TRUE)
        \/ b /\ Finish(on, job.terminal = "yes")
        \/ b /\ Continue(on, {})
    BY <1>4 DEF Started
  <2>6. b \in BOOLEAN /\ (b <=> job.mode # "delete")
    OBVIOUS
  <2> HIDE DEF b
  <2>7. /\ failed \in Jobs /\ failed.id = job.id /\ failed.user = job.user /\ failed.mode = job.mode
        /\ failed.ending = job.ending /\ failed.success = job.success /\ ~failed.pending
        /\ on \in Jobs /\ on.id = job.id /\ on.user = job.user /\ on.mode = job.mode
        /\ on.ending = job.ending /\ on.success = job.success /\ ~on.pending
    BY <2>1, <2>6 DEF Jobs
  <2> HIDE DEF failed, on
  <2>8. CASE Msg.value = "error" /\ Finish(failed, FALSE)
    BY <1>1, <2>1, <2>2, <2>3, <2>7, <2>8, FinishSound
  <2>9. ASSUME NEW s \in BOOLEAN, Finish(on, s),
               inbox[1].call.m = "Delete" /\ inbox[1].value = "ok" => s
        PROVE  Sound'
    BY <1>1, <2>1, <2>2, <2>3, <2>4, <2>7, <2>9, FinishSound DEF AtWork
  <2>10. CASE Msg.value = "ok" /\ job.cancel /\ Finish(on, FALSE)
    BY <2>4, <2>9, <2>10 DEF AtWork
  <2>11. CASE ~b /\ Finish(on, TRUE)
    BY <2>9, <2>11
  <2>12. CASE b /\ Finish(on, job.terminal = "yes")
    <3>1. (job.terminal = "yes") \in BOOLEAN
      OBVIOUS
    <3> QED BY <2>4, <2>6, <2>9, <2>12, <3>1
  <2>13. CASE b /\ Continue(on, {})
    <3>1. {} \in SUBSET Numbered
      OBVIOUS
    <3>2. ~(inbox[1].call.m = "Delete" /\ inbox[1].value = "ok")
      BY <2>4, <2>6, <2>13
    <3> QED BY <1>1, <2>1, <2>2, <2>3, <2>7, <2>13, <3>1, <3>2, ContinueSound
  <2> QED BY <2>5, <2>8, <2>10, <2>11, <2>12, <2>13
<1> QED BY <1>3, <1>4 DEF Started

LEMMA StoppedSound == ASSUME Good, Good', Sound, Stopped PROVE Sound'
<1> DEFINE c == [Msg.call EXCEPT !.m = "Release"]
<1>1. /\ inbox # <<>> /\ Msg = inbox[1] /\ 1 \in DOMAIN inbox /\ Msg.call \in Numbered
      /\ Msg.call.m = "Stop"
  BY ReplyFacts DEF Stopped, Good, Types
<1>2. Handle({c}) /\ UNCHANGED <<job, shown>>
  BY DEF Stopped, client
<1>3. c \in Numbered /\ c.m = "Release" /\ c.id = Msg.call.id
  BY <1>1 DEF Numbered, Calls, Linking, Asking, Methods
<1>4. job # NoJob /\ c.id = job.id => c = JobCall("Release", job) /\ job.ending
  <2>1. Msg.call \in Made /\ "Stop" \in JobMethods
    BY <1>1 DEF Made, Handled, JobMethods
  <2>2. job # NoJob => job.mode \in Modes
    BY JobFacts
  <2>3. job # NoJob /\ c.id = job.id => Msg.call = JobCall("Stop", job) /\ job.ending
    BY <1>1, <1>3, <2>1, <2>2 DEF Sound, ChainInv, StartOf, Modes
  <2> QED BY <2>3 DEF JobCall, Call
<1> HIDE DEF c
<1>5. Moved(1, {c}) /\ {c} \in SUBSET Numbered
  BY <1>1, <1>2, <1>3, HandleFacts DEF Good, Types
<1> QED BY <1>1, <1>2, <1>3, <1>4, <1>5, SameSound

LEMMA ReleasedSound == ASSUME Good, Good', Sound, Released PROVE Sound'
<1>1. /\ inbox # <<>> /\ Msg = inbox[1] /\ 1 \in DOMAIN inbox /\ Msg.call.m = "Release"
  BY ReplyFacts DEF Good, Types, Released
<1>2. CASE ~Mine /\ Stale
  BY <1>1, <1>2, StaleSound
<1>3. CASE Mine /\ Complete(job)
  <2>1. job \in Jobs /\ job # NoJob /\ Msg.call.id = job.id /\ job.mode \in Modes
    BY <1>3, JobFacts DEF Mine
  <2>2. Msg.call \in Made /\ "Release" \in JobMethods
    BY <1>1 DEF Made, Handled, JobMethods
  <2>3. job.ending
    BY <1>1, <2>1, <2>2 DEF Sound, ChainInv, StartOf, Modes
  <2>4. \A d \in calls : d.m = "Delete" => ~OfJob(d)
    BY <2>3 DEF Sound, DeleteInv, AtWork
  <2> QED BY <1>1, <1>3, <2>1, <2>4, CompleteSound
<1> QED BY <1>2, <1>3 DEF Released

LEMMA StatusSound == ASSUME Good, Good', Sound, Status PROVE Sound'
<1>1. /\ inbox # <<>> /\ Msg = inbox[1] /\ 1 \in DOMAIN inbox /\ inbox[1].kind = "status"
      /\ inbox[1].call = NoCall
  BY NewsFacts DEF Status, Good
<1>2. NoCall.m # "Delete"
  BY DEF NoCall, Call
<1>3. CASE Stale
  BY <1>1, <1>2, <1>3, StaleSound
<1>4. CASE job # NoJob /\ job.mode = Msg.mode /\ Finish(job, Msg.value = "ok")
  <2>1. job \in Jobs /\ (Msg.value = "ok") \in BOOLEAN
    BY <1>4, JobFacts
  <2>2. Msg.mode \in {"enroll", "verify"}
    <3>1. Msg \in Messages
      BY <1>1 DEF Good, Types, BusTypes
    <3> QED BY <1>1, <3>1 DEF Messages, Replies
  <2>3. \A c \in calls : c.m = "Delete" => ~OfJob(c)
    BY <1>4, <2>2, OnlyDeletes
  <2> QED BY <1>1, <1>2, <1>4, <2>1, <2>3, FinishSound
<1> QED BY <1>3, <1>4 DEF Status

LEMMA OwnerChangedSound == ASSUME Good, Good', Sound, OwnerChanged PROVE Sound'
<1> USE DEF Sound
<1>1. /\ inbox # <<>> /\ Msg = inbox[1] /\ 1 \in DOMAIN inbox /\ inbox[1].kind = "owner"
      /\ inbox[1].call = NoCall
  BY NewsFacts DEF OwnerChanged, Good
<1>2. Moved(1, {}) /\ {} \in SUBSET Numbered /\ BusTypes /\ BusTypes'
  BY <1>1, HandleFacts DEF Good, Types, OwnerChanged
<1>3. NoCall.m # "Delete"
  BY DEF NoCall, Call
<1>4. CASE device = 0
  <2>1. UNCHANGED <<job, shown>>
    BY <1>4 DEF OwnerChanged, client
  <2> HIDE DEF Sound
  <2> QED BY <1>1, <1>2, <1>3, <2>1, PlainSound
<1>5. CASE device # 0
  <2>1. job' = NoJob /\ shown' = [u \in Users |-> "unknown"]
    BY <1>5 DEF OwnerChanged
  <2>2. \A c : c.m = "Delete" => ~Live(1, c)
    BY <1>1 DEF Good, ClaimsInv, OwnerInv, OnBus, LostInv, Live, Linking
  <2>3. OnBus("Delete")'
    BY <1>2, <2>2, OnBusKept
  <2>4. ChainInv' /\ DeleteInv' /\ ShownInv'
    BY <2>1 DEF ChainInv, DeleteInv, ShownInv, OfJob
  <2>5. HolderInv' /\ ListedInv'
    BY <1>2, <2>1, HolderKept, ListedKept
  <2> QED BY <2>3, <2>4, <2>5
<1> QED BY <1>4, <1>5

LEMMA CancelSound == ASSUME Good, Good', Sound, Cancel PROVE Sound'
<1>1. /\ job \in Jobs /\ job # NoJob /\ ~job.ending /\ ~job.mutation
      /\ job.id \in Nat /\ job.user \in Users
  BY JobFacts DEF Cancel
<1>2. \A c \in calls : c.m = "Delete" => ~OfJob(c)
  BY <1>1 DEF Sound, DeleteInv, AtWork
<1> DEFINE j == [job EXCEPT !.cancel = TRUE]
           c == JobCall("Stop", job)
<1>3. \/ job' = [j EXCEPT !.terminal = "no"] /\ Make({})
      \/ job' = [j EXCEPT !.ending = TRUE] /\ Make({c})
  BY DEF Cancel
<1>4. /\ job'.id = job.id /\ job'.user = job.user /\ job'.mode = job.mode
      /\ job'.claimed = job.claimed
      /\ Make({}) \/ (job'.ending /\ Make({c}))
  BY <1>1, <1>3 DEF Jobs
<1>5. job' # NoJob
  <2>1. job'.id # 0
    BY <1>1, <1>4, RegistryAssumption DEF Jobs
  <2> QED BY <2>1 DEF NoJob
<1>6. c \in Numbered /\ c = JobCall(c.m, job) /\ c.m = "Stop"
  BY <1>1, CallFacts DEF JobCall, JobMethods
<1> HIDE DEF c
<1>7. ASSUME NEW new \in SUBSET {c}, Make(new), new # {} => job'.ending PROVE Sound'
  <2>1. new \in SUBSET Numbered /\ \A d, e \in new : d = e
    BY <1>6
  <2>2. Moved(0, new) /\ shown' = shown
    BY <1>7, <2>1, MakeFacts DEF Good, Types, Cancel
  <2> QED BY <1>1, <1>2, <1>4, <1>5, <1>6, <1>7, <2>1, <2>2, JobSound
<1> QED BY <1>4, <1>7

LEMMA StartSound ==
  ASSUME Good, Good', Sound, NEW mode \in Modes, NEW u \in Users, Start(mode, u) PROVE Sound'
<1> USE DEF Sound
<1> DEFINE k == count.jobs + 1
           c == Call("Claim", k, u, {})
           new == {c}
<1>1. job = NoJob
  BY DEF Start, Ready, Running, Good, DialogInv
<1>2. /\ job'.id = k /\ job'.user = u /\ ~job'.claimed /\ JobCall("Claim", job') = c
      /\ Make(new) /\ shown' = shown
  BY DEF Start, JobCall
<1>3. count.jobs \in Nat
  BY CountFacts DEF Good, Types
<1>4. c \in Numbered /\ c.m = "Claim"
  BY <1>3, CallFacts DEF JobMethods
<1>5. job' # NoJob
  BY <1>2, <1>3 DEF NoJob
<1> HIDE DEF c
<1>6. new \in SUBSET Numbered /\ (\A d, e \in new : d = e) /\ \A d \in new : d = c
  BY <1>4
<1> HIDE DEF new
<1>7. Moved(0, new) /\ BusTypes /\ BusTypes'
  BY <1>2, <1>6, MakeFacts DEF Good, Types
<1>8. \A d \in Made : d.m \in JobMethods => d.id # k
  <2>1. ~(k <= count.jobs)
    BY <1>3
  <2> HIDE DEF k
  <2> QED BY <2>1 DEF Good, KnownInv
<1>9. Made' \subseteq Made \cup new /\ calls' \subseteq calls \cup new
  BY <1>7, MovedMade, CallsNow
<1>10. OnBus("Delete")'
  BY <1>1, <1>4, <1>6, <1>7, OnBusKept DEF OfJob
<1>11. ChainInv'
  BY <1>2, <1>4, <1>6, <1>8, <1>9 DEF ChainInv
<1>12. DeleteInv'
  <2>1. calls \subseteq Made
    BY DEF Made
  <2> QED BY <1>2, <1>4, <1>6, <1>8, <1>9, <2>1 DEF DeleteInv, OfJob, JobMethods
<1>13. HolderInv' /\ ListedInv'
  BY <1>2, <1>7, HolderKept, ListedKept
<1>14. ShownInv'
  <2>1. \A v \in Users : ~Hides(v)
    BY <1>1 DEF Hides
  <2> QED BY <1>2, <1>7, <2>1, ShownKept
<1> QED BY <1>10, <1>11, <1>12, <1>13, <1>14

\* What fprintd and the bus do changes neither the job nor its calls.
LEMMA ChainStays ==
  ASSUME ChainInv, DeleteInv, job' = job, calls' = calls, Made' \subseteq Made \cup {NoCall}
  PROVE  ChainInv' /\ DeleteInv'
<1>1. NoCall.m \notin JobMethods
  BY DEF NoCall, Call, JobMethods
<1> QED BY <1>1 DEF ChainInv, DeleteInv, OfJob, AtWork

\* Messages that are added about no List, and by a claimed' that is the same or
\* nobody about no Claim.
LEMMA BusSound ==
  ASSUME Sound, BusTypes, OnBus("Delete")', job' = job, calls' = calls, shown' = shown,
         Made' \subseteq Made \cup {NoCall}, claimed' \in {Nobody, claimed},
         \A u \in Users : stored[u] => stored'[u],
         \A i \in DOMAIN inbox : inbox[i].call.m = "Delete" => i \in DOMAIN inbox' /\ inbox'[i] = inbox[i],
         \A i \in DOMAIN inbox' : \/ i \in DOMAIN inbox /\ inbox'[i] = inbox[i]
                                  \/ inbox'[i].call.m \notin {"List", "Claim"}
                                  \/ inbox'[i].value = "error"
  PROVE  Sound'
<1> USE DEF Sound
<1>1. ChainInv' /\ DeleteInv'
  BY ChainStays
<1>2. HolderInv'
  BY DEF HolderInv, Permits
<1>3. ListedInv'
  <2> SUFFICES ASSUME NEW u \in Users, ~stored'[u], NEW i \in DOMAIN inbox', Shows(i, u)'
               PROVE  \E k \in DOMAIN inbox' : k > i /\ Deleted(k, u)'
    BY DEF ListedInv
  <2>1. i \in DOMAIN inbox /\ Shows(i, u)
    BY DEF Shows
  <2>2. PICK k \in DOMAIN inbox : k > i /\ Deleted(k, u)
    BY <2>1 DEF ListedInv
  <2> QED BY <2>2 DEF Deleted
<1>4. ShownInv'
  <2> SUFFICES ASSUME NEW u \in Users, ~stored'[u], shown[u] = "yes", ~Hides(u)
               PROVE  \E i \in DOMAIN inbox' : Deleted(i, u)'
    BY DEF ShownInv, Hides
  <2>1. PICK i \in DOMAIN inbox : Deleted(i, u)
    BY DEF ShownInv
  <2> QED BY <2>1 DEF Deleted
<1> QED BY <1>1, <1>2, <1>3, <1>4

\* fprintd answers a call, or the bus gives it up.
LEMMA AnswerSound ==
  ASSUME Good, Sound, NEW c \in Numbered, NEW v, ReplyTo(c, v) \in Messages, Answer(c, v),
         UNCHANGED <<client, calls>>,
         NEW s \in {0, 1}, sent' \in Seq(Numbered),
         \A i \in DOMAIN sent' : i + s \in DOMAIN sent /\ sent'[i] = sent[i + s],
         asked' \subseteq asked, c.m = "Delete" => c \in asked /\ c \notin asked',
         stored' = stored \/ (c.m = "Delete" /\ v = "ok" /\ c \in calls /\ NotAnswered(c)),
         \A u \in Users : stored[u] /\ ~stored'[u] => c.user = u,
         \A u \in Users : stored'[u] => stored[u],
         c.m = "List" /\ v = "yes" => stored[c.user],
         \/ claimed' \in {Nobody, claimed} /\ ~(c.m = "Claim" /\ v = "ok")
         \/ c.m = "Claim" /\ c \in asked /\ claimed' = c.user
  PROVE  Sound'
<1> USE DEF Sound
<1>1. /\ BusTypes /\ UNCHANGED <<job, shown>>
  BY DEF Good, Types, client
<1>2. /\ \A i \in DOMAIN inbox : i \in DOMAIN inbox' /\ inbox'[i] = inbox[i]
      /\ \A i \in DOMAIN inbox' :
           \/ i \in DOMAIN inbox /\ inbox'[i] = inbox[i]
           \/ /\ i \notin DOMAIN inbox /\ inbox'[i] = ReplyTo(c, v)
              /\ c \in calls /\ NotAnswered(c)
      /\ c \in calls /\ NotAnswered(c) => \E i \in DOMAIN inbox' : inbox'[i] = ReplyTo(c, v)
      /\ inbox' \in Seq(Messages)
  BY <1>1, AnswerFacts
<1>3. Alone("Delete")
  BY OnlyDeletes DEF Alone, OfJob
<1>4. OnBus("Delete")'
  BY <1>1, <1>3, OnBusAnswered DEF Good, ClaimsInv
<1>5. Made' \subseteq Made
  <2>1. \A i \in DOMAIN sent' : sent'[i] \in {sent[k] : k \in DOMAIN sent}
    OBVIOUS
  <2>2. \A i \in DOMAIN inbox' : inbox'[i].call \in Handled \cup calls
    BY <1>2 DEF Handled, ReplyTo
  <2> QED BY <2>1, <2>2 DEF Made, Handled
<1>6. ChainInv' /\ DeleteInv'
  BY <1>1, <1>5, ChainStays
\* No other Claim is granted, and the job waits, while one waits for an answer.
<1>7. ASSUME c.m = "Claim", c \in asked
      PROVE  /\ ~(job # NoJob /\ job.claimed)
             /\ \A i \in DOMAIN inbox : ~Permits(i)
  <2>1. OfJob(c) /\ NotAnswered(c)
    BY <1>7 DEF Good, ClaimsInv, OnBus, AskedInv
  <2>2. job.pending /\ ~job.claimed /\ \A d \in calls : d.m = "Claim" /\ d.id = c.id => d = c
    BY <1>7, <2>1 DEF Good, ClaimsInv, ClaimInv, OfJob, Asks
  <2>3. ASSUME NEW i \in DOMAIN inbox, Permits(i) PROVE FALSE
    <3>1. OfJob(inbox[i].call)
      BY <2>3 DEF Good, ClaimsInv, OnBus, InboxInv, Permits
    <3>2. inbox[i].call = c
      BY <2>1, <2>2, <2>3, <3>1 DEF OfJob, Permits
    <3> QED BY <2>1, <3>2 DEF NotAnswered
  <2> QED BY <2>2, <2>3
<1>8. HolderInv'
  <2>1. CASE claimed' \in {Nobody, claimed} /\ ~(c.m = "Claim" /\ v = "ok")
    BY <1>1, <1>2, <2>1 DEF HolderInv, Permits, ReplyTo
  <2>2. CASE c.m = "Claim" /\ c \in asked /\ claimed' = c.user
    BY <1>1, <1>2, <1>7, <2>2 DEF HolderInv, Permits, ReplyTo
  <2> QED BY <2>1, <2>2
\* A Delete that has just been carried out is in the inbox, after all else.
<1>9. ASSUME NEW u \in Users, stored[u], ~stored'[u]
      PROVE  \E k \in DOMAIN inbox' : Deleted(k, u)' /\ \A i \in DOMAIN inbox : k > i
  <2>1. c.m = "Delete" /\ v = "ok" /\ c.user = u /\ c \in calls /\ NotAnswered(c)
    BY <1>9
  <2>2. PICK k \in DOMAIN inbox' : inbox'[k] = ReplyTo(c, v)
    BY <1>2, <2>1
  <2>3. k \notin DOMAIN inbox
    BY <1>2, <2>1, <2>2 DEF NotAnswered, ReplyTo
  <2>4. \A i \in DOMAIN inbox : k > i
    BY <1>1, <1>2, <2>3 DEF BusTypes
  <2> QED BY <2>1, <2>2, <2>4 DEF Deleted, ReplyTo
<1>10. ListedInv'
  <2> SUFFICES ASSUME NEW u \in Users, ~stored'[u], NEW i \in DOMAIN inbox', Shows(i, u)'
               PROVE  \E k \in DOMAIN inbox' : k > i /\ Deleted(k, u)'
    BY DEF ListedInv
  <2>1. CASE i \in DOMAIN inbox /\ inbox'[i] = inbox[i]
    <3>1. CASE stored[u]
      BY <1>9, <2>1, <3>1
    <3>2. CASE ~stored[u]
      <4>1. PICK k \in DOMAIN inbox : k > i /\ Deleted(k, u)
        BY <2>1, <3>2 DEF ListedInv, Shows
      <4> QED BY <1>2, <4>1 DEF Deleted
    <3> QED BY <3>1, <3>2
  <2>2. CASE inbox'[i] = ReplyTo(c, v)
    <3>1. c.m = "List" /\ v = "yes" /\ c.user = u
      BY <2>2 DEF Shows, ReplyTo
    <3> QED BY <3>1
  <2> QED BY <1>2, <2>1, <2>2
<1>11. ShownInv'
  <2> SUFFICES ASSUME NEW u \in Users, ~stored'[u], shown[u] = "yes", ~Hides(u)
               PROVE  \E i \in DOMAIN inbox' : Deleted(i, u)'
    BY <1>1 DEF ShownInv, Hides
  <2>1. CASE stored[u]
    BY <1>9, <2>1
  <2>2. CASE ~stored[u]
    <3>1. PICK i \in DOMAIN inbox : Deleted(i, u)
      BY <2>2 DEF ShownInv
    <3> QED BY <1>2, <3>1 DEF Deleted
  <2> QED BY <2>1, <2>2
<1> QED BY <1>4, <1>6, <1>8, <1>10, <1>11

LEMMA RefuseSound ==
  ASSUME Good, Sound, "Delete" \notin TimesOut, NEW c, Refuse(c) \/ (c \in calls /\ Timeout(c))
  PROVE  Sound'
<1>1. /\ Answer(c, "error") /\ UNCHANGED <<client, calls, sent, claimed, stored>>
      /\ asked' \subseteq asked
      /\ (c \in asked /\ c \notin asked') \/ c.m # "Delete"
  BY DEF Refuse, Timeout, fprintd
<1>2. BusTypes /\ c \in Numbered
  BY DEF Refuse, Timeout, Good, Types, BusTypes
<1>3. ReplyTo(c, "error") \in Messages
  BY <1>2, ReplyTyped
<1>4. sent' \in Seq(Numbered) /\ \A i \in DOMAIN sent' : i + 0 \in DOMAIN sent /\ sent'[i] = sent[i + 0]
  <2>1. \A i \in DOMAIN sent' : i + 0 = i
    BY <1>1, <1>2 DEF BusTypes
  <2> QED BY <1>1, <1>2, <2>1 DEF BusTypes
<1> QED BY <1>1, <1>2, <1>3, <1>4, AnswerSound

LEMMA GrantSound == ASSUME Good, Sound, NEW c \in asked, Grant(c) PROVE Sound'
<1>1. /\ asked' = asked \ {c} /\ UNCHANGED <<client, calls, sent>>
      /\ BusTypes /\ FprintdTypes /\ c \in Numbered
  BY DEF Grant, Good, Types, BusTypes
<1>2. sent' \in Seq(Numbered) /\ \A i \in DOMAIN sent' : i + 0 \in DOMAIN sent /\ sent'[i] = sent[i + 0]
  <2>1. \A i \in DOMAIN sent' : i + 0 = i
    BY <1>1 DEF BusTypes
  <2> QED BY <1>1, <2>1 DEF BusTypes
<1>3. ASSUME NEW v \in {"ok", "error", "yes", "no"}, c.m = "List" => v \in {"yes", "no", "error"}
      PROVE  ReplyTo(c, v) \in Messages
  BY <1>1, <1>3, ReplyTyped
<1>4. CASE c.m = "List" /\ Answer(c, IF stored[c.user] THEN "yes" ELSE "no") /\ UNCHANGED fprintd
  <2>1. PICK v \in {"yes", "no"} : Answer(c, v) /\ (v = "yes" => stored[c.user])
    <3>1. CASE stored[c.user]
      BY <1>4, <3>1
    <3>2. CASE ~stored[c.user]
      BY <1>4, <3>2
    <3> QED BY <3>1, <3>2
  <2>2. UNCHANGED <<claimed, stored>>
    BY <1>4 DEF fprintd
  <2>3. ReplyTo(c, v) \in Messages
    BY <1>3, <1>4
  <2> QED BY <1>1, <1>2, <1>4, <2>1, <2>2, <2>3, AnswerSound
<1>5. CASE c.m = "Claim" /\ claimed' = c.user /\ Answer(c, "ok") /\ UNCHANGED <<action, stored>>
  BY <1>1, <1>2, <1>3, <1>5, AnswerSound
<1>6. CASE /\ c.m \in {"EnrollStart", "VerifyStart"}
           /\ Answer(c, "ok") /\ UNCHANGED <<claimed, stored>>
  BY <1>1, <1>2, <1>3, <1>6, AnswerSound
\* The finger that is deleted is the one the job is about.
<1>7. CASE /\ c.m = "Delete" /\ claimed \in Enrolled
           /\ stored' = [stored EXCEPT ![claimed] = FALSE]
           /\ Answer(c, "ok") /\ UNCHANGED <<claimed, action>>
  <2>1. OfJob(c) /\ NotAnswered(c)
    BY <1>7 DEF Sound, OnBus, AskedInv
  <2>2. c \in calls /\ job # NoJob /\ job.claimed /\ c = JobCall("Delete", job)
    BY <1>7, <2>1, OnlyDeletes DEF OfJob, AtWork
  <2>3. claimed \in Users /\ claimed # Nobody
    BY <1>7, RegistryAssumption DEF Enrolled
  <2>4. claimed = c.user
    BY <2>2, <2>3 DEF Sound, HolderInv, JobCall, Call
  <2>5. \A u \in Users : stored'[u] = (IF u = claimed THEN FALSE ELSE stored[u])
    BY <1>1, <1>7 DEF FprintdTypes
  <2> QED BY <1>1, <1>2, <1>3, <1>7, <2>1, <2>2, <2>4, <2>5, AnswerSound
<1>8. CASE Answer(c, "error") /\ UNCHANGED fprintd
  <2>1. UNCHANGED <<claimed, stored>>
    BY <1>8 DEF fprintd
  <2> QED BY <1>1, <1>2, <1>3, <1>8, <2>1, AnswerSound
<1> QED BY <1>4, <1>5, <1>6, <1>7, <1>8 DEF Grant

LEMMA ReadSound == ASSUME Good, Sound, Read PROVE Sound'
<1> DEFINE c == Head(sent)
<1>1. /\ c \in Numbered /\ Tail(sent) \in Seq(Numbered) /\ BusTypes
      /\ \A i \in DOMAIN Tail(sent) : i + 1 \in DOMAIN sent /\ Tail(sent)[i] = sent[i + 1]
      /\ c = sent[1] /\ 1 \in DOMAIN sent
  BY TailFacts DEF Good, Types, BusTypes, Read
<1>2. sent' = Tail(sent) /\ UNCHANGED <<client, calls>> /\ sent # <<>> /\ UNCHANGED <<job, shown>>
  BY DEF Read, client
<1>3. CASE c.m \in Asking /\ asked' = asked \cup {c} /\ UNCHANGED <<inbox, fprintd>>
  <2>1. OnBus("Delete")'
    BY <1>1, <1>2, <1>3, OnBusAsked DEF Sound
  <2>2. Made' \subseteq Made
    <3>1. \A i \in DOMAIN sent' : sent'[i] \in {sent[k] : k \in DOMAIN sent}
      BY <1>1, <1>2
    <3>2. c \in {sent[k] : k \in DOMAIN sent} /\ Handled' = Handled
      BY <1>1, <1>3 DEF Handled
    <3> QED BY <1>2, <1>3, <3>1, <3>2 DEF Made
  <2>3. UNCHANGED <<claimed, stored, inbox>>
    BY <1>3 DEF fprintd
  <2> QED BY <1>1, <1>2, <2>1, <2>2, <2>3, BusSound
<1>4. CASE ~(c.m \in Asking /\ asked' = asked \cup {c} /\ UNCHANGED <<inbox, fprintd>>)
  <2>1. PICK v \in {"ok", "error", "none"} :
          /\ Answer(c, v) /\ asked' = asked /\ stored' = stored
          /\ c.m \in Linking \cup {"Stop", "Release"}
          /\ claimed' \in {Nobody, claimed}
    <3>1. CASE c.m \in Linking /\ (\E v \in Values(c.m) : Answer(c, v)) /\ UNCHANGED <<asked, fprintd>>
      BY <3>1 DEF Values, fprintd
    <3>2. CASE /\ c.m = "Stop" /\ Answer(c, IF action = "none" THEN "error" ELSE "ok")
               /\ action' = "none" /\ UNCHANGED <<asked, claimed, stored>>
      BY <3>2
    <3>3. CASE /\ c.m = "Release" /\ Answer(c, IF claimed # Nobody THEN "ok" ELSE "error")
               /\ claimed' = Nobody /\ action' = "none" /\ UNCHANGED <<asked, stored>>
      BY <3>3
    <3> QED BY <1>4, <3>1, <3>2, <3>3 DEF Read
  <2>2. ReplyTo(c, v) \in Messages /\ c.m \notin {"List", "Claim", "Delete"}
    BY <1>1, <2>1, ReplyTyped DEF Linking
  <2>3. sent' \in Seq(Numbered) /\ \A i \in DOMAIN sent' : i + 1 \in DOMAIN sent /\ sent'[i] = sent[i + 1]
    BY <1>1, <1>2
  <2> HIDE DEF c
  <2> QED BY <1>1, <1>2, <2>1, <2>2, <2>3, AnswerSound
<1> QED BY <1>3, <1>4

LEMMA ScanSound == ASSUME Good, Sound, NEW ok \in BOOLEAN, Scan(ok) PROVE Sound'
<1>1. /\ action \in {"enroll", "verify"} /\ BusTypes /\ FprintdTypes
      /\ UNCHANGED <<job, shown, calls, sent, asked, claimed>>
  BY DEF Scan, client, Good, Types
<1>2. ~Gone(inbox)
  BY <1>1 DEF Gone, Good, ClaimsInv, OwnerInv
<1>3. /\ \A i \in DOMAIN inbox' :
           \/ i \in DOMAIN inbox /\ inbox'[i] = inbox[i]
           \/ inbox'[i].kind = "status" /\ inbox'[i].call = NoCall
           \/ \E k \in DOMAIN inbox : inbox'[i] = inbox[k] /\ inbox[k].call.m \in Scanning
      /\ \A i \in DOMAIN inbox :
           inbox[i].call.m \notin Scanning => i \in DOMAIN inbox' /\ inbox'[i] = inbox[i]
  BY <1>1, ScanFacts
<1>4. OnBus("Delete")'
  BY <1>1, <1>2, OnBusScanned DEF Sound
<1>5. Made' \subseteq Made \cup {NoCall}
  <2>1. \A i \in DOMAIN inbox' : inbox'[i].call \in Handled \cup {NoCall}
    BY <1>3 DEF Handled
  <2> QED BY <1>1, <2>1 DEF Made, Handled
<1>6. \A u \in Users : stored[u] => stored'[u]
  BY <1>1 DEF Scan, FprintdTypes
<1>7. NoCall.m \notin {"List", "Claim"} /\ {"List", "Claim", "Delete"} \cap Scanning = {}
  BY DEF NoCall, Call, Scanning
<1>8. \A i \in DOMAIN inbox' : \/ i \in DOMAIN inbox /\ inbox'[i] = inbox[i]
                               \/ inbox'[i].call.m \notin {"List", "Claim"}
  BY <1>3, <1>7
<1> QED BY <1>1, <1>3, <1>4, <1>5, <1>6, <1>7, <1>8, BusSound

LEMMA DieSound == ASSUME Good, Sound, Die PROVE Sound'
<1>1. /\ claimed' = Nobody /\ sent' = <<>> /\ asked' = {}
      /\ UNCHANGED <<job, shown, calls, stored>>
  BY DEF Die, client
<1>2. BusTypes /\ inbox \in Seq(Messages) /\ calls \subseteq Numbered /\ IsFiniteSet(calls)
  BY DEF Good, Types, BusTypes
<1>3. /\ \A i \in DOMAIN inbox : i \in DOMAIN inbox' /\ inbox'[i] = inbox[i]
      /\ \A i \in DOMAIN inbox' :
           \/ i \in DOMAIN inbox /\ inbox'[i] = inbox[i]
           \/ inbox'[i] = News
           \/ \E c \in calls : inbox'[i] = ReplyTo(c, "error")
  BY <1>2, DieFacts
<1>4. OnBus("Delete")'
  BY <1>2, OnBusLost DEF Sound
<1>5. Made' \subseteq Made \cup {NoCall}
  <2>1. \A i \in DOMAIN inbox' : inbox'[i].call \in Handled \cup calls \cup {NoCall}
    BY <1>3 DEF Handled, News, ReplyTo
  <2>2. \A i : i \notin DOMAIN sent'
    BY <1>1
  <2> QED BY <1>1, <2>1, <2>2 DEF Made, Handled
<1>6. \A i \in DOMAIN inbox' : \/ i \in DOMAIN inbox /\ inbox'[i] = inbox[i]
                               \/ inbox'[i].call.m \notin {"List", "Claim"}
                               \/ inbox'[i].value = "error"
  BY <1>3 DEF News, ReplyTo, NoCall, Call
<1> QED BY <1>1, <1>2, <1>3, <1>4, <1>5, <1>6, BusSound

LEMMA InitSound == Init => Sound
<1> SUFFICES ASSUME Init PROVE Sound
  OBVIOUS
<1>1. OnBus("Delete")
  BY DEF Init, OnBus, SentInv, AskedInv, InboxInv, LostInv
<1>2. ChainInv /\ DeleteInv /\ HolderInv
  BY DEF Init, ChainInv, DeleteInv, HolderInv
<1>3. ListedInv /\ ShownInv
  BY DEF Init, ListedInv, ShownInv
<1> QED BY <1>1, <1>2, <1>3 DEF Sound

LEMMA StutterSound == ASSUME Good, Sound, UNCHANGED vars PROVE Sound'
<1>1. UNCHANGED <<job, shown, calls, inbox, sent, asked, claimed, stored>>
  BY DEF vars, client, fprintd
<1>2. OnBus("Delete")'
  BY <1>1 DEF Sound, OnBus, SentInv, AskedInv, InboxInv, LostInv, OfJob, NotAnswered
<1>3. Made' = Made
  BY <1>1 DEF Made, Handled
<1> QED BY <1>1, <1>2, <1>3, BusSound DEF Good, Types

LEMMA StepSound ==
  ASSUME "Delete" \notin TimesOut, Good, Good', Sound, [Next]_vars PROVE Sound'
<1>1. CASE MainLoop
  BY <1>1, LinkingSound, DeviceReadySound, ListedSound, ClaimedSound, StartedSound, StoppedSound,
     ReleasedSound, StatusSound, OwnerChangedSound DEF MainLoop
<1>2. CASE User
  <2>1. ASSUME NEW mode \in Modes, NEW u \in Users,
               Begin(mode, u) \/ Start(mode, u) \/ StartRaises(mode, u)
        PROVE  Sound'
    <3>1. CASE Begin(mode, u)
      BY <3>1, QuietSound DEF Begin
    <3> QED BY <2>1, <3>1, StartSound, StartRaisesSound
  <2>2. CASE Dismiss
    BY <2>2, QuietSound DEF Dismiss
  <2>3. CASE AskForRegisters
    BY <2>3, AskSound DEF AskForRegisters
  <2>4. CASE PressAvbryt \/ Close
    <3>1. CASE Make({}) /\ UNCHANGED <<job, shown>>
      BY <3>1, QuietSound
    <3> QED BY <2>4, <3>1, CancelSound DEF PressAvbryt, Close
  <2> QED BY <1>2, <2>1, <2>2, <2>3, <2>4, ConnectSound DEF User
<1>3. CASE Read
  BY <1>3, ReadSound
<1>4. CASE Decide
  BY <1>4, GrantSound, RefuseSound DEF Decide
<1>5. CASE \E ok \in BOOLEAN : Scan(ok)
  BY <1>5, ScanSound
<1>6. CASE \E c \in calls : Timeout(c)
  BY <1>6, RefuseSound
<1>7. CASE Die
  BY <1>7, DieSound
<1>8. CASE UNCHANGED vars
  BY <1>8, StutterSound
<1> QED BY <1>1, <1>2, <1>3, <1>4, <1>5, <1>6, <1>7, <1>8 DEF Next

\* Once the client has no job and no call under way, a finger it shows as
\* registered is registered: every deletion fprintd carries out makes the client
\* forget what it showed of that finger, whatever answers to a List are still on
\* their way and whether or not fprintd disappears after it.  The bus gives up
\* neither a Claim nor a Delete: with a Delete that is given up and carried out
\* later it would be false.
THEOREM OnlyStoredIsOffered ==
  ASSUME "Claim" \notin TimesOut, "Delete" \notin TimesOut PROVE Spec => []OfferedIsStored
<1>1. Init => Good /\ Sound
  BY InitGood, InitSound
<1>2. Good /\ Sound /\ [Next]_vars => (Good /\ Sound)'
  BY StepGood, StepSound
<1>3. Good /\ Sound => OfferedIsStored
  <2> SUFFICES ASSUME Good, Sound, Quiet, NEW u \in Users, shown[u] = "yes", ~stored[u] PROVE FALSE
    BY DEF OfferedIsStored
  <2>1. ~Hides(u)
    BY DEF Hides, Quiet
  <2>2. PICK i \in DOMAIN inbox : Deleted(i, u)
    BY <2>1 DEF Sound, ShownInv
  <2> QED BY <2>2 DEF Quiet, Sound, OnBus, InboxInv, Deleted
<1> QED BY <1>1, <1>2, <1>3, PTL DEF Spec
=============================================================================
