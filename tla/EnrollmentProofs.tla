-------------------------- MODULE EnrollmentProofs --------------------------
(***************************************************************************)
(* What Enrollment.tla keeps true for readers of any number of stages and  *)
(* any number of scans that have to be made again.                         *)
(***************************************************************************)
EXTENDS Enrollment, SequenceTheorems, TLAPS

\* Nothing is left of an iteration outside the main loop.
DueInv == at["guide"] # "run" => due = 0

\* A program that does not run does nothing: no call, no claim, no finger.
HereInv ==
  /\ \A p \in Programs : at[p] = "absent" <=> p \notin setup.here
  /\ \A p \in Programs : at[p] = "absent" => calls[p] = <<>> /\ result[p] = "none"
  /\ owner \in Programs => owner \in setup.here
  /\ stored \subseteq setup.here

\* Whoever has heard of a completed enrollment heard of one that took place.
Heard(p) == \E i \in DOMAIN wire[p] : wire[p][i].value = "completed"
EvidenceInv ==
  \/ stored # {}
  \/ /\ \A p \in Programs : ~Heard(p) /\ result[p] # "stored"
     /\ ~completed /\ terminal # "yes"

CallOf == [place \in Pending \cup Ending |->
             CASE place = "claim" -> "Claim"     [] place = "start" -> "EnrollStart"
               [] place = "stop" -> "EnrollStop" [] place = "release" -> "Release"]

\* The guide has one call under way, or the answer to it; it holds the reader
\* neither before Claim is read nor after Release is.
GuideInv ==
  /\ result["guide"] = "killed" => at["guide"] = "over"
  /\ ~late /\ result["guide"] # "killed" =>
       /\ at["guide"] \in Pending \cup Ending =>
            \/ calls["guide"] = <<CallOf[at["guide"]]>> /\ answer = "none"
            \/ calls["guide"] = <<>> /\ answer # "none"
       /\ at["guide"] \notin Pending \cup Ending => calls["guide"] = <<>> /\ answer = "none"
       /\ at["guide"] \in {"absent", "ready", "over"} => owner # "guide"
       /\ at["guide"] = "claim" /\ answer # "ok" => owner # "guide"
       /\ at["guide"] = "release" /\ answer # "none" => owner # "guide"

NoReply(w) == \A i \in DOMAIN w : w[i].kind # "reply"
OneReply(w) == \A i, j \in DOMAIN w : w[i].kind = "reply" /\ w[j].kind = "reply" => i = j
Refused(w) == \E i \in DOMAIN w : w[i].kind = "reply" /\ w[i].value # "ok"

\* The same of a job, whose replies come among the signals.
JobInv ==
  /\ at["regis"] \in Pending \cup Ending =>
       \/ calls["regis"] = <<CallOf[at["regis"]]>> /\ NoReply(wire["regis"])
       \/ calls["regis"] = <<>> /\ OneReply(wire["regis"])
  /\ at["regis"] \notin Pending \cup Ending =>
       calls["regis"] = <<>> /\ NoReply(wire["regis"])
  /\ at["regis"] \in {"absent", "ready", "over"} => owner # "regis"
  /\ at["regis"] = "claim" /\ (calls["regis"] # <<>> \/ Refused(wire["regis"])) =>
       owner # "regis"
  /\ at["regis"] = "release" /\ calls["regis"] = <<>> => owner # "regis"

-----------------------------------------------------------------------------
(* Sequences                                                               *)

LEMMA AppendFacts ==
  ASSUME NEW S, NEW s \in Seq(S), NEW e \in S
  PROVE  /\ Append(s, e) \in Seq(S) /\ Len(Append(s, e)) = Len(s) + 1
         /\ s = <<>> => Append(s, e) = <<e>>
         /\ \A i \in DOMAIN Append(s, e) :
              (i \in DOMAIN s /\ Append(s, e)[i] = s[i]) \/ (i = Len(s) + 1 /\ Append(s, e)[i] = e)
<1>1. Append(s, e) \in Seq(S) /\ Len(Append(s, e)) = Len(s) + 1
  OBVIOUS
<1>2. s = <<>> => Append(s, e) = <<e>>
  OBVIOUS
<1>3. ASSUME NEW i \in DOMAIN Append(s, e)
      PROVE  (i \in DOMAIN s /\ Append(s, e)[i] = s[i]) \/ (i = Len(s) + 1 /\ Append(s, e)[i] = e)
  <2>1. i \in 1..(Len(s) + 1) /\ Len(s) \in Nat /\ DOMAIN s = 1..Len(s)
    BY <1>1
  <2>2. CASE i = Len(s) + 1
    BY <2>2
  <2>3. CASE i # Len(s) + 1
    BY <2>1, <2>3
  <2> QED BY <2>2, <2>3
<1> QED BY <1>1, <1>2, <1>3

LEMMA TailFacts ==
  ASSUME NEW S, NEW s \in Seq(S), s # <<>>
  PROVE  /\ Tail(s) \in Seq(S) /\ Len(Tail(s)) = Len(s) - 1
         /\ Head(s) \in S /\ Head(s) = s[1] /\ 1 \in DOMAIN s
         /\ \A i \in DOMAIN Tail(s) : i + 1 \in DOMAIN s /\ Tail(s)[i] = s[i + 1]
  OBVIOUS

LEMMA OnlyOne ==
  ASSUME NEW S, NEW e \in S
  PROVE  <<e>> # <<>> /\ Head(<<e>>) = e /\ Tail(<<e>>) = <<>> /\ Len(<<e>>) = 1
  OBVIOUS

LEMMA AppendNone == \A s, e : s = <<>> => Append(s, e) = <<e>>
  OBVIOUS

LEMMA LenFacts == ASSUME NEW S, NEW s \in Seq(S) PROVE Len(s) \in Nat /\ 0 \in 0..Len(s)
  OBVIOUS

LEMMA NoneFacts == ASSUME NEW S PROVE <<>> \in Seq(S) /\ DOMAIN <<>> = {}
  OBVIOUS

\* A message taken out leaves the others in their order.
LEMMA WithoutFacts ==
  ASSUME NEW S, NEW s \in Seq(S), NEW k \in DOMAIN s, k \in {1, 2}
  PROVE  /\ Without(s, k) \in Seq(S) /\ Len(Without(s, k)) = Len(s) - 1
         /\ \A i \in DOMAIN Without(s, k) :
              IF i < k THEN i \in DOMAIN s /\ Without(s, k)[i] = s[i]
              ELSE i + 1 \in DOMAIN s /\ Without(s, k)[i] = s[i + 1]
<1>1. CASE k = 1
  BY <1>1 DEF Without
<1>2. CASE k = 2
  <2>1. s # <<>> /\ Len(s) >= 2 /\ Len(s) \in Nat
    BY <1>2
  <2>2. Tail(s) \in Seq(S) /\ Len(Tail(s)) = Len(s) - 1 /\ Tail(s) # <<>>
    <3>1. Tail(s) \in Seq(S) /\ Len(Tail(s)) = Len(s) - 1
      BY <2>1, HeadTailProperties
    <3>2. Len(Tail(s)) # 0
      BY <2>1, <3>1
    <3> QED BY <3>1, <3>2, EmptySeq
  <2> DEFINE t == Tail(Tail(s))
  <2>3. /\ t \in Seq(S) /\ Len(t) = Len(s) - 2
        /\ \A i \in DOMAIN t : i + 1 \in DOMAIN Tail(s) /\ t[i] = Tail(s)[i + 1]
    BY <2>2, TailFacts
  <2>4. \A i \in DOMAIN t : i + 2 \in DOMAIN s /\ t[i] = s[i + 2]
    <3> SUFFICES ASSUME NEW i \in DOMAIN t PROVE i + 2 \in DOMAIN s /\ t[i] = s[i + 2]
      OBVIOUS
    <3>1. i \in 1..(Len(s) - 2)
      BY <2>3
    <3>2. t[i] = Tail(s)[i + 1] /\ Tail(s)[i + 1] = s[i + 1 + 1]
      BY <2>1, <2>2, <2>3, <3>1, TailFacts
    <3> QED BY <2>1, <3>1, <3>2
  <2>5. Head(s) \in S /\ Head(s) = s[1]
    BY <2>1
  <2> DEFINE h == <<Head(s)>>
  <2>6. h \in Seq(S) /\ Len(h) = 1 /\ h[1] = s[1]
    BY <2>5
  <2> HIDE DEF t, h
  <2>7. Without(s, k) = h \o t
    BY <1>2 DEF Without, t, h
  <2>8. /\ h \o t \in Seq(S) /\ Len(h \o t) = Len(h) + Len(t)
        /\ \A i \in 1..(Len(h) + Len(t)) :
             (h \o t)[i] = IF i <= Len(h) THEN h[i] ELSE t[i - Len(h)]
    <3>1. h \in Seq(S) /\ t \in Seq(S)
      BY <2>3, <2>6
    <3> QED BY <3>1, ConcatProperties, Zenon
  <2>9. ASSUME NEW i \in 1..(Len(t) + 1)
        PROVE  (h \o t)[i] = IF i = 1 THEN h[1] ELSE t[i - 1]
    BY <2>3, <2>6, <2>8
  <2>10. ASSUME NEW i \in DOMAIN (h \o t)
         PROVE  IF i < k THEN i \in DOMAIN s /\ (h \o t)[i] = s[i]
                ELSE i + 1 \in DOMAIN s /\ (h \o t)[i] = s[i + 1]
    <3>1. i \in 1..(Len(t) + 1) /\ Len(t) \in Nat /\ DOMAIN s = 1..Len(s)
      BY <2>3, <2>6, <2>8
    <3>2. CASE i = 1
      BY <1>2, <2>1, <2>6, <2>9, <3>1, <3>2
    <3>3. CASE i # 1
      <4>1. i - 1 \in DOMAIN t /\ i - 1 + 2 = i + 1 /\ ~(i < k)
        BY <1>2, <2>3, <3>1, <3>3
      <4>2. (h \o t)[i] = t[i - 1]
        BY <2>9, <3>1, <3>3
      <4> QED BY <2>4, <4>1, <4>2
    <3> QED BY <3>2, <3>3
  <2>11. Len(h \o t) = Len(s) - 1
    BY <2>1, <2>3, <2>6, <2>8
  <2> QED BY <2>7, <2>8, <2>10, <2>11
<1> QED BY <1>1, <1>2

-----------------------------------------------------------------------------
(* Prompts                                                                 *)

\* What PromptedOnce says of one program.
Once(v) == v.asked <= v.passed + v.attempt + (IF v.token = Token(v) THEN 1 ELSE 0)

\* A prompt counts for the stage and attempt it is made for.
LEMMA PromptFacts ==
  ASSUME NEW v \in Views, NEW b, Once(v)
  PROVE  Prompt(v, b) \in Views /\ Once(Prompt(v, b))
<1>1. Token(v) \in Tokens
  BY DEF Token, Tokens, Views
<1>2. CASE v.needed /\ b /\ v.token # Token(v)
  <2> DEFINE n == v.asked + 1
             t == Token(v)
             w == [v EXCEPT !.token = t, !.asked = n, !.swipe = TRUE]
  <2>0. n \in Nat /\ t \in Tokens
    BY <1>1 DEF Views
  <2> HIDE DEF n, t
  <2>1. /\ w \in Views /\ w.passed = v.passed /\ w.attempt = v.attempt
        /\ w.token = t /\ w.asked = n
    BY <2>0 DEF Views
  <2>2. Once(w)
    BY <1>2, <2>1 DEF Once, Token, Views, n, t
  <2> QED BY <1>2, <2>1, <2>2 DEF Prompt, n, t
<1>3. CASE ~(v.needed /\ b /\ v.token # Token(v))
  BY <1>3 DEF Prompt
<1> QED BY <1>2, <1>3

LEMMA ViewFacts ==
  ASSUME NEW v \in Views, NEW b, NEW value, NEW s, Once(v)
  PROVE  /\ Quiet(v) \in Views /\ Once(Quiet(v))
         /\ OnNeeded(v, value, b) \in Views /\ Once(OnNeeded(v, value, b))
         /\ OnProgress(v, s, b) \in Views /\ Once(OnProgress(v, s, b))
<1>1. Quiet(v) \in Views /\ Once(Quiet(v))
  BY DEF Quiet, Once, Token, Views
<1>2. OnNeeded(v, value, b) \in Views /\ Once(OnNeeded(v, value, b))
  <2> DEFINE needs == value = "yes"
             w == [v EXCEPT !.needed = needs]
  <2>1. needs \in BOOLEAN
    OBVIOUS
  <2> HIDE DEF needs
  <2>2. w \in Views /\ Once(w)
    BY <2>1 DEF Once, Token, Views
  <2>3. OnNeeded(v, value, b) = Prompt(w, b)
    BY DEF OnNeeded, needs
  <2> HIDE DEF w
  <2> QED BY <2>2, <2>3, PromptFacts
<1>3. OnProgress(v, s, b) \in Views /\ Once(OnProgress(v, s, b))
  <2> DEFINE w == IF s = "passed" THEN [v EXCEPT !.passed = @ + 1, !.swipe = FALSE]
                  ELSE [v EXCEPT !.attempt = @ + 1, !.swipe = FALSE]
  <2>1. w \in Views
    <3>1. /\ v.passed \in Nat /\ v.passed + 1 \in Nat
          /\ v.attempt \in Nat /\ v.attempt + 1 \in Nat
      BY DEF Views
    <3>2. \A n \in Nat : /\ [v EXCEPT !.passed = n, !.swipe = FALSE] \in Views
                        /\ [v EXCEPT !.attempt = n, !.swipe = FALSE] \in Views
      BY DEF Views
    <3> QED BY <3>1, <3>2
  <2>2. Once(w)
    <3>1. w.asked = v.asked /\ w.passed + w.attempt = v.passed + v.attempt + 1
      BY DEF Views
    <3>2. v.asked <= v.passed + v.attempt + 1
      BY DEF Once, Views
    <3> QED BY <2>1, <3>1, <3>2 DEF Once, Views
  <2>3. OnProgress(v, s, b) = Prompt(w, b)
    BY DEF OnProgress
  <2> HIDE DEF w
  <2> QED BY <2>1, <2>2, <2>3, PromptFacts
<1> QED BY <1>1, <1>2, <1>3

LEMMA InitInv ==
  Init => /\ TypeOK /\ PromptedOnce
          /\ DueInv /\ HereInv /\ EvidenceInv /\ GuideInv /\ JobInv
<1> SUFFICES ASSUME Init PROVE /\ TypeOK /\ PromptedOnce
                              /\ DueInv /\ HereInv /\ EvidenceInv /\ GuideInv /\ JobInv
  OBVIOUS
<1>0. setup.here \subseteq Programs /\ setup.stages \in Nat \ {0} /\ setup.retries \in Nat
  BY EnrollmentAssumption DEF Init
<1>1. /\ calls \in [Programs -> Seq(Calls)] /\ wire \in [Programs -> Seq(Messages)]
      /\ \A p \in Programs : calls[p] = <<>> /\ wire[p] = <<>> /\ DOMAIN wire[p] = {}
  BY DEF Init
<1>2. Fresh \in Views /\ Once(Fresh)
  BY DEF Fresh, Views, Tokens, Once, Token
<1>3. view \in [Programs -> Views] /\ \A p \in Programs : Once(view[p])
  BY <1>2 DEF Init
<1>4. PromptedOnce
  BY <1>3 DEF PromptedOnce, Once
<1>5. Len(wire["guide"]) = 0
  BY <1>1 DEF Programs
<1>6. TypeOK
  <2>1. {done, completed, quit, interrupted, sigint, late, cancel} \subseteq BOOLEAN
    BY DEF Init
  <2>2. /\ at \in [Programs -> Places]
        /\ result \in [Programs -> {"none", "stored", "not", "cancelled", "killed"}]
    BY DEF Init, Places
  <2>3. level \in 0..(setup.stages - 1) /\ retries \in 0..setup.retries
    <3>1. level = 0 /\ retries = 0
      BY DEF Init
    <3> DEFINE n == setup.stages
    <3>2. n \in Nat /\ n # 0
      BY <1>0
    <3> HIDE DEF n
    <3>3. 0 \in 0..(n - 1)
      BY <3>2
    <3> QED BY <1>0, <3>1, <3>3 DEF n
  <2>4. due \in 0..Len(wire["guide"]) /\ terminal \in {"none", "yes", "no"} /\ told \in BOOLEAN
    <3>1. due = 0 /\ terminal = "none"
      BY DEF Init
    <3>2. told \in BOOLEAN
      BY DEF Init
    <3>3. due \in 0..Len(wire["guide"])
      BY <1>5, <3>1
    <3> QED BY <3>1, <3>2, <3>3
  <2>5. /\ setup \in Setups /\ owner = Nobody /\ phase = "off" /\ stored = {} /\ answer = "none"
    BY DEF Init
  <2> QED BY <1>1, <1>3, <2>1, <2>2, <2>3, <2>4, <2>5 DEF TypeOK
<1>7. HereInv /\ DueInv
  BY <1>0, <1>1 DEF Init, HereInv, DueInv, Programs, Nobody
<1>8. EvidenceInv
  BY <1>1 DEF Init, EvidenceInv, Heard
<1>9. GuideInv
  BY <1>1 DEF Init, GuideInv, Programs, Nobody, Pending, Ending
<1>10. JobInv
  BY <1>1 DEF Init, JobInv, Programs, Nobody, Pending, Ending, NoReply
<1> QED BY <1>4, <1>6, <1>7, <1>8, <1>9, <1>10

-----------------------------------------------------------------------------
(* What a step that leaves a part of the state alone keeps.                *)

ReaderTypes ==
  /\ setup \in Setups /\ owner \in Programs \cup {Nobody}
  /\ phase \in {"off", "lift", "wait", "read", "done"}
  /\ phase # "off" => owner # Nobody
  /\ level \in 0..(setup.stages - 1) /\ retries \in 0..setup.retries
  /\ told \in BOOLEAN /\ stored \subseteq Programs
  /\ answer \in {"none", "ok", "error"}

BusTypes ==
  /\ calls \in [Programs -> Seq(Calls)] /\ wire \in [Programs -> Seq(Messages)]
  /\ due \in 0..Len(wire["guide"])

ProgramTypes ==
  /\ at \in [Programs -> Places]
  /\ result \in [Programs -> {"none", "stored", "not", "cancelled", "killed"}]
  /\ {done, completed, quit, interrupted, sigint, late, cancel} \subseteq BOOLEAN
  /\ terminal \in {"none", "yes", "no"}

ViewTypes == view \in [Programs -> Views] /\ \A p \in Programs : Once(view[p])

LEMMA TypeParts == TypeOK /\ PromptedOnce
                     <=> ReaderTypes /\ BusTypes /\ ProgramTypes /\ ViewTypes
  BY DEF TypeOK, PromptedOnce, ReaderTypes, BusTypes, ProgramTypes, ViewTypes, Once

\* All that every reachable state satisfies, and that every step keeps.
Good == ReaderTypes /\ BusTypes /\ ProgramTypes /\ ViewTypes
        /\ DueInv /\ HereInv /\ EvidenceInv /\ GuideInv /\ JobInv

LEMMA GuideFrame ==
  ASSUME GuideInv, late' = late, answer' = answer,
         at'["guide"] = at["guide"], calls'["guide"] = calls["guide"],
         result'["guide"] = result["guide"], owner' = "guide" => owner = "guide"
  PROVE  GuideInv'
  BY DEF GuideInv

LEMMA JobFrame ==
  ASSUME JobInv, at'["regis"] = at["regis"], calls'["regis"] = calls["regis"],
         NoReply(wire["regis"]) => NoReply(wire'["regis"]),
         OneReply(wire["regis"]) => OneReply(wire'["regis"]),
         Refused(wire'["regis"]) => Refused(wire["regis"]),
         owner' = "regis" => owner = "regis"
  PROVE  JobInv'
  BY DEF JobInv

LEMMA EvidenceFrame ==
  ASSUME EvidenceInv, stored \subseteq stored',
         \A p \in Programs : Heard(p)' => Heard(p),
         \A p \in Programs : result'[p] = "stored" => result[p] = "stored",
         completed' => completed, terminal' = "yes" => terminal = "yes"
  PROVE  EvidenceInv'
  BY DEF EvidenceInv

LEMMA HereFrame ==
  ASSUME HereInv, setup' = setup,
         \A p \in Programs : at'[p] = "absent" <=> at[p] = "absent",
         \A p \in Programs : at[p] = "absent" =>
                               calls'[p] = calls[p] /\ result'[p] = result[p],
         owner' \in Programs => owner' = owner \/ at[owner'] # "absent",
         stored' \subseteq stored \cup (Programs \cap {owner})
  PROVE  HereInv'
  BY DEF HereInv

LEMMA MessageFacts ==
  ASSUME NEW m \in Messages
  PROVE  /\ m.kind \in {"needed", "status", "reply"}
         /\ m.kind = "status" => m.value \in Statuses
         /\ m.kind = "needed" => m.value \in {"yes", "no"}
         /\ m.kind = "reply" => m.value \in {"ok", "error"}
<1>1. CASE m \in {Needed(b) : b \in BOOLEAN}
  BY <1>1 DEF Needed
<1>2. CASE m \in {Status(s) : s \in Statuses}
  BY <1>2 DEF Status
<1>3. CASE m \in {Reply(b) : b \in BOOLEAN}
  BY <1>3 DEF Reply
<1> QED BY <1>1, <1>2, <1>3 DEF Messages

LEMMA ReplyFacts ==
  ASSUME NEW ok \in BOOLEAN
  PROVE  /\ Reply(ok) \in Messages /\ Reply(ok).kind = "reply"
         /\ Reply(ok).value = "ok" <=> ok
         /\ Reply(ok).value \in {"ok", "error"}
  BY DEF Reply, Messages

\* A message that everyone hears comes behind what they have not read.
LEMMA BroadcastFacts ==
  ASSUME BusTypes, NEW m \in Messages, Broadcast(m), m.kind # "reply",
         due' = due, calls' = calls
  PROVE  /\ BusTypes'
         /\ \A p \in Programs : Heard(p)' => Heard(p) \/ m.value = "completed"
         /\ NoReply(wire["regis"]) => NoReply(wire'["regis"])
         /\ OneReply(wire["regis"]) => OneReply(wire'["regis"])
         /\ Refused(wire'["regis"]) => Refused(wire["regis"])
<1>1. ASSUME NEW p \in Programs
      PROVE  /\ wire'[p] \in Seq(Messages) /\ Len(wire'[p]) >= Len(wire[p])
             /\ \A i \in DOMAIN wire'[p] :
                  (i \in DOMAIN wire[p] /\ wire'[p][i] = wire[p][i]) \/ wire'[p][i] = m
  <2>1. wire[p] \in Seq(Messages)
    BY DEF BusTypes
  <2>2. CASE wire'[p] = wire[p]
    BY <2>1, <2>2
  <2>3. CASE wire'[p] = Append(wire[p], m)
    <3> DEFINE w == Append(wire[p], m)
    <3>1. /\ w \in Seq(Messages) /\ Len(w) = Len(wire[p]) + 1
          /\ \A i \in DOMAIN w :
               (i \in DOMAIN wire[p] /\ w[i] = wire[p][i]) \/ w[i] = m
      BY <2>1, AppendFacts
    <3>2. Len(wire[p]) \in Nat
      BY <2>1
    <3> QED BY <2>3, <3>1, <3>2
  <2> QED BY <2>2, <2>3 DEF Broadcast
<1>2. BusTypes'
  <2>1. wire' \in [Programs -> Seq(Messages)]
    BY <1>1 DEF Broadcast
  <2>2. /\ Len(wire["guide"]) \in Nat /\ Len(wire'["guide"]) \in Nat
        /\ Len(wire'["guide"]) >= Len(wire["guide"])
    BY <1>1, <2>1 DEF BusTypes, Programs
  <2>3. due' \in 0..Len(wire'["guide"])
    BY <2>2 DEF BusTypes
  <2> QED BY <2>1, <2>3 DEF BusTypes
<1>3. \A p \in Programs : Heard(p)' => Heard(p) \/ m.value = "completed"
  BY <1>1 DEF Heard
<1>4. \A i \in DOMAIN wire'["regis"] :
        \/ i \in DOMAIN wire["regis"] /\ wire'["regis"][i] = wire["regis"][i]
        \/ wire'["regis"][i] = m
  BY <1>1 DEF Programs
<1> QED BY <1>2, <1>3, <1>4 DEF NoReply, OneReply, Refused

-----------------------------------------------------------------------------
(* fprintd's steps                                                         *)

\* What reading a call m of p does to the reader.
ReadEffect(p, m, ok) ==
  /\ ok => Able(p, m)
  /\ ok \/ ~Able(p, m) \/ m \in {"Claim", "EnrollStart"}
  /\ owner' = IF ok /\ m = "Claim" THEN p
              ELSE IF ok /\ m = "Release" THEN Nobody ELSE owner
  /\ phase' = IF ok /\ m = "EnrollStart" THEN "lift"
              ELSE IF ok /\ m \in {"EnrollStop", "Release"} THEN "off" ELSE phase
  /\ level' = IF ok /\ m = "EnrollStart" THEN 0 ELSE level

LEMMA ReadFacts ==
  ASSUME ReaderTypes, NEW p \in Programs, NEW m \in Calls, NEW ok \in BOOLEAN,
         ReadEffect(p, m, ok),
         UNCHANGED <<setup, retries, told, stored>>, answer' \in {"none", "ok", "error"}
  PROVE  /\ ReaderTypes'
         /\ owner' = owner \/ owner' = p \/ owner' = Nobody
         /\ m = "Release" => owner' # p
         /\ ~ok => owner' = owner
<1>1. p # Nobody /\ Nobody \notin Programs
  BY DEF Programs, Nobody
<1>2. owner' = owner \/ owner' = p \/ owner' = Nobody
  BY DEF ReadEffect
<1>3. m = "Release" => owner' # p
  BY <1>1 DEF ReadEffect, Able
<1>4. phase' \in {"off", "lift", "wait", "read", "done"} /\ (phase' # "off" => owner' # Nobody)
  BY <1>1 DEF ReadEffect, Able, ReaderTypes
<1>5. level' \in 0..(setup'.stages - 1)
  <2>1. CASE level' = level
    BY <2>1 DEF ReaderTypes
  <2>2. CASE level' = 0
    <3> DEFINE n == setup.stages
    <3>1. n \in Nat \ {0} /\ setup' = setup
      BY EnrollmentAssumption DEF ReaderTypes
    <3> HIDE DEF n
    <3>2. 0 \in 0..(n - 1)
      BY <3>1
    <3> QED BY <2>2, <3>1, <3>2 DEF n
  <2> QED BY <2>1, <2>2 DEF ReadEffect
<1>6. owner' \in Programs \cup {Nobody} /\ (~ok => owner' = owner)
  BY DEF ReadEffect, ReaderTypes
<1>7. setup' \in Setups /\ retries' \in 0..setup'.retries /\ stored' \subseteq Programs
  BY DEF ReaderTypes
<1>8. told' \in BOOLEAN
  BY DEF ReaderTypes
<1>9. ReaderTypes'
  BY <1>4, <1>5, <1>6, <1>7, <1>8 DEF ReaderTypes
<1> QED BY <1>2, <1>3, <1>6, <1>9

LEMMA ReadStep == ASSUME Good, NEW p \in Programs, Read(p) PROVE Good'
<1> USE DEF Good
<1> DEFINE m == Head(calls[p])
<1>1. /\ calls[p] \in Seq(Calls) /\ calls[p] # <<>> /\ m \in Calls
      /\ Tail(calls[p]) \in Seq(Calls)
  BY TailFacts DEF Read, BusTypes
<1>2. calls' = [calls EXCEPT ![p] = Tail(@)]
      /\ UNCHANGED <<setup, retries, told, stored, at, view, result, loop, job>>
  BY DEF Read
<1>3. PICK ok \in BOOLEAN :
        /\ ReadEffect(p, m, ok)
        /\ IF p = "regis"
           THEN wire' = [wire EXCEPT ![p] = Append(@, Reply(ok))] /\ UNCHANGED answer
           ELSE /\ UNCHANGED wire
                /\ answer' = IF Len(calls[p]) = 1 /\ at[p] # "over"
                             THEN Reply(ok).value ELSE answer
  BY DEF Read, ReadEffect
<1> HIDE DEF m
<1>4. answer' \in {"none", "ok", "error"}
  BY <1>3, ReplyFacts DEF ReaderTypes
<1>5. /\ ReaderTypes'
      /\ owner' = owner \/ owner' = p \/ owner' = Nobody
      /\ m = "Release" => owner' # p
      /\ ~ok => owner' = owner
  BY <1>1, <1>2, <1>3, <1>4, ReadFacts
<1> DEFINE w == Append(wire["regis"], Reply(ok))
<1>6. /\ wire["regis"] \in Seq(Messages)
      /\ w \in Seq(Messages)
      /\ \A i \in DOMAIN w : \/ i \in DOMAIN wire["regis"] /\ w[i] = wire["regis"][i]
                             \/ i = Len(wire["regis"]) + 1 /\ w[i] = Reply(ok)
  <2>1. wire["regis"] \in Seq(Messages)
    BY DEF BusTypes, Programs
  <2> QED BY <2>1, AppendFacts, ReplyFacts
<1>7. /\ wire'["guide"] = wire["guide"]
      /\ wire'["regis"] = IF p = "regis" THEN w ELSE wire["regis"]
      /\ wire' \in [Programs -> Seq(Messages)]
  <2>1. wire \in [Programs -> Seq(Messages)]
    BY DEF BusTypes
  <2>2. CASE p = "regis"
    <3>1. wire' = [wire EXCEPT !["regis"] = w]
      BY <1>3, <2>2
    <3> HIDE DEF w
    <3> QED BY <1>6, <2>1, <2>2, <3>1 DEF Programs
  <2>3. CASE p # "regis"
    BY <1>3, <2>1, <2>3
  <2> QED BY <2>2, <2>3
<1> HIDE DEF w
<1>8. BusTypes'
  <2>1. calls' \in [Programs -> Seq(Calls)]
    BY <1>1, <1>2 DEF BusTypes
  <2>2. due' \in 0..Len(wire'["guide"])
    BY <1>2, <1>7 DEF BusTypes, loop
  <2> QED BY <1>7, <2>1, <2>2 DEF BusTypes
<1>9. ProgramTypes' /\ ViewTypes' /\ DueInv'
  BY <1>2 DEF ProgramTypes, ViewTypes, DueInv, loop, job
<1>10. \A q \in Programs : q # p => calls'[q] = calls[q]
  BY <1>2 DEF BusTypes
<1>11. at[p] # "absent"
  BY <1>1 DEF HereInv
<1>12. HereInv'
  <2>1. owner' \in Programs => owner' = owner \/ at[owner'] # "absent"
    BY <1>5, <1>11 DEF Programs, Nobody
  <2> QED BY <1>2, <1>10, <1>11, <2>1, HereFrame
<1>13. EvidenceInv'
  <2>1. Reply(ok).value # "completed"
    BY ReplyFacts
  <2>2. \A q \in Programs : Heard(q)' => Heard(q)
    BY <1>6, <1>7, <2>1 DEF Heard, Programs
  <2> QED BY <1>2, <2>2, EvidenceFrame DEF loop, job
<1>14. CASE p = "guide"
  <2>1. wire' = wire /\ calls'["regis"] = calls["regis"]
    BY <1>3, <1>10, <1>14 DEF Programs
  <2>2. owner' = "regis" => owner = "regis"
    BY <1>5, <1>14 DEF Nobody
  <2>3. JobInv'
    BY <1>2, <2>1, <2>2, JobFrame
  <2>4. GuideInv'
    <3> SUFFICES ASSUME ~late, result["guide"] # "killed" PROVE GuideInv'
      BY <1>2 DEF GuideInv, loop
    <3>1. /\ at["guide"] \in Pending \cup Ending
          /\ calls["guide"] = <<CallOf[at["guide"]]>> /\ answer = "none"
      BY <1>1, <1>14 DEF GuideInv
    <3>2. /\ m = CallOf[at["guide"]] /\ Tail(calls["guide"]) = <<>>
          /\ Len(calls["guide"]) = 1
      BY <1>1, <1>14, <3>1 DEF m
    <3>3. calls'["guide"] = <<>> /\ answer' = Reply(ok).value /\ at["guide"] # "over"
      BY <1>2, <1>3, <1>14, <3>1, <3>2 DEF BusTypes, Pending, Ending
    <3>4. at["guide"] = "claim" /\ answer' # "ok" => owner' # "guide"
      BY <1>5, <3>1, <3>3, ReplyFacts DEF GuideInv
    <3>5. at["guide"] = "release" => owner' # "guide"
      BY <1>5, <1>14, <3>2 DEF CallOf, Pending, Ending
    <3>6. answer' # "none"
      BY <3>3, ReplyFacts
    <3> QED BY <1>2, <3>1, <3>3, <3>4, <3>5, <3>6 DEF GuideInv, loop, Pending, Ending
  <2> QED BY <1>5, <1>8, <1>9, <1>12, <1>13, <2>3, <2>4
<1>15. CASE p = "regis"
  <2>1. calls'["guide"] = calls["guide"] /\ answer' = answer /\ wire'["regis"] = w
    BY <1>3, <1>7, <1>10, <1>15 DEF Programs
  <2>2. owner' = "guide" => owner = "guide"
    BY <1>5, <1>15 DEF Nobody
  <2>3. GuideInv'
    BY <1>2, <2>1, <2>2, GuideFrame DEF loop
  <2>4. JobInv'
    <3>1. /\ at["regis"] \in Pending \cup Ending
          /\ calls["regis"] = <<CallOf[at["regis"]]>> /\ NoReply(wire["regis"])
      BY <1>1, <1>15 DEF JobInv
    <3>2. m = CallOf[at["regis"]] /\ Tail(calls["regis"]) = <<>>
      BY <1>1, <1>15, <3>1 DEF m
    <3>3. calls'["regis"] = <<>>
      BY <1>2, <1>15, <3>2 DEF BusTypes
    <3>4. OneReply(w)
      BY <1>6, <3>1 DEF OneReply, NoReply
    <3>5. Refused(w) => ~ok
      BY <1>6, <3>1, ReplyFacts DEF Refused, NoReply
    <3>6. at["regis"] = "claim" /\ Refused(w) => owner' # "regis"
      BY <1>5, <3>1, <3>5 DEF JobInv
    <3>7. at["regis"] = "release" => owner' # "regis"
      BY <1>5, <1>15, <3>2 DEF CallOf, Pending, Ending
    <3> QED BY <1>2, <2>1, <3>1, <3>3, <3>4, <3>6, <3>7 DEF JobInv, Pending, Ending
  <2> QED BY <1>5, <1>8, <1>9, <1>12, <1>13, <2>3, <2>4
<1> QED BY <1>14, <1>15 DEF Programs

\* The finger moves, or the bus frees the reader of a process that has ended.
LEMMA FingerStep == ASSUME Good, Arm \/ Touch \/ Vanish PROVE Good'
<1> USE DEF Good
<1>1. /\ UNCHANGED <<setup, level, retries, told, stored, bus, at, view, result, loop, job>>
      /\ owner' \in {owner, Nobody}
      /\ phase' \in {"off", "wait", "read"}
      /\ phase' # "off" => owner' = owner /\ phase # "off"
  BY DEF Arm, Touch, Vanish
<1>2. ReaderTypes'
  BY <1>1 DEF ReaderTypes, bus
<1>3. BusTypes' /\ ProgramTypes' /\ ViewTypes' /\ DueInv'
  BY <1>1 DEF BusTypes, ProgramTypes, ViewTypes, DueInv, bus, loop, job
<1>4. HereInv'
  BY <1>1, HereFrame DEF bus, Programs, Nobody
<1>5. \A p \in Programs : Heard(p)' => Heard(p)
  BY <1>1 DEF Heard, bus
<1>6. EvidenceInv'
  BY <1>1, <1>5, EvidenceFrame DEF loop, job
<1>7. owner' = "guide" => owner = "guide"
  BY <1>1 DEF Nobody
<1>8. owner' = "regis" => owner = "regis"
  BY <1>1 DEF Nobody
<1>9. GuideInv'
  BY <1>1, <1>7, GuideFrame DEF bus, loop
<1>10. JobInv'
  BY <1>1, <1>8, JobFrame DEF bus
<1> QED BY <1>2, <1>3, <1>4, <1>6, <1>9, <1>10

LEMMA TellStep == ASSUME Good, Tell PROVE Good'
<1> USE DEF Good
<1> DEFINE m == Needed(~told)
<1>1. m \in Messages /\ m.kind = "needed" /\ m.value # "completed"
  BY DEF Messages, Needed, ReaderTypes
<1>2. /\ told' = ~told /\ Broadcast(m)
      /\ UNCHANGED <<setup, reader, calls, answer, at, view, result, loop, job>>
  BY DEF Tell
<1> HIDE DEF m
<1>3. /\ BusTypes'
      /\ \A p \in Programs : Heard(p)' => Heard(p)
      /\ NoReply(wire["regis"]) => NoReply(wire'["regis"])
      /\ OneReply(wire["regis"]) => OneReply(wire'["regis"])
      /\ Refused(wire'["regis"]) => Refused(wire["regis"])
  BY <1>1, <1>2, BroadcastFacts DEF loop
<1>4. ReaderTypes'
  BY <1>2 DEF ReaderTypes, reader
<1>5. ProgramTypes' /\ ViewTypes' /\ DueInv'
  BY <1>2 DEF ProgramTypes, ViewTypes, DueInv, loop, job
<1>6. HereInv'
  BY <1>2, HereFrame DEF reader
<1>7. EvidenceInv'
  BY <1>2, <1>3, EvidenceFrame DEF reader, loop, job
<1>8. GuideInv' /\ JobInv'
  BY <1>2, <1>3, GuideFrame, JobFrame DEF reader, loop
<1> QED BY <1>3, <1>4, <1>5, <1>6, <1>7, <1>8

LEMMA ScannedStep == ASSUME Good, NEW s \in Statuses, Scanned(s) PROVE Good'
<1> USE DEF Good
<1> DEFINE m == Status(s)
<1>1. m \in Messages /\ m.kind = "status" /\ m.value = s
  BY DEF Messages, Status
<1>2. /\ Broadcast(m)
      /\ UNCHANGED <<setup, owner, told, calls, answer, at, view, result, loop, job>>
      /\ phase # "off" /\ phase' \in {"lift", "done"}
      /\ stored' = IF s = "completed" THEN stored \cup {owner} ELSE stored
  BY DEF Scanned
<1> HIDE DEF m
<1>3. /\ BusTypes'
      /\ \A p \in Programs : Heard(p)' => Heard(p) \/ s = "completed"
      /\ NoReply(wire["regis"]) => NoReply(wire'["regis"])
      /\ OneReply(wire["regis"]) => OneReply(wire'["regis"])
      /\ Refused(wire'["regis"]) => Refused(wire["regis"])
  BY <1>1, <1>2, BroadcastFacts DEF loop
<1>4. owner \in Programs
  BY <1>2 DEF ReaderTypes
<1>5. ReaderTypes'
  <2>1. level' \in 0..(setup'.stages - 1)
    <3> DEFINE n == setup.stages
    <3>1. n \in Nat \ {0} /\ setup' = setup
      BY <1>2, EnrollmentAssumption DEF ReaderTypes
    <3> HIDE DEF n
    <3>2. level \in 0..(n - 1) /\ (s = "passed" => level < n - 1)
      BY DEF ReaderTypes, Scanned, n
    <3>3. level' = IF s = "passed" THEN level + 1 ELSE level
      BY DEF Scanned
    <3>4. level' \in 0..(n - 1)
      BY <3>1, <3>2, <3>3
    <3> QED BY <3>1, <3>4 DEF n
  <2>2. retries' \in 0..setup'.retries
    <3> DEFINE n == setup.retries
    <3>1. n \in Nat /\ setup' = setup
      BY <1>2, EnrollmentAssumption DEF ReaderTypes
    <3> HIDE DEF n
    <3>2. retries \in 0..n /\ (s = "retry" => retries < n)
      BY DEF ReaderTypes, Scanned, n
    <3>3. retries' = IF s = "retry" THEN retries + 1 ELSE retries
      BY DEF Scanned
    <3>4. retries' \in 0..n
      BY <3>1, <3>2, <3>3
    <3> QED BY <3>1, <3>4 DEF n
  <2>3. told' \in BOOLEAN
    BY <1>2 DEF ReaderTypes
  <2> QED BY <1>2, <1>4, <2>1, <2>2, <2>3 DEF ReaderTypes
<1>6. ProgramTypes' /\ ViewTypes' /\ DueInv'
  BY <1>2 DEF ProgramTypes, ViewTypes, DueInv, loop, job
<1>7. HereInv'
  BY <1>2, <1>4, HereFrame
<1>8. EvidenceInv'
  <2>1. CASE s = "completed"
    BY <1>2, <2>1 DEF EvidenceInv
  <2>2. CASE s # "completed"
    BY <1>2, <1>3, <2>2, EvidenceFrame DEF loop, job
  <2> QED BY <2>1, <2>2
<1>9. GuideInv' /\ JobInv'
  BY <1>2, <1>3, GuideFrame, JobFrame DEF loop
<1> QED BY <1>3, <1>5, <1>6, <1>7, <1>8, <1>9

-----------------------------------------------------------------------------
(* The guide's steps                                                       *)

\* What a step of the guide keeps before its own part of Good is looked at.
RestGood == ReaderTypes /\ BusTypes /\ ProgramTypes /\ ViewTypes
            /\ DueInv /\ HereInv /\ EvidenceInv /\ JobInv

\* The guide goes on to another place, outside an iteration of its loop.
LEMMA GuideMoves ==
  ASSUME Good, NEW place \in Places \ {"absent"}, NEW m \in Calls \cup {""},
         GuideAt(place, m), Deaf \/ wire' = wire,
         at["guide"] # "absent", due = 0, late' \in BOOLEAN,
         NEW r \in {"stored", "not", "cancelled", "killed"}, r = "stored" => completed,
         result' = result \/ result' = [result EXCEPT !["guide"] = r],
         UNCHANGED <<setup, reader, told, view, done, completed, quit, interrupted, due,
                     sigint, job>>
  PROVE  /\ RestGood'
         /\ at'["guide"] = place /\ answer' = "none"
         /\ m = "" => calls' = calls
         /\ m # "" /\ calls["guide"] = <<>> => calls'["guide"] = <<m>>
<1> USE DEF Good
<1>1. /\ at' \in [Programs -> Places] /\ at'["guide"] = place /\ at'["regis"] = at["regis"]
      /\ answer' = "none"
  BY DEF GuideAt, ProgramTypes, Programs
<1>2. /\ calls' \in [Programs -> Seq(Calls)] /\ calls'["regis"] = calls["regis"]
      /\ m = "" => calls' = calls
      /\ m # "" /\ calls["guide"] = <<>> => calls'["guide"] = <<m>>
  <2>1. CASE m = ""
    BY <2>1 DEF GuideAt, BusTypes
  <2>2. CASE m # ""
    <3> DEFINE c == Append(calls["guide"], m)
    <3>1. calls["guide"] \in Seq(Calls) /\ m \in Calls
      BY <2>2 DEF BusTypes, Programs
    <3>2. c \in Seq(Calls) /\ (calls["guide"] = <<>> => c = <<m>>)
      <4>1. Append(calls["guide"], m) \in Seq(Calls)
        BY <3>1, AppendFacts, Zenon
      <4>2. calls["guide"] = <<>> => Append(calls["guide"], m) = <<m>>
        BY AppendNone
      <4> QED BY <4>1, <4>2
    <3>3. calls' = [calls EXCEPT !["guide"] = c]
      BY <2>2 DEF GuideAt
    <3> HIDE DEF c
    <3> QED BY <2>2, <3>2, <3>3 DEF BusTypes, Programs
  <2> QED BY <2>1, <2>2
<1>3. /\ wire' \in [Programs -> Seq(Messages)] /\ wire'["regis"] = wire["regis"]
      /\ wire'["guide"] = wire["guide"] \/ DOMAIN wire'["guide"] = {}
  <2>1. <<>> \in Seq(Messages) /\ DOMAIN <<>> = {}
    BY NoneFacts
  <2> DEFINE e == <<>>
  <2>2. wire' = wire \/ wire' = [wire EXCEPT !["guide"] = e]
    BY DEF Deaf
  <2>3. e \in Seq(Messages) /\ DOMAIN e = {}
    BY <2>1
  <2> HIDE DEF e
  <2> QED BY <2>2, <2>3 DEF BusTypes, Programs
<1>4. BusTypes'
  <2>1. wire'["guide"] \in Seq(Messages) /\ due' = 0
    BY <1>3 DEF Programs
  <2>2. 0 \in 0..Len(wire'["guide"])
    BY <2>1, LenFacts, Zenon
  <2>3. due' \in 0..Len(wire'["guide"])
    BY <2>1, <2>2, Zenon
  <2> QED BY <1>2, <1>3, <2>3 DEF BusTypes
<1>5. ReaderTypes'
  BY <1>1 DEF ReaderTypes, reader
<1>6. ProgramTypes' /\ ViewTypes' /\ DueInv'
  <2>1. result' \in [Programs -> {"none", "stored", "not", "cancelled", "killed"}]
    BY DEF ProgramTypes
  <2>2. {done, completed, quit, interrupted, sigint, late, cancel}' \subseteq BOOLEAN
    BY DEF ProgramTypes, job
  <2>3. terminal' \in {"none", "yes", "no"}
    BY DEF ProgramTypes, job
  <2>4. ProgramTypes'
    BY <1>1, <2>1, <2>2, <2>3 DEF ProgramTypes
  <2>5. ViewTypes' /\ DueInv'
    BY DEF ViewTypes, DueInv
  <2> QED BY <2>4, <2>5
<1>7. result'["regis"] = result["regis"] /\ result'["guide"] \in {result["guide"], r}
  BY DEF ProgramTypes, Programs
<1>8. HereInv'
  BY <1>1, <1>2, <1>7, HereFrame DEF reader, Programs
<1>9. EvidenceInv'
  <2>1. CASE completed
    BY <2>1 DEF EvidenceInv, reader
  <2>2. CASE ~completed
    <3>1. \A p \in Programs : Heard(p)' => Heard(p)
      BY <1>3 DEF Heard, Programs
    <3>2. \A p \in Programs : result'[p] = "stored" => result[p] = "stored"
      BY <1>7, <2>2 DEF Programs
    <3> QED BY <3>1, <3>2, EvidenceFrame DEF reader, job
  <2> QED BY <2>1, <2>2
<1>10. JobInv'
  BY <1>1, <1>2, <1>3, JobFrame DEF reader
<1> QED BY <1>1, <1>2, <1>4, <1>5, <1>6, <1>8, <1>9, <1>10 DEF RestGood

LEMMA GuideEnterStep == ASSUME Good, GuideEnter PROVE Good'
<1> USE DEF Good
<1>1. /\ at["guide"] = "ready" /\ GuideAt("claim", "Claim")
      /\ UNCHANGED <<setup, reader, told, wire, view, result, loop, job>>
  BY DEF GuideEnter
<1>2. due = 0 /\ late' \in BOOLEAN
  BY <1>1 DEF DueInv, ProgramTypes, loop
<1>3. /\ RestGood' /\ at'["guide"] = "claim" /\ answer' = "none"
      /\ calls["guide"] = <<>> => calls'["guide"] = <<"Claim">>
  <2>1. "claim" \in Places \ {"absent"} /\ "Claim" \in Calls
    BY DEF Places, Pending, Calls
  <2> QED BY <1>1, <1>2, <2>1, GuideMoves DEF loop
<1>4. GuideInv'
  BY <1>1, <1>3 DEF GuideInv, CallOf, Pending, Ending, loop, reader
<1> QED BY <1>3, <1>4 DEF RestGood

\* What the guide does after a call, whether or not the call timed out.
LEMMA GuideAfterMoves ==
  ASSUME Good, NEW ok \in BOOLEAN, GuideAfter(ok), Deaf, late' \in BOOLEAN,
         UNCHANGED <<setup, reader, told, view, done, completed, quit, interrupted, due,
                     sigint, job>>
  PROVE  /\ RestGood' /\ result'["guide"] \in {result["guide"], "not"}
         /\ at["guide"] \in Pending \cup Ending
         /\ answer' = "none"
         /\ \/ /\ at'["guide"] \in {"run", "over"}
               /\ calls' = calls
            \/ /\ at'["guide"] \in {"start", "release"}
               /\ calls["guide"] = <<>> => calls'["guide"] = <<CallOf[at'["guide"]]>>
         /\ at'["guide"] = "over" => at["guide"] = "release" \/ (at["guide"] = "claim" /\ ~ok)
<1>1. at["guide"] \in Pending \cup Ending
  BY DEF GuideAfter, Pending, Ending
<1>2. due = 0 /\ at["guide"] # "absent"
  BY <1>1 DEF Good, DueInv, Pending, Ending
<1>3. PICK place \in {"start", "run", "release", "over"} :
        /\ GuideAt(place, CASE place = "start" -> "EnrollStart"
                            [] place = "release" -> "Release" [] OTHER -> "")
        /\ result' = result \/ result' = [result EXCEPT !["guide"] = "not"]
        /\ place = "over" => at["guide"] = "release" \/ (at["guide"] = "claim" /\ ~ok)
  BY DEF GuideAfter, Pending
<1> DEFINE m == CASE place = "start" -> "EnrollStart"
                  [] place = "release" -> "Release" [] OTHER -> ""
<1>4. /\ m \in Calls \cup {""} /\ place \in Places \ {"absent"}
      /\ place \in {"start", "release"} => m # "" /\ m = CallOf[place]
      /\ place \in {"run", "over"} => m = ""
  BY DEF Calls, Places, Pending, Ending, CallOf
<1>5. GuideAt(place, m)
  BY <1>3
<1> HIDE DEF m
<1>6. /\ RestGood' /\ at'["guide"] = place /\ answer' = "none"
      /\ m = "" => calls' = calls
      /\ m # "" /\ calls["guide"] = <<>> => calls'["guide"] = <<m>>
  BY <1>2, <1>3, <1>4, <1>5, GuideMoves
<1>7. result'["guide"] \in {result["guide"], "not"}
  BY <1>3 DEF Good, ProgramTypes, Programs
<1> QED BY <1>1, <1>3, <1>4, <1>6, <1>7

LEMMA GuideReturnsStep == ASSUME Good, GuideReturns PROVE Good'
<1> DEFINE ok == answer = "ok"
<1>1. /\ answer # "none" /\ GuideAfter(ok) /\ Deaf /\ ok \in BOOLEAN
      /\ UNCHANGED <<setup, reader, told, view, loop, job>>
  BY DEF GuideReturns
<1>2. late' = late /\ late' \in BOOLEAN
  BY <1>1 DEF loop, Good, ProgramTypes
<1> HIDE DEF ok
<1>3. /\ RestGood' /\ result'["guide"] \in {result["guide"], "not"}
      /\ at["guide"] \in Pending \cup Ending
      /\ answer' = "none"
      /\ \/ at'["guide"] \in {"run", "over"} /\ calls' = calls
         \/ /\ at'["guide"] \in {"start", "release"}
            /\ calls["guide"] = <<>> => calls'["guide"] = <<CallOf[at'["guide"]]>>
      /\ at'["guide"] = "over" => at["guide"] = "release" \/ (at["guide"] = "claim" /\ ~ok)
  BY <1>1, <1>2, GuideAfterMoves DEF loop
<1>4. GuideInv'
  <2>1. result["guide"] # "killed" /\ result'["guide"] # "killed"
    BY <1>3 DEF Good, GuideInv, Pending, Ending
  <2>2. ~late => calls["guide"] = <<>>
    BY <1>1, <1>3, <2>1 DEF Good, GuideInv
  <2>3. ~late /\ at'["guide"] = "over" => owner' # "guide"
    BY <1>1, <1>3, <2>1 DEF Good, GuideInv, ok, reader
  <2> QED BY <1>2, <1>3, <2>1, <2>2, <2>3 DEF GuideInv, Pending, Ending
<1> QED BY <1>3, <1>4 DEF Good, RestGood

LEMMA GuideTimeoutStep == ASSUME Good, GuideTimeout PROVE Good'
<1>1. /\ GuideAfter(FALSE) /\ Deaf /\ late'
      /\ UNCHANGED <<setup, reader, told, view, done, completed, quit, interrupted, due,
                     sigint, job>>
  BY DEF GuideTimeout
<1>2. late' \in BOOLEAN
  BY DEF GuideTimeout
<1>3. /\ RestGood' /\ result'["guide"] \in {result["guide"], "not"}
      /\ at["guide"] \in Pending \cup Ending
  BY <1>1, <1>2, GuideAfterMoves
<1>4. GuideInv'
  BY <1>1, <1>3 DEF Good, GuideInv, Pending, Ending
<1> QED BY <1>3, <1>4 DEF Good, RestGood

LEMMA GuideLeavesStep == ASSUME Good, GuideLeaves PROVE Good'
<1> DEFINE r == IF interrupted THEN "cancelled" ELSE IF completed THEN "stored" ELSE "not"
<1>1. /\ at["guide"] = "run" /\ due = 0 /\ GuideAt("stop", "EnrollStop") /\ Deaf
      /\ result' = [result EXCEPT !["guide"] = r]
      /\ UNCHANGED <<setup, reader, told, view, loop, job>>
  BY DEF GuideLeaves, Guide
<1>2. /\ "stop" \in Places \ {"absent"} /\ "EnrollStop" \in Calls
      /\ late' \in BOOLEAN
      /\ r \in {"stored", "not", "cancelled", "killed"}
      /\ r = "stored" => completed
      /\ r # "killed"
  BY <1>1 DEF Places, Ending, Calls, loop, Good, ProgramTypes
<1> HIDE DEF r
<1>3. /\ RestGood' /\ at'["guide"] = "stop" /\ answer' = "none"
      /\ calls["guide"] = <<>> => calls'["guide"] = <<"EnrollStop">>
  BY <1>1, <1>2, GuideMoves DEF loop
<1>4. result'["guide"] = r
  BY <1>1 DEF Good, ProgramTypes, Programs
<1>5. GuideInv'
  BY <1>1, <1>2, <1>3, <1>4 DEF Good, GuideInv, CallOf, Pending, Ending, loop
<1> QED BY <1>3, <1>5 DEF Good, RestGood

LEMMA GuideCancelStep == ASSUME Good, GuideCancel PROVE Good'
<1> USE DEF Good
<1>1. /\ at["guide"] = "run"
      /\ due' \in 0..Len(wire["guide"])
      /\ GuideView(Quiet(view["guide"]))
      /\ UNCHANGED <<setup, reader, told, bus, at, result, completed, late, job>>
  BY DEF GuideCancel, Guide
<1>2. {done', quit', interrupted', sigint'} \subseteq BOOLEAN
  BY DEF GuideCancel
<1>3. ViewTypes'
  <2> DEFINE w == Quiet(view["guide"])
  <2>1. w \in Views /\ Once(w)
    BY ViewFacts DEF ViewTypes, Programs
  <2>2. view' = [view EXCEPT !["guide"] = w]
    BY <1>1 DEF GuideView
  <2> HIDE DEF w
  <2> QED BY <2>1, <2>2 DEF ViewTypes, Programs
<1>4. ReaderTypes'
  BY <1>1 DEF ReaderTypes, reader, bus
<1>5. BusTypes'
  BY <1>1 DEF BusTypes, bus
<1>6. ProgramTypes'
  BY <1>1, <1>2 DEF ProgramTypes, job
<1>7. DueInv' /\ HereInv'
  BY <1>1, HereFrame DEF DueInv, bus, reader
<1>8. EvidenceInv'
  <2>1. \A p \in Programs : Heard(p)' => Heard(p)
    BY <1>1 DEF Heard, bus
  <2> QED BY <1>1, <2>1, EvidenceFrame DEF reader, job
<1>9. GuideInv' /\ JobInv'
  BY <1>1, GuideFrame, JobFrame DEF bus, reader
<1> QED BY <1>3, <1>4, <1>5, <1>6, <1>7, <1>8, <1>9

LEMMA GuideHandleStep == ASSUME Good, GuideHandle PROVE Good'
<1> USE DEF Good
<1> DEFINE s == wire["guide"]
           m == Head(s)
           v == view["guide"]
<1>1. /\ at["guide"] = "run" /\ s # <<>>
      /\ wire' = [wire EXCEPT !["guide"] = Tail(@)]
      /\ (due > 0 /\ due' = due - 1) \/ (due = 0 /\ due' \in 0..(Len(s) - 1))
      /\ UNCHANGED <<setup, reader, told, calls, answer, at, result, interrupted, sigint, late, job>>
  BY DEF GuideHandle, Guide
<1>2. /\ s \in Seq(Messages) /\ Tail(s) \in Seq(Messages) /\ Len(Tail(s)) = Len(s) - 1
      /\ m \in Messages /\ m = s[1] /\ 1 \in DOMAIN s /\ Len(s) \in Nat
      /\ \A i \in DOMAIN Tail(s) : i + 1 \in DOMAIN s /\ Tail(s)[i] = s[i + 1]
  <2>1. s \in Seq(Messages)
    BY DEF BusTypes, Programs
  <2> QED BY <1>1, <2>1, TailFacts, LenFacts
<1>3. PICK w \in Views :
        /\ Once(w) /\ GuideView(w)
        /\ {done', completed', quit'} \subseteq BOOLEAN
        /\ completed' => completed \/ m.value = "completed"
  <2> HIDE DEF m, v
  <2>1. v \in Views /\ Once(v)
    BY DEF v, ViewTypes, Programs
  <2>2. {done, completed, quit} \subseteq BOOLEAN
    BY DEF ProgramTypes
  <2>3. \/ /\ GuideView(OnNeeded(v, m.value, ~done)) /\ UNCHANGED <<done, completed, quit>>
        \/ /\ GuideView(OnProgress(v, m.value, TRUE))
           /\ done' = FALSE /\ UNCHANGED <<completed, quit>>
        \/ /\ GuideView(Quiet(v)) /\ done' = TRUE /\ quit' = TRUE
           /\ completed' = (completed \/ m.value = "completed")
    BY DEF GuideHandle, m, v
  <2>4. CASE GuideView(OnNeeded(v, m.value, ~done)) /\ UNCHANGED <<done, completed, quit>>
    BY <2>1, <2>2, <2>4, ViewFacts
  <2>5. CASE GuideView(OnProgress(v, m.value, TRUE)) /\ done' = FALSE /\ UNCHANGED <<completed, quit>>
    BY <2>1, <2>2, <2>5, ViewFacts
  <2>6. CASE /\ GuideView(Quiet(v)) /\ done' = TRUE /\ quit' = TRUE
             /\ completed' = (completed \/ m.value = "completed")
    BY <2>1, <2>2, <2>6, ViewFacts
  <2> QED BY <2>3, <2>4, <2>5, <2>6
<1>4. /\ wire' \in [Programs -> Seq(Messages)] /\ wire'["regis"] = wire["regis"]
      /\ wire'["guide"] = Tail(s)
  <2> DEFINE t == Tail(s)
  <2>1. t \in Seq(Messages) /\ wire' = [wire EXCEPT !["guide"] = t]
    BY <1>1, <1>2
  <2> HIDE DEF t
  <2>2. wire' \in [Programs -> Seq(Messages)] /\ wire'["regis"] = wire["regis"] /\ wire'["guide"] = t
    BY <2>1 DEF BusTypes, Programs
  <2> QED BY <2>2 DEF t
<1> HIDE DEF s, m, v
<1>5. BusTypes'
  <2>1. due \in 0..Len(s) /\ Len(wire'["guide"]) = Len(s) - 1
    BY <1>2, <1>4 DEF BusTypes, s
  <2> DEFINE n == Len(s)
  <2>2. (due > 0 /\ due' = due - 1) \/ (due = 0 /\ due' \in 0..(n - 1))
    BY <1>1
  <2>3. n \in Nat /\ due \in 0..n /\ Len(wire'["guide"]) = n - 1
    BY <1>2, <2>1
  <2> HIDE DEF n
  <2>4. due' \in 0..(n - 1)
    BY <2>2, <2>3
  <2>5. due' \in 0..Len(wire'["guide"])
    BY <2>3, <2>4
  <2> QED BY <1>1, <1>4, <2>5 DEF BusTypes
<1>6. ReaderTypes'
  BY <1>1 DEF ReaderTypes, reader
<1>7. ProgramTypes' /\ DueInv'
  BY <1>1, <1>3 DEF ProgramTypes, DueInv, job
<1>8. ViewTypes'
  BY <1>3 DEF ViewTypes, GuideView
<1>9. HereInv'
  BY <1>1, HereFrame DEF reader
<1>10. EvidenceInv'
  <2>0. \A i \in DOMAIN wire'["guide"] :
          i + 1 \in DOMAIN wire["guide"] /\ wire'["guide"][i] = wire["guide"][i + 1]
    <3>1. wire["guide"] = s
      BY DEF s
    <3> QED BY <1>2, <1>4, <3>1
  <2>1. \A p \in Programs : Heard(p)' => Heard(p)
    <3>1. Heard("guide")' => Heard("guide")
      BY <2>0 DEF Heard
    <3>2. Heard("regis")' => Heard("regis")
      BY <1>4 DEF Heard
    <3> QED BY <3>1, <3>2 DEF Programs
  <2>2. m.value = "completed" => Heard("guide")
    <3>1. wire["guide"] = s
      BY DEF s
    <3> QED BY <1>2, <3>1 DEF Heard
  <2>3. completed' => completed \/ Heard("guide")
    BY <1>3, <2>2
  <2>4. UNCHANGED <<stored, result, terminal>>
    BY <1>1 DEF reader, job
  <2> QED BY <2>1, <2>3, <2>4 DEF EvidenceInv, Programs
<1>11. GuideInv' /\ JobInv'
  BY <1>1, <1>4, GuideFrame, JobFrame DEF reader
<1> QED BY <1>5, <1>6, <1>7, <1>8, <1>9, <1>10, <1>11

LEMMA CtrlCStep == ASSUME Good, CtrlC PROVE Good'
<1>0. late \in BOOLEAN /\ "over" \in Places \ {"absent"} /\ "" \in Calls \cup {""}
  BY DEF Good, ProgramTypes, Places
<1>1. CASE at["guide"] = "ready"
  <2>1. /\ GuideAt("over", "") /\ Deaf
        /\ result' = [result EXCEPT !["guide"] = "cancelled"]
        /\ UNCHANGED <<setup, reader, told, view, loop, job>> /\ due = 0
    BY <1>1 DEF CtrlC, Pending, Ending, Good, DueInv
  <2>2. RestGood' /\ at'["guide"] = "over" /\ answer' = "none" /\ calls' = calls
    BY <1>0, <1>1, <2>1, GuideMoves DEF loop
  <2>3. result'["guide"] = "cancelled"
    BY <2>1 DEF Good, ProgramTypes, Programs
  <2>4. GuideInv'
    BY <1>1, <2>1, <2>2, <2>3 DEF Good, GuideInv, Pending, Ending, loop, reader
  <2> QED BY <2>2, <2>4 DEF Good, RestGood
<1>2. CASE at["guide"] \in Ending
  <2>1. /\ GuideAt("over", "") /\ wire' = wire
        /\ result' = [result EXCEPT !["guide"] = "killed"]
        /\ UNCHANGED <<setup, reader, told, view, loop, job>> /\ due = 0
        /\ at["guide"] # "absent"
    BY <1>2 DEF CtrlC, Pending, Ending, Good, DueInv
  <2>2. RestGood' /\ at'["guide"] = "over"
    BY <1>0, <2>1, GuideMoves DEF loop
  <2>3. result'["guide"] = "killed"
    BY <2>1 DEF Good, ProgramTypes, Programs
  <2>4. GuideInv'
    BY <2>2, <2>3 DEF GuideInv
  <2> QED BY <2>2, <2>4 DEF Good, RestGood
<1>3. CASE at["guide"] \in Pending \cup {"run"}
  <2> USE DEF Good
  <2>1. /\ sigint' = TRUE
        /\ UNCHANGED <<setup, reader, told, bus, at, view, result, done, completed, quit,
                       interrupted, due, late, job>>
    BY <1>3 DEF CtrlC, Pending, Ending
  <2>2. ReaderTypes' /\ BusTypes' /\ ViewTypes' /\ DueInv'
    BY <2>1 DEF ReaderTypes, BusTypes, ViewTypes, DueInv, reader, bus
  <2>3. ProgramTypes'
    BY <2>1 DEF ProgramTypes, job
  <2>4. HereInv' /\ GuideInv' /\ JobInv'
    BY <2>1, HereFrame, GuideFrame, JobFrame DEF reader, bus
  <2>5. EvidenceInv'
    <3>1. \A p \in Programs : Heard(p)' => Heard(p)
      BY <2>1 DEF Heard, bus
    <3> QED BY <2>1, <3>1, EvidenceFrame DEF reader, job
  <2> QED BY <2>2, <2>3, <2>4, <2>5
<1> QED BY <1>1, <1>2, <1>3 DEF CtrlC

-----------------------------------------------------------------------------
(* The job's steps                                                         *)

Still == UNCHANGED <<setup, reader, told, answer, loop>>

\* What a step of the job cannot disturb, and where it leads.
LEMMA JobMoves ==
  ASSUME Good, NEW place \in Places \ {"absent"}, NEW m \in Calls \cup {""},
         JobAt(place, m), Still, at["regis"] # "absent",
         wire' \in [Programs -> Seq(Messages)], wire'["guide"] = wire["guide"],
         result' = result \/ \E r \in {"stored", "not"} : result' = [result EXCEPT !["regis"] = r],
         view' = view \/ \E w \in Views : Once(w) /\ view' = [view EXCEPT !["regis"] = w],
         terminal' \in {"none", "yes", "no"}, cancel' \in BOOLEAN
  PROVE  /\ ReaderTypes' /\ BusTypes' /\ ProgramTypes' /\ ViewTypes'
         /\ DueInv' /\ HereInv' /\ GuideInv'
         /\ at'["regis"] = place
         /\ m = "" => calls' = calls
         /\ m # "" /\ calls["regis"] = <<>> => calls'["regis"] = <<m>>
<1> USE DEF Good
<1>0. UNCHANGED <<setup, owner, phase, level, retries, stored, told, answer, done, completed,
                  quit, interrupted, due, sigint, late>>
  BY DEF Still, reader, loop
<1>1. at' \in [Programs -> Places] /\ at'["regis"] = place /\ at'["guide"] = at["guide"]
  BY DEF JobAt, ProgramTypes, Programs
<1>2. /\ calls' \in [Programs -> Seq(Calls)] /\ calls'["guide"] = calls["guide"]
      /\ m = "" => calls' = calls
      /\ m # "" /\ calls["regis"] = <<>> => calls'["regis"] = <<m>>
  <2>1. CASE m = ""
    BY <2>1 DEF JobAt, BusTypes
  <2>2. CASE m # ""
    <3> DEFINE c == Append(calls["regis"], m)
    <3>1. calls["regis"] \in Seq(Calls) /\ m \in Calls
      BY <2>2 DEF BusTypes, Programs
    <3>2. c \in Seq(Calls) /\ (calls["regis"] = <<>> => c = <<m>>)
      <4>1. Append(calls["regis"], m) \in Seq(Calls)
        BY <3>1, AppendFacts, Zenon
      <4>2. calls["regis"] = <<>> => Append(calls["regis"], m) = <<m>>
        BY AppendNone
      <4> QED BY <4>1, <4>2
    <3>3. calls' = [calls EXCEPT !["regis"] = c]
      BY <2>2 DEF JobAt
    <3> HIDE DEF c
    <3> QED BY <2>2, <3>2, <3>3 DEF BusTypes, Programs
  <2> QED BY <2>1, <2>2
<1>3. BusTypes'
  BY <1>0, <1>2 DEF BusTypes
<1>4. ReaderTypes'
  BY <1>0 DEF ReaderTypes
<1>5. result' \in [Programs -> {"none", "stored", "not", "cancelled", "killed"}]
      /\ result'["guide"] = result["guide"]
  BY DEF ProgramTypes, Programs
<1>6. ProgramTypes'
  BY <1>0, <1>1, <1>5 DEF ProgramTypes
<1>7. ViewTypes'
  BY DEF ViewTypes
<1>8. DueInv'
  BY <1>0, <1>1 DEF DueInv
<1>9. HereInv'
  BY <1>0, <1>1, <1>2, <1>5, HereFrame DEF Programs
<1>10. GuideInv'
  BY <1>0, <1>1, <1>2, <1>5, GuideFrame
<1> QED BY <1>1, <1>2, <1>3, <1>4, <1>6, <1>7, <1>8, <1>9, <1>10

LEMMA JobStartStep == ASSUME Good, JobStart PROVE Good'
<1>1. /\ at["regis"] = "ready" /\ JobAt("claim", "Claim") /\ Still
      /\ UNCHANGED <<wire, view, result, job>>
  BY DEF JobStart, Still
<1>2. /\ "claim" \in Places \ {"absent"} /\ "Claim" \in Calls \cup {""}
      /\ cancel' \in BOOLEAN /\ terminal' \in {"none", "yes", "no"}
      /\ wire' \in [Programs -> Seq(Messages)]
  BY <1>1 DEF Places, Pending, Calls, Good, ProgramTypes, BusTypes, job
<1>3. /\ ReaderTypes' /\ BusTypes' /\ ProgramTypes' /\ ViewTypes'
      /\ DueInv' /\ HereInv' /\ GuideInv'
      /\ at'["regis"] = "claim"
      /\ calls["regis"] = <<>> => calls'["regis"] = <<"Claim">>
  BY <1>1, <1>2, JobMoves
<1>4. JobInv'
  BY <1>1, <1>3 DEF Good, JobInv, CallOf, Pending, Ending, Still, reader
<1>5. EvidenceInv'
  <2>1. \A p \in Programs : Heard(p)' => Heard(p)
    BY <1>1 DEF Heard
  <2> QED BY <1>1, <2>1, EvidenceFrame DEF Good, Still, reader, loop, job
<1> QED BY <1>3, <1>4, <1>5 DEF Good

LEMMA JobCancelStep == ASSUME Good, JobCancel PROVE Good'
<1>1. /\ at["regis"] \in Pending \cup {"run"} /\ cancel' = TRUE
      /\ JobView(Quiet(view["regis"])) /\ Still /\ wire' = wire
      /\ IF at["regis"] = "run" THEN Finish(FALSE, "stop", "EnrollStop") /\ UNCHANGED terminal
         ELSE terminal' = "no" /\ UNCHANGED <<calls, at, result>>
  BY DEF JobCancel, Open, Still
<1>2. /\ wire' \in [Programs -> Seq(Messages)] /\ terminal \in {"none", "yes", "no"}
      /\ at["regis"] # "absent"
  BY <1>1 DEF Good, BusTypes, ProgramTypes, Pending
<1>3. \E w \in Views : Once(w) /\ view' = [view EXCEPT !["regis"] = w]
  <2>1. Quiet(view["regis"]) \in Views /\ Once(Quiet(view["regis"]))
    BY ViewFacts DEF Good, ViewTypes, Programs
  <2> QED BY <1>1, <2>1 DEF JobView
<1>4. PICK place \in {"stop", at["regis"]}, m \in {"EnrollStop", ""} :
        /\ JobAt(place, m)
        /\ \/ place = "stop" /\ m = "EnrollStop" /\ at["regis"] = "run"
           \/ place = at["regis"] /\ m = "" /\ at["regis"] \in Pending
        /\ result' = result \/ result' = [result EXCEPT !["regis"] = "not"]
        /\ terminal' \in {terminal, "no"}
  <2>1. CASE at["regis"] = "run"
    BY <1>1, <2>1 DEF Finish
  <2>2. CASE at["regis"] # "run"
    <3>1. UNCHANGED <<at, calls, result>> /\ terminal' = "no" /\ at["regis"] \in Pending
      BY <1>1, <2>2
    <3>2. JobAt(at["regis"], "")
      BY <3>1 DEF JobAt, Good, ProgramTypes
    <3> QED BY <3>1, <3>2
  <2> QED BY <2>1, <2>2
<1>5. place \in Places \ {"absent"} /\ m \in Calls \cup {""}
  BY <1>1, <1>2 DEF Places, Pending, Ending, Calls
<1>6. /\ ReaderTypes' /\ BusTypes' /\ ProgramTypes' /\ ViewTypes'
      /\ DueInv' /\ HereInv' /\ GuideInv'
      /\ at'["regis"] = place
      /\ m = "" => calls' = calls
      /\ m # "" /\ calls["regis"] = <<>> => calls'["regis"] = <<m>>
  BY <1>1, <1>2, <1>3, <1>4, <1>5, JobMoves
<1>7. owner' = owner
  BY <1>1 DEF Still, reader
<1>8. JobInv'
  <2>1. CASE at["regis"] = "run"
    BY <1>1, <1>4, <1>6, <1>7, <2>1 DEF Good, JobInv, CallOf, Pending, Ending
  <2>2. CASE at["regis"] # "run"
    <3>1. at'["regis"] = at["regis"] /\ calls' = calls
      BY <1>4, <1>6, <2>2
    <3> QED BY <1>1, <1>7, <3>1, JobFrame DEF Good
  <2> QED BY <2>1, <2>2
<1>9. EvidenceInv'
  <2>1. \A p \in Programs : Heard(p)' => Heard(p)
    BY <1>1 DEF Heard
  <2>2. \A p \in Programs : result'[p] = "stored" => result[p] = "stored"
    BY <1>4 DEF Good, ProgramTypes, Programs
  <2> QED BY <1>1, <1>4, <2>1, <2>2, EvidenceFrame DEF Good, Still, reader, loop
<1> QED BY <1>6, <1>8, <1>9 DEF Good

\* The job takes the message at k out of what the bus has brought.
Takes(k) == /\ k \in {1, 2} /\ k \in DOMAIN wire["regis"]
            /\ wire' = [wire EXCEPT !["regis"] = Without(@, k)]

LEMMA TakesFacts ==
  ASSUME Good, NEW k, Takes(k)
  PROVE  /\ wire["regis"][k] \in Messages
         /\ wire' \in [Programs -> Seq(Messages)] /\ wire'["guide"] = wire["guide"]
         /\ \A p \in Programs : Heard(p)' => Heard(p)
         /\ wire["regis"][k].value = "completed" => Heard("regis")
         /\ NoReply(wire["regis"]) => NoReply(wire'["regis"])
         /\ OneReply(wire["regis"]) => OneReply(wire'["regis"])
         /\ Refused(wire'["regis"]) => Refused(wire["regis"])
         /\ OneReply(wire["regis"]) /\ wire["regis"][k].kind = "reply" => NoReply(wire'["regis"])
<1> DEFINE s == wire["regis"]
           t == Without(s, k)
<1>1. s \in Seq(Messages) /\ k \in DOMAIN s /\ k \in {1, 2}
  BY DEF Takes, Good, BusTypes, Programs
<1>2. /\ t \in Seq(Messages)
      /\ \A i \in DOMAIN t : IF i < k THEN i \in DOMAIN s /\ t[i] = s[i]
                             ELSE i + 1 \in DOMAIN s /\ t[i] = s[i + 1]
  BY <1>1, WithoutFacts
<1>3. wire' = [wire EXCEPT !["regis"] = t]
  BY DEF Takes
<1>4. s[k] \in Messages
  BY <1>1
<1> HIDE DEF t
<1>5. /\ wire' \in [Programs -> Seq(Messages)] /\ wire'["guide"] = wire["guide"]
      /\ wire'["regis"] = t /\ wire["regis"] = s
  BY <1>2, <1>3 DEF Good, BusTypes, Programs
<1> HIDE DEF s
<1>6. \A i \in DOMAIN t : i \in Nat
  <2>1. DOMAIN t = 1..Len(t) /\ Len(t) \in Nat
    BY <1>2
  <2> QED BY <2>1
<1>7. \A i \in DOMAIN t : \E j \in DOMAIN s : j # k /\ t[i] = s[j]
  BY <1>1, <1>2, <1>6
<1>8. \A p \in Programs : Heard(p)' => Heard(p)
  <2>1. Heard("guide")' => Heard("guide")
    BY <1>5 DEF Heard
  <2>2. Heard("regis")' => Heard("regis")
    BY <1>5, <1>7 DEF Heard
  <2> QED BY <2>1, <2>2 DEF Programs
<1>9. s[k].value = "completed" => Heard("regis")
  BY <1>1, <1>5 DEF Heard
<1>10. /\ NoReply(s) => NoReply(t)
       /\ Refused(t) => Refused(s)
       /\ OneReply(s) /\ s[k].kind = "reply" => NoReply(t)
  BY <1>1, <1>7 DEF NoReply, Refused, OneReply
<1>11. OneReply(s) => OneReply(t)
  <2> SUFFICES ASSUME OneReply(s), NEW i \in DOMAIN t, NEW j \in DOMAIN t,
                      t[i].kind = "reply", t[j].kind = "reply"
               PROVE  i = j
    BY DEF OneReply
  <2>1. i \in Nat /\ j \in Nat /\ k \in Nat
    BY <1>1, <1>6
  <2> DEFINE a == IF i < k THEN i ELSE i + 1
             b == IF j < k THEN j ELSE j + 1
  <2>2. a \in DOMAIN s /\ b \in DOMAIN s /\ t[i] = s[a] /\ t[j] = s[b]
    BY <1>2
  <2>3. a = b
    BY <2>2 DEF OneReply
  <2> QED BY <2>1, <2>3
<1> QED BY <1>4, <1>5, <1>8, <1>9, <1>10, <1>11

LEMMA JobReplyStep ==
  ASSUME Good, NEW k, Takes(k), wire["regis"][k].kind = "reply",
         JobReply(wire["regis"][k].value = "ok"), Still, UNCHANGED job
  PROVE  Good'
<1> DEFINE ok == wire["regis"][k].value = "ok"
           v  == view["regis"]
<1>0. ok \in BOOLEAN /\ JobReply(ok)
  OBVIOUS
<1>1. /\ wire' \in [Programs -> Seq(Messages)] /\ wire'["guide"] = wire["guide"]
      /\ \A p \in Programs : Heard(p)' => Heard(p)
      /\ OneReply(wire["regis"]) => NoReply(wire'["regis"])
  BY TakesFacts
<1>2. /\ at["regis"] \in Pending \cup Ending /\ calls["regis"] = <<>>
      /\ NoReply(wire'["regis"]) /\ at["regis"] # "absent"
  BY <1>1 DEF Good, JobInv, NoReply, Takes, Pending, Ending
<1>3. at["regis"] = "claim" /\ ~ok => owner # "regis"
  BY <1>2 DEF Good, JobInv, Refused, Takes
<1> HIDE DEF ok
<1>4. PICK place \in {"start", "run", "stop", "release", "over"} :
        /\ JobAt(place, IF place \in {"run", "over"} THEN "" ELSE CallOf[place])
        /\ place = "over" => at["regis"] = "release" \/ (at["regis"] = "claim" /\ ~ok)
        /\ \/ result' = result
           \/ \E r \in {"stored", "not"} :
                result' = [result EXCEPT !["regis"] = r] /\ (r = "stored" => terminal = "yes")
        /\ view' = view \/ JobView(Prompt(v, TRUE))
  <2>1. /\ CallOf["start"] = "EnrollStart" /\ CallOf["stop"] = "EnrollStop"
        /\ CallOf["release"] = "Release"
    BY DEF CallOf, Pending, Ending
  <2> QED BY <1>0, <2>1 DEF JobReply, Finish
<1> DEFINE m == IF place \in {"run", "over"} THEN "" ELSE CallOf[place]
<1>5. /\ place \in Places \ {"absent"} /\ m \in Calls \cup {""}
      /\ place \in {"run", "over"} => m = ""
      /\ place \notin {"run", "over"} => m # "" /\ m = CallOf[place]
  BY DEF Places, Pending, Ending, Calls, CallOf
<1>6. JobAt(place, m)
  BY <1>4
<1> HIDE DEF m
<1>7. view' = view \/ \E w \in Views : Once(w) /\ view' = [view EXCEPT !["regis"] = w]
  <2>1. Prompt(v, TRUE) \in Views /\ Once(Prompt(v, TRUE))
    BY PromptFacts DEF Good, ViewTypes, Programs
  <2> QED BY <1>4, <2>1 DEF JobView
<1>8. terminal' = terminal /\ terminal' \in {"none", "yes", "no"} /\ cancel' \in BOOLEAN
  BY DEF job, Good, ProgramTypes
<1>9. /\ ReaderTypes' /\ BusTypes' /\ ProgramTypes' /\ ViewTypes'
      /\ DueInv' /\ HereInv' /\ GuideInv'
      /\ at'["regis"] = place
      /\ m = "" => calls' = calls
      /\ m # "" /\ calls["regis"] = <<>> => calls'["regis"] = <<m>>
  <2>1. result' = result \/ \E r \in {"stored", "not"} : result' = [result EXCEPT !["regis"] = r]
    BY <1>4
  <2> QED BY <1>1, <1>2, <1>5, <1>6, <1>7, <1>8, <2>1, JobMoves
<1>10. owner' = owner /\ stored' = stored /\ completed' = completed
  BY DEF Still, reader, loop
<1>11. JobInv'
  <2>1. place = "over" => owner' # "regis"
    BY <1>2, <1>3, <1>4, <1>10 DEF Good, JobInv
  <2>2. ~Refused(wire'["regis"])
    BY <1>2 DEF Refused, NoReply
  <2>3. CASE place \in {"run", "over"}
    BY <1>2, <1>5, <1>9, <2>1, <2>2, <2>3 DEF JobInv, Pending, Ending
  <2>4. CASE place \in {"start", "stop", "release"}
    <3>1. calls'["regis"] = <<CallOf[place]>> /\ calls'["regis"] # <<>>
      <4>1. calls'["regis"] = <<m>> /\ m = CallOf[place]
        BY <1>2, <1>5, <1>9, <2>4
      <4> QED BY <4>1, OnlyOne
    <3> QED BY <1>2, <1>9, <2>2, <2>4, <3>1 DEF JobInv, Pending, Ending
  <2> QED BY <2>3, <2>4
<1>12. EvidenceInv'
  <2>1. \A p \in Programs : result'[p] = "stored" => result[p] = "stored" \/ terminal = "yes"
    BY <1>4 DEF Good, ProgramTypes, Programs
  <2> QED BY <1>1, <1>8, <1>10, <2>1 DEF Good, EvidenceInv
<1> QED BY <1>9, <1>11, <1>12 DEF Good

LEMMA JobSignalStep ==
  ASSUME Good, NEW k, Takes(k), NEW s, s = wire["regis"][k].value, JobSignal(s),
         Still, cancel' = cancel, at["regis"] # "absent"
  PROVE  Good'
<1> DEFINE v == view["regis"]
<1>1. /\ wire' \in [Programs -> Seq(Messages)] /\ wire'["guide"] = wire["guide"]
      /\ \A p \in Programs : Heard(p)' => Heard(p)
      /\ s = "completed" => Heard("regis")
      /\ NoReply(wire["regis"]) => NoReply(wire'["regis"])
      /\ OneReply(wire["regis"]) => OneReply(wire'["regis"])
      /\ Refused(wire'["regis"]) => Refused(wire["regis"])
  BY TakesFacts
<1>2. PICK place \in {"stop", at["regis"]}, m \in {"EnrollStop", ""} :
        /\ JobAt(place, m)
        /\ \/ place = "stop" /\ m = "EnrollStop" /\ at["regis"] = "run"
           \/ /\ UNCHANGED <<at, calls, result>>
              /\ place = at["regis"] /\ m = ""
        /\ \/ result' = result
           \/ \E r \in {"stored", "not"} :
                result' = [result EXCEPT !["regis"] = r] /\ (r = "stored" => s = "completed")
        /\ view' = view \/ \E b \in BOOLEAN : JobView(OnProgress(v, s, b))
        /\ terminal' \in {terminal, "yes", "no"}
        /\ terminal' = "yes" => terminal = "yes" \/ s = "completed"
  <2>1. at' = at /\ calls' = calls => JobAt(at["regis"], "")
    BY DEF JobAt, Good, ProgramTypes
  <2>2. Prompts \in BOOLEAN
    BY DEF Prompts, Open
  <2>3. CASE UNCHANGED <<calls, at, view, result, terminal>>
    BY <2>1, <2>3
  <2>4. CASE JobView(OnProgress(v, s, Prompts)) /\ UNCHANGED <<calls, at, result, terminal>>
    BY <2>1, <2>2, <2>4
  <2>5. CASE /\ terminal' = IF s = "completed" THEN "yes" ELSE "no"
             /\ UNCHANGED <<calls, at, view, result>>
    BY <2>1, <2>5
  <2>6. CASE /\ at["regis"] = "run" /\ Finish(s = "completed", "stop", "EnrollStop")
             /\ UNCHANGED <<view, terminal>>
    BY <2>6 DEF Finish
  <2> QED BY <2>3, <2>4, <2>5, <2>6 DEF JobSignal
<1>3. place \in Places \ {"absent"} /\ m \in Calls \cup {""}
  <2>1. at["regis"] \in Places
    BY DEF Good, ProgramTypes, Programs
  <2> QED BY <2>1 DEF Places, Ending, Calls
<1>4. view' = view \/ \E w \in Views : Once(w) /\ view' = [view EXCEPT !["regis"] = w]
  <2>1. \A b \in BOOLEAN : OnProgress(v, s, b) \in Views /\ Once(OnProgress(v, s, b))
    BY ViewFacts DEF Good, ViewTypes, Programs
  <2> QED BY <1>2, <2>1 DEF JobView
<1>5. terminal' \in {"none", "yes", "no"} /\ cancel' \in BOOLEAN
  BY <1>2 DEF Good, ProgramTypes
<1>6. /\ ReaderTypes' /\ BusTypes' /\ ProgramTypes' /\ ViewTypes'
      /\ DueInv' /\ HereInv' /\ GuideInv'
      /\ at'["regis"] = place
      /\ m = "" => calls' = calls
      /\ m # "" /\ calls["regis"] = <<>> => calls'["regis"] = <<m>>
  <2>1. result' = result \/ \E r \in {"stored", "not"} : result' = [result EXCEPT !["regis"] = r]
    BY <1>2
  <2> QED BY <1>1, <1>2, <1>3, <1>4, <1>5, <2>1, JobMoves
<1>7. owner' = owner /\ stored' = stored /\ completed' = completed
  BY DEF Still, reader, loop
<1>8. JobInv'
  <2>1. CASE at' = at /\ calls' = calls
    BY <1>1, <1>7, <2>1, JobFrame DEF Good
  <2>2. CASE place = "stop" /\ m = "EnrollStop" /\ at["regis"] = "run"
    BY <1>1, <1>6, <1>7, <2>2 DEF Good, JobInv, CallOf, Pending, Ending
  <2> QED BY <1>2, <2>1, <2>2
<1>9. EvidenceInv'
  <2>1. \A p \in Programs : result'[p] = "stored" => result[p] = "stored" \/ s = "completed"
    BY <1>2 DEF Good, ProgramTypes, Programs
  <2> QED BY <1>1, <1>2, <1>7, <2>1 DEF Good, EvidenceInv, Programs
<1> QED BY <1>6, <1>8, <1>9 DEF Good

LEMMA JobNeededStep ==
  ASSUME Good, NEW k, Takes(k), NEW w \in Views, Once(w), JobView(w),
         Still, UNCHANGED <<calls, at, result, job>>
  PROVE  Good'
<1>1. /\ wire' \in [Programs -> Seq(Messages)] /\ wire'["guide"] = wire["guide"]
      /\ \A p \in Programs : Heard(p)' => Heard(p)
      /\ NoReply(wire["regis"]) => NoReply(wire'["regis"])
      /\ OneReply(wire["regis"]) => OneReply(wire'["regis"])
      /\ Refused(wire'["regis"]) => Refused(wire["regis"])
  BY TakesFacts
<1>2. ViewTypes'
  BY DEF JobView, Good, ViewTypes
<1>3. UNCHANGED <<setup, owner, phase, level, retries, stored, told, answer, done, completed,
                  quit, interrupted, due, sigint, late, cancel, terminal>>
  BY DEF Still, reader, loop, job
<1>4. ReaderTypes' /\ ProgramTypes' /\ DueInv' /\ HereInv'
  BY <1>3, HereFrame DEF Good, ReaderTypes, ProgramTypes, DueInv
<1>5. BusTypes'
  BY <1>1, <1>3 DEF Good, BusTypes
<1>6. EvidenceInv'
  BY <1>1, <1>3, EvidenceFrame DEF Good
<1>7. GuideInv' /\ JobInv'
  BY <1>1, <1>3, GuideFrame, JobFrame DEF Good
<1> QED BY <1>2, <1>4, <1>5, <1>6, <1>7 DEF Good

LEMMA JobHandleStep == ASSUME Good, JobHandle PROVE Good'
<1>1. PICK k \in DOMAIN wire["regis"] :
        LET m == wire["regis"][k]
        IN /\ Takes(k)
           /\ \/ m.kind = "reply" /\ JobReply(m.value = "ok") /\ UNCHANGED terminal
              \/ m.kind = "status" /\ JobSignal(m.value)
              \/ /\ m.kind = "needed"
                 /\ JobView(IF at["regis"] = "ready" THEN view["regis"]
                            ELSE OnNeeded(view["regis"], m.value, Prompts))
                 /\ UNCHANGED <<calls, at, result, terminal>>
  BY DEF JobHandle, Takes
<1>2. Still /\ cancel' = cancel /\ at["regis"] # "absent"
  BY DEF JobHandle, Still
<1> DEFINE m == wire["regis"][k]
<1>3. CASE m.kind = "reply" /\ JobReply(m.value = "ok") /\ UNCHANGED terminal
  BY <1>1, <1>2, <1>3, JobReplyStep DEF job
<1>4. CASE m.kind = "status" /\ JobSignal(m.value)
  BY <1>1, <1>2, <1>4, JobSignalStep
<1>5. CASE /\ m.kind = "needed"
           /\ JobView(IF at["regis"] = "ready" THEN view["regis"]
                      ELSE OnNeeded(view["regis"], m.value, Prompts))
           /\ UNCHANGED <<calls, at, result, terminal>>
  <2> DEFINE w == IF at["regis"] = "ready" THEN view["regis"]
                  ELSE OnNeeded(view["regis"], m.value, Prompts)
  <2>1. view["regis"] \in Views /\ Once(view["regis"])
    BY DEF Good, ViewTypes, Programs
  <2>2. w \in Views /\ Once(w)
    BY <2>1, ViewFacts
  <2>3. JobView(w)
    BY <1>5
  <2> HIDE DEF w
  <2> QED BY <1>1, <1>2, <1>5, <2>2, <2>3, JobNeededStep DEF job
<1> QED BY <1>1, <1>3, <1>4, <1>5

-----------------------------------------------------------------------------
LEMMA AlwaysGood == Spec => []Good
<1>1. Init => Good
  BY InitInv, TypeParts DEF Good
<1>2. Good /\ [Next]_vars => Good'
  <2> SUFFICES ASSUME Good, [Next]_vars PROVE Good'
    OBVIOUS
  <2>1. CASE Fprintd
    BY <2>1, ReadStep, TellStep, FingerStep DEF Fprintd
  <2>2. CASE Finger
    BY <2>2, FingerStep, ScannedStep DEF Finger
  <2>3. CASE GuideRuns \/ GuideTimeout
    BY <2>3, GuideReturnsStep, GuideCancelStep, GuideHandleStep, GuideLeavesStep,
       GuideTimeoutStep DEF GuideRuns
  <2>4. CASE JobHandle \/ User
    BY <2>4, JobHandleStep, GuideEnterStep, CtrlCStep, JobStartStep, JobCancelStep DEF User
  <2>5. CASE UNCHANGED vars
    <3>1. UNCHANGED <<setup, reader, told, calls, wire, answer, at, view, result, loop, job>>
      BY <2>5 DEF vars, bus
    <3>2. ReaderTypes' /\ BusTypes' /\ ProgramTypes' /\ ViewTypes' /\ DueInv'
      BY <3>1 DEF Good, ReaderTypes, BusTypes, ProgramTypes, ViewTypes, DueInv, reader, loop, job
    <3>3. \A p \in Programs : Heard(p)' => Heard(p)
      BY <3>1 DEF Heard
    <3>4. HereInv' /\ EvidenceInv' /\ GuideInv' /\ JobInv'
      BY <3>1, <3>3, HereFrame, EvidenceFrame, GuideFrame, JobFrame DEF Good, reader, loop, job
    <3> QED BY <3>2, <3>4 DEF Good
  <2> QED BY <2>1, <2>2, <2>3, <2>4, <2>5 DEF Next
<1> QED BY <1>1, <1>2, PTL DEF Spec

\* The variables of both programs, of fprintd and of the bus keep their types,
\* for readers of any number of stages.
THEOREM EnrollmentTypes == Spec => []TypeOK
<1>1. Good => TypeOK
  BY TypeParts DEF Good
<1> QED BY <1>1, AlwaysGood, PTL

\* Neither program tells the user twice to swipe for the same stage and attempt,
\* however many stages and repetitions there are and however late or early the
\* statuses and finger-needed come.
THEOREM OnePromptEach == Spec => []PromptedOnce
<1>1. Good => PromptedOnce
  BY TypeParts DEF Good
<1> QED BY <1>1, AlwaysGood, PTL

\* Who enrolls alone reports the finger as registered only if it is.
THEOREM TrueReports == Spec => []ReportIsTrue
<1>1. Good => ReportIsTrue
  <2> SUFFICES ASSUME Good, NEW q \in Programs, setup.here = {q},
                      NEW p \in Programs, result[p] = "stored"
               PROVE  p \in stored
    BY DEF ReportIsTrue, Alone
  <2>1. p = q
    BY DEF Good, HereInv
  <2>2. stored # {} /\ stored \subseteq {q}
    BY DEF Good, HereInv, EvidenceInv
  <2> QED BY <2>1, <2>2
<1> QED BY <1>1, AlwaysGood, PTL

\* A program that has ended holds the reader only if it was killed while it was
\* cleaning up, or a call of the guide timed out.
THEOREM ReaderIsLeftFree == Spec => []ReaderLeftFree
<1>1. Good => ReaderLeftFree
  BY DEF Good, ReaderLeftFree, GuideInv, JobInv, Programs
<1> QED BY <1>1, AlwaysGood, PTL

-----------------------------------------------------------------------------
(* What the bus still has to bring a program.                              *)

\* The last finger-needed among the messages w is b; there is none.
LastNeeded(w, b) ==
  \A i \in DOMAIN w :
    w[i].kind = "needed" /\ (\A k \in DOMAIN w : w[k].kind = "needed" => k <= i)
      => (w[i].value = "yes") = b
NoNeeded(w) == \A i \in DOMAIN w : w[i].kind # "needed"
NoStatus(w) == \A i \in DOMAIN w : w[i].kind # "status"

\* Whoever has counted n stages will have counted m when it has handled w:
\* g has the count after each message.
PassOf(e) == IF e.value = "passed" THEN 1 ELSE 0
Leads(w, n, m) ==
  \E g \in [0..Len(w) -> Nat] :
    /\ g[0] = n /\ g[Len(w)] = m
    /\ \A i \in DOMAIN w : g[i] = g[i - 1] + PassOf(w[i])

LEMMA LeadsNone ==
  ASSUME NEW w \in Seq(Messages), NEW n \in Nat
  PROVE  /\ (\A i \in DOMAIN w : w[i].value # "passed") => Leads(w, n, n)
         /\ \A m : w = <<>> /\ Leads(w, n, m) => n = m
<1>1. Len(w) \in Nat /\ DOMAIN w = 1..Len(w)
  OBVIOUS
<1>2. ASSUME \A i \in DOMAIN w : w[i].value # "passed" PROVE Leads(w, n, n)
  <2> DEFINE g == [i \in 0..Len(w) |-> n]
  <2>1. g \in [0..Len(w) -> Nat] /\ g[0] = n /\ g[Len(w)] = n
    BY <1>1
  <2>2. \A i \in DOMAIN w : g[i] = g[i - 1] + PassOf(w[i])
    BY <1>1, <1>2 DEF PassOf
  <2> HIDE DEF g
  <2> QED BY <2>1, <2>2 DEF Leads
<1>3. \A m : w = <<>> /\ Leads(w, n, m) => n = m
  BY DEF Leads
<1> QED BY <1>2, <1>3

LEMMA LeadsAppend ==
  ASSUME NEW w \in Seq(Messages), NEW e \in Messages, NEW n \in Nat, NEW m \in Nat, Leads(w, n, m)
  PROVE  Leads(Append(w, e), n, m + PassOf(e))
<1> DEFINE u == Append(w, e)
<1>1. Len(w) \in Nat /\ DOMAIN w = 1..Len(w) /\ Len(u) = Len(w) + 1 /\ DOMAIN u = 1..Len(u)
      /\ PassOf(e) \in Nat
  BY DEF PassOf
<1>2. \A i \in DOMAIN u : u[i] = IF i \in DOMAIN w THEN w[i] ELSE e
  OBVIOUS
<1> HIDE DEF u
<1>3. PICK g \in [0..Len(w) -> Nat] :
        /\ g[0] = n /\ g[Len(w)] = m
        /\ \A i \in DOMAIN w : g[i] = g[i - 1] + PassOf(w[i])
  BY DEF Leads
<1> DEFINE h == [i \in 0..Len(u) |-> IF i <= Len(w) THEN g[i] ELSE m + PassOf(e)]
<1>4. h \in [0..Len(u) -> Nat] /\ h[0] = n /\ h[Len(u)] = m + PassOf(e)
  BY <1>1, <1>3
<1>5. ASSUME NEW i \in DOMAIN u PROVE h[i] = h[i - 1] + PassOf(u[i])
  <2>1. CASE i \in DOMAIN w
    BY <1>1, <1>2, <1>3, <2>1
  <2>2. CASE i \notin DOMAIN w
    BY <1>1, <1>2, <1>3, <2>2
  <2> QED BY <2>1, <2>2
<1> HIDE DEF h
<1> QED BY <1>4, <1>5 DEF Leads, u

LEMMA LeadsWithout ==
  ASSUME NEW w \in Seq(Messages), NEW k \in DOMAIN w, k \in {1, 2},
         k = 2 => w[1].value # "passed", NEW n, NEW m, Leads(w, n, m)
  PROVE  Leads(Without(w, k), n + PassOf(w[k]), m)
<1> DEFINE u == Without(w, k)
<1>1. /\ u \in Seq(Messages) /\ Len(u) = Len(w) - 1
      /\ \A i \in DOMAIN u : u[i] = IF i < k THEN w[i] ELSE w[i + 1]
  BY WithoutFacts
<1>2. Len(w) \in Nat \ {0} /\ DOMAIN w = 1..Len(w) /\ Len(u) \in Nat /\ DOMAIN u = 1..Len(u)
  BY <1>1
<1> HIDE DEF u
<1>3. PICK g \in [0..Len(w) -> Nat] :
        /\ g[0] = n /\ g[Len(w)] = m
        /\ \A i \in DOMAIN w : g[i] = g[i - 1] + PassOf(w[i])
  BY DEF Leads
<1>4. g[k] = n + PassOf(w[k]) /\ (k = 2 => g[1] = n)
  <2>1. g[1] = g[0] + PassOf(w[1])
    BY <1>2, <1>3
  <2>2. CASE k = 1
    BY <1>3, <2>1, <2>2
  <2>3. CASE k = 2
    <3>1. g[2] = g[1] + PassOf(w[2])
      BY <1>2, <1>3, <2>3
    <3>2. PassOf(w[1]) = 0
      BY <2>3 DEF PassOf
    <3>3. g[0] \in Nat
      BY <1>2, <1>3
    <3> QED BY <1>3, <2>1, <2>3, <3>1, <3>2, <3>3
  <2> QED BY <2>2, <2>3
<1> DEFINE h == [i \in 0..Len(u) |-> IF i < k THEN g[k] ELSE g[i + 1]]
<1>5. h \in [0..Len(u) -> Nat] /\ h[0] = g[k] /\ h[Len(u)] = m
  BY <1>1, <1>2, <1>3
<1>6. ASSUME NEW i \in DOMAIN u PROVE h[i] = h[i - 1] + PassOf(u[i])
  <2>1. CASE i < k
    <3>1. i = 1 /\ k = 2 /\ u[i] = w[1]
      BY <1>1, <1>2, <2>1
    <3>2. h[1] = g[2] /\ h[0] = g[2] /\ PassOf(u[i]) = 0 /\ g[2] \in Nat
      BY <1>2, <1>3, <3>1 DEF PassOf
    <3> QED BY <3>1, <3>2
  <2>2. CASE i = k
    <3>1. h[i] = g[i + 1] /\ h[i - 1] = g[i] /\ u[i] = w[i + 1]
      BY <1>1, <1>2, <2>2
    <3>2. PICK j \in DOMAIN w : j = i + 1 /\ j - 1 = i
      BY <1>1, <1>2
    <3>3. g[j] = g[j - 1] + PassOf(w[j])
      BY <1>3
    <3> QED BY <3>1, <3>2, <3>3
  <2>3. CASE i > k
    <3>1. h[i] = g[i + 1] /\ h[i - 1] = g[i] /\ u[i] = w[i + 1]
      BY <1>1, <1>2, <2>3
    <3>2. PICK j \in DOMAIN w : j = i + 1 /\ j - 1 = i
      BY <1>1, <1>2
    <3>3. g[j] = g[j - 1] + PassOf(w[j])
      BY <1>3
    <3> QED BY <3>1, <3>2, <3>3
  <2> QED BY <1>2, <2>1, <2>2, <2>3
<1> HIDE DEF h
<1> QED BY <1>4, <1>5, <1>6 DEF Leads, u

LEMMA NeededAppend ==
  ASSUME NEW w \in Seq(Messages), NEW e \in Messages, NEW b
  PROVE  /\ e.kind # "needed" =>
              /\ LastNeeded(w, b) => LastNeeded(Append(w, e), b)
              /\ NoNeeded(Append(w, e)) => NoNeeded(w)
         /\ e.kind = "needed" /\ (e.value = "yes") = b =>
              LastNeeded(Append(w, e), b) /\ ~NoNeeded(Append(w, e))
         /\ NoStatus(w) /\ e.kind # "status" => NoStatus(Append(w, e))
<1> DEFINE u == Append(w, e)
           n == Len(w)
<1>1. n \in Nat /\ DOMAIN w = 1..n /\ DOMAIN u = 1..(n + 1)
  OBVIOUS
<1>2. \A i \in DOMAIN u : u[i] = IF i \in DOMAIN w THEN w[i] ELSE e
  OBVIOUS
<1>3. u[n + 1] = e /\ n + 1 \in DOMAIN u
  BY <1>1, <1>2
<1> HIDE DEF u, n
<1>4. e.kind # "needed" => (LastNeeded(w, b) => LastNeeded(u, b)) /\ (NoNeeded(u) => NoNeeded(w))
  BY <1>1, <1>2, <1>3 DEF LastNeeded, NoNeeded
<1>5. e.kind = "needed" /\ (e.value = "yes") = b => LastNeeded(u, b) /\ ~NoNeeded(u)
  <2> SUFFICES ASSUME e.kind = "needed", (e.value = "yes") = b PROVE LastNeeded(u, b) /\ ~NoNeeded(u)
    OBVIOUS
  <2>1. \A i \in DOMAIN u : n + 1 <= i => u[i] = e
    BY <1>1, <1>3
  <2>2. LastNeeded(u, b)
    BY <1>3, <2>1 DEF LastNeeded
  <2> QED BY <1>3, <2>2 DEF NoNeeded
<1>6. NoStatus(w) /\ e.kind # "status" => NoStatus(u)
  BY <1>2 DEF NoStatus
<1> QED BY <1>4, <1>5, <1>6 DEF u

LEMMA NeededWithout ==
  ASSUME NEW w \in Seq(Messages), NEW k \in DOMAIN w, k \in {1, 2},
         k = 2 => w[1].kind = "reply", NEW b
  PROVE  /\ LastNeeded(w, b) => LastNeeded(Without(w, k), b)
         /\ NoNeeded(Without(w, k)) =>
              IF w[k].kind = "needed" THEN LastNeeded(w, b) => (w[k].value = "yes") = b
              ELSE NoNeeded(w)
         /\ NoStatus(w) => NoStatus(Without(w, k))
<1> DEFINE u == Without(w, k)
           n == Len(w)
<1>1. /\ u \in Seq(Messages) /\ Len(u) = n - 1
      /\ \A i \in DOMAIN u : u[i] = IF i < k THEN w[i] ELSE w[i + 1]
  BY WithoutFacts
<1>2. n \in Nat \ {0} /\ DOMAIN w = 1..n /\ DOMAIN u = 1..(n - 1)
  BY <1>1
<1> HIDE DEF u, n
<1> DEFINE Old(i) == IF i < k THEN i ELSE i + 1
<1>3. \A i \in DOMAIN u : Old(i) \in DOMAIN w /\ u[i] = w[Old(i)]
  BY <1>1, <1>2
<1>4. \A j \in DOMAIN w : j # k => \E i \in DOMAIN u : j = Old(i)
  <2> SUFFICES ASSUME NEW j \in DOMAIN w, j # k PROVE \E i \in DOMAIN u : j = Old(i)
    OBVIOUS
  <2>1. CASE j < k
    <3>1. j \in DOMAIN u /\ j = Old(j)
      BY <1>2, <2>1
    <3> QED BY <3>1
  <2>2. CASE j > k
    <3>1. j - 1 \in DOMAIN u /\ j = Old(j - 1)
      BY <1>2, <2>2
    <3> QED BY <3>1
  <2> QED BY <1>2, <2>1, <2>2
<1>5. \A j \in DOMAIN w : j < k => w[j].kind # "needed"
  BY <1>2
<1>6. ASSUME LastNeeded(w, b) PROVE LastNeeded(u, b)
  <2> SUFFICES ASSUME NEW i \in DOMAIN u, u[i].kind = "needed",
                      \A j \in DOMAIN u : u[j].kind = "needed" => j <= i
               PROVE  (u[i].value = "yes") = b
    BY DEF LastNeeded
  <2>1. Old(i) \in DOMAIN w /\ u[i] = w[Old(i)]
    BY <1>3
  <2>2. \A j \in DOMAIN w : w[j].kind = "needed" => j <= Old(i)
    <3> SUFFICES ASSUME NEW j \in DOMAIN w, w[j].kind = "needed" PROVE j <= Old(i)
      OBVIOUS
    <3>1. CASE j = k
      <4>1. ~(i < k)
        BY <1>2, <1>5, <2>1
      <4> QED BY <1>2, <3>1, <4>1
    <3>2. CASE j # k
      <4>1. PICK l \in DOMAIN u : j = Old(l)
        BY <1>4, <3>2
      <4>2. l <= i
        BY <1>3, <4>1
      <4> QED BY <1>2, <4>1, <4>2
    <3> QED BY <3>1, <3>2
  <2> QED BY <1>6, <2>1, <2>2 DEF LastNeeded
<1>7. ASSUME NoNeeded(u)
      PROVE  IF w[k].kind = "needed" THEN LastNeeded(w, b) => (w[k].value = "yes") = b
             ELSE NoNeeded(w)
  <2>1. \A j \in DOMAIN w : j # k => w[j].kind # "needed"
    BY <1>3, <1>4, <1>7 DEF NoNeeded
  <2>2. \A j \in DOMAIN w : w[j].kind = "needed" => j <= k
    BY <1>2, <2>1
  <2>3. w[k].kind # "needed" => NoNeeded(w)
    BY <2>1 DEF NoNeeded
  <2> QED BY <2>2, <2>3 DEF LastNeeded
<1>8. NoStatus(w) => NoStatus(u)
  BY <1>3 DEF NoStatus
<1> QED BY <1>6, <1>7, <1>8 DEF u

-----------------------------------------------------------------------------
(* What a program knows, and whether it has asked for what it knows of.    *)

\* The last prompt was for a stage and attempt that have begun.
Begun(v) == v.token # <<>> => v.token[1] <= v.passed /\ v.token[2] <= v.attempt

\* A prompt for the present stage and attempt stands, and a finger that is
\* needed has its prompt.
Stands(v) == v.token = Token(v) => v.swipe
Asked(v) == Stands(v) /\ (v.needed => v.token = Token(v))

LEMMA PromptKeeps ==
  ASSUME NEW v \in Views, NEW b \in BOOLEAN
  PROVE  /\ Prompt(v, b).passed = v.passed /\ Prompt(v, b).needed = v.needed
         /\ Begun(v) => Begun(Prompt(v, b))
         /\ b /\ Stands(v) => Asked(Prompt(v, b))
<1>1. CASE v.needed /\ b /\ v.token # Token(v)
  <2> DEFINE n == v.asked + 1
             t == Token(v)
             w == [v EXCEPT !.token = t, !.asked = n, !.swipe = TRUE]
  <2>1. t = <<v.passed, v.attempt>> /\ v.passed \in Nat /\ v.attempt \in Nat
    BY DEF Token, Views
  <2> HIDE DEF n, t
  <2>2. /\ w.passed = v.passed /\ w.attempt = v.attempt /\ w.needed = v.needed
        /\ w.token = t /\ w.swipe = TRUE
    BY DEF Views
  <2> HIDE DEF w
  <2>3. Token(w) = t
    BY <2>1, <2>2 DEF Token
  <2>4. Begun(w) /\ Asked(w)
    BY <2>1, <2>2, <2>3 DEF Begun, Asked, Stands
  <2>5. Prompt(v, b) = w
    BY <1>1 DEF Prompt, w, t, n
  <2> QED BY <2>2, <2>4, <2>5
<1>2. CASE ~(v.needed /\ b /\ v.token # Token(v))
  BY <1>2 DEF Prompt, Asked
<1> QED BY <1>1, <1>2

LEMMA QuietKeeps ==
  ASSUME NEW v \in Views, Begun(v)
  PROVE  Quiet(v).passed = v.passed /\ Quiet(v).needed = v.needed /\ Begun(Quiet(v))
  BY DEF Quiet, Begun, Views

LEMMA NeededKeeps ==
  ASSUME NEW v \in Views, NEW b \in BOOLEAN, NEW value, Begun(v)
  PROVE  /\ OnNeeded(v, value, b).passed = v.passed
         /\ OnNeeded(v, value, b).needed = (value = "yes")
         /\ Begun(OnNeeded(v, value, b))
         /\ b /\ Stands(v) => Asked(OnNeeded(v, value, b))
<1> DEFINE needs == value = "yes"
           w == [v EXCEPT !.needed = needs]
<1>1. needs \in BOOLEAN
  OBVIOUS
<1> HIDE DEF needs
<1>2. /\ w \in Views /\ w.passed = v.passed /\ w.needed = needs /\ w.attempt = v.attempt
      /\ w.token = v.token /\ w.swipe = v.swipe
  BY <1>1 DEF Views
<1>3. OnNeeded(v, value, b) = Prompt(w, b)
  BY DEF OnNeeded, needs
<1> HIDE DEF w
<1>4. Begun(w) /\ (Stands(v) => Stands(w))
  BY <1>2 DEF Begun, Stands, Token
<1> QED BY <1>2, <1>3, <1>4, PromptKeeps DEF needs

LEMMA ProgressKeeps ==
  ASSUME NEW v \in Views, NEW b \in BOOLEAN, NEW s, Begun(v)
  PROVE  /\ OnProgress(v, s, b).passed = v.passed + (IF s = "passed" THEN 1 ELSE 0)
         /\ OnProgress(v, s, b).needed = v.needed
         /\ Begun(OnProgress(v, s, b))
         /\ b => Asked(OnProgress(v, s, b))
<1> DEFINE w == IF s = "passed" THEN [v EXCEPT !.passed = @ + 1, !.swipe = FALSE]
                ELSE [v EXCEPT !.attempt = @ + 1, !.swipe = FALSE]
<1>1. v.passed \in Nat /\ v.attempt \in Nat
  BY DEF Views
<1>2. /\ w \in Views /\ w.needed = v.needed /\ w.token = v.token
      /\ w.passed = v.passed + (IF s = "passed" THEN 1 ELSE 0)
      /\ w.attempt = v.attempt + (IF s = "passed" THEN 0 ELSE 1)
  <2>1. /\ v.passed + 1 \in Nat /\ v.attempt + 1 \in Nat
    BY <1>1
  <2>2. \A n \in Nat : /\ [v EXCEPT !.passed = n, !.swipe = FALSE] \in Views
                      /\ [v EXCEPT !.attempt = n, !.swipe = FALSE] \in Views
    BY DEF Views
  <2>3. w \in Views
    BY <2>1, <2>2
  <2>4. CASE s = "passed"
    BY <1>1, <2>3, <2>4 DEF Views
  <2>5. CASE s # "passed"
    BY <1>1, <2>3, <2>5 DEF Views
  <2> QED BY <2>4, <2>5
<1>3. OnProgress(v, s, b) = Prompt(w, b)
  BY DEF OnProgress
<1> HIDE DEF w
<1>4. Begun(w)
  <2> SUFFICES ASSUME w.token # <<>> PROVE w.token[1] <= w.passed /\ w.token[2] <= w.attempt
    BY DEF Begun
  <2>1. v.token # <<>> /\ v.token \in Nat \X Nat
    BY <1>2 DEF Views, Tokens
  <2>2. v.token[1] <= v.passed /\ v.token[2] <= v.attempt /\ v.token[1] \in Nat /\ v.token[2] \in Nat
    BY <2>1 DEF Begun
  <2> QED BY <1>1, <1>2, <2>2
<1>5. w.token # Token(w)
  <2> SUFFICES ASSUME w.token = <<w.passed, w.attempt>> PROVE FALSE
    BY DEF Token
  <2>1. v.token # <<>> /\ v.token[1] = w.passed /\ v.token[2] = w.attempt
    BY <1>2
  <2>2. w.passed <= v.passed /\ w.attempt <= v.attempt
    BY <2>1 DEF Begun
  <2> QED BY <1>1, <1>2, <2>2
<1>6. Stands(w)
  BY <1>5 DEF Stands
<1> QED BY <1>2, <1>3, <1>4, <1>6, PromptKeeps

-----------------------------------------------------------------------------
(* What makes whoever waits for a finger ask for it.                       *)

\* A program that has no news of finger-needed to come knows how it stands.
Knows(p) ==
  Listens(p) =>
    /\ LastNeeded(wire[p], told)
    /\ NoNeeded(wire[p]) =>
         /\ view[p].needed => told
         /\ owner = p /\ phase # "off" => view[p].needed = told

\* The EnrollStart of p has not been read yet.
Unstarted(p) == at[p] \in {"ready", "claim"} \/ (at[p] = "start" /\ calls[p] # <<>>)

\* Who enrolls alone has counted the stages that have passed, but for those it
\* is still to hear of.
Counts(p) ==
  setup.here = {p} /\ Listens(p) /\ (p = "regis" => ~cancel) =>
    /\ Unstarted(p) => phase = "off" /\ view[p].passed = 0 /\ NoStatus(wire[p])
    /\ ~Unstarted(p) /\ phase # "off" => Leads(wire[p], view[p].passed, level)

Follows(p) == /\ Knows(p) /\ Counts(p)
              /\ Begun(view[p]) /\ (at[p] = "ready" => view[p] = Fresh)

\* A prompt is owed by nobody whose loop runs.
AskedInv ==
  /\ ~quit => ~done /\ Asked(view["guide"])
  /\ Prompts => Asked(view["regis"])
  /\ at["regis"] = "run" /\ ~cancel => terminal = "none"

\* A call that has timed out ends the guide.
LateInv == late => at["guide"] \in {"release", "over"}

Follow == LateInv /\ AskedInv /\ \A p \in Programs : Follows(p)

\* Nothing has come for p, and no more than its prompt has changed for it.
LEMMA QuietFollows ==
  ASSUME NEW p \in Programs, Follows(p), at'[p] = at[p], calls'[p] = calls[p],
         wire'[p] = wire[p],
         view'[p].needed = view[p].needed, view'[p].passed = view[p].passed,
         Begun(view'[p]), at[p] = "ready" => view'[p] = view[p],
         UNCHANGED <<setup, told, level>>, cancel' = cancel \/ cancel' = TRUE,
         phase = "off" <=> phase' = "off",
         phase' # "off" => owner' = owner
  PROVE  Follows(p)'
<1>1. Listens(p)' = Listens(p) /\ Unstarted(p)' = Unstarted(p)
  BY DEF Listens, Unstarted
<1>2. Knows(p)'
  BY <1>1 DEF Follows, Knows
<1>3. Counts(p)'
  BY <1>1 DEF Follows, Counts
<1> QED BY <1>2, <1>3 DEF Follows

LEMMA FollowsFrame ==
  ASSUME NEW p \in Programs, Follows(p), at'[p] = at[p], calls'[p] = calls[p],
         wire'[p] = wire[p], view'[p] = view[p],
         UNCHANGED <<setup, told, level, cancel>>,
         phase = "off" <=> phase' = "off",
         phase' # "off" => owner' = owner
  PROVE  Follows(p)'
<1>1. Begun(view'[p])
  BY DEF Follows
<1> QED BY <1>1, QuietFollows

LEMMA AskedFrame ==
  ASSUME AskedInv, UNCHANGED <<view, quit, done, terminal>>, cancel' = cancel,
         at'["regis"] = at["regis"]
  PROVE  AskedInv'
<1>1. Prompts' => Prompts
  BY DEF Prompts, Open
<1> QED BY <1>1 DEF AskedInv

LEMMA DeafFollows ==
  ASSUME NEW p \in Programs, Begun(view'[p]), ~Listens(p)'
  PROVE  Follows(p)'
  BY DEF Follows, Knows, Counts, Listens, Ending

\* A program that listens has no more than the call it waits for, and none that
\* it does not wait for.
LEMMA CallsFacts ==
  ASSUME Good, LateInv, NEW p \in Programs, Listens(p)
  PROVE  /\ calls[p] = <<>> \/ (at[p] \in Pending /\ calls[p] = <<CallOf[at[p]]>>)
         /\ p = "guide" /\ answer # "none" => calls[p] = <<>>
         /\ p = "regis" /\ ~NoReply(wire[p]) => calls[p] = <<>>
         /\ at[p] = "ready" => owner # p
<1>1. CASE p = "guide"
  <2>1. ~late /\ result["guide"] # "killed" /\ at["guide"] \notin Ending
    BY <1>1 DEF Listens, LateInv, Good, GuideInv, Ending
  <2> QED BY <1>1, <2>1 DEF Good, GuideInv, Pending, Ending
<1>2. CASE p = "regis"
  <2>1. at["regis"] \notin Ending
    BY <1>2 DEF Listens
  <2> QED BY <1>2, <2>1 DEF Good, JobInv
<1> QED BY <1>1, <1>2 DEF Programs

LEMMA ViewsFacts ==
  ASSUME Good, NEW p \in Programs
  PROVE  view[p] \in Views /\ view[p].passed \in Nat /\ wire[p] \in Seq(Messages)
         /\ level \in Nat
<1>1. level \in Nat
  <2>1. setup.stages \in Nat \ {0}
    BY EnrollmentAssumption DEF Good, ReaderTypes
  <2> QED BY <2>1 DEF Good, ReaderTypes
<1> QED BY <1>1 DEF Good, ViewTypes, Views, BusTypes

LEMMA ReadFollow == ASSUME Good, Follow, NEW q \in Programs, Read(q) PROVE Follow'
<1> DEFINE m == Head(calls[q])
<1>1. /\ calls[q] # <<>>
      /\ UNCHANGED <<setup, retries, told, stored, at, view, result, loop, job>>
      /\ calls' = [calls EXCEPT ![q] = Tail(@)]
  BY DEF Read
<1>2. PICK ok \in BOOLEAN :
        /\ ReadEffect(q, m, ok)
        /\ m = "EnrollStart" => told = (phase = "wait")
        /\ IF q = "regis" THEN wire' = [wire EXCEPT ![q] = Append(@, Reply(ok))]
           ELSE UNCHANGED wire
  BY DEF Read, ReadEffect
<1> HIDE DEF m
<1>3. LateInv' /\ AskedInv'
  <2>1. UNCHANGED <<late, quit, done, terminal, cancel>>
    BY <1>1 DEF loop, job
  <2> QED BY <1>1, <2>1, AskedFrame DEF Follow, LateInv
<1>4. q \in setup.here /\ q # Nobody
  BY <1>1 DEF Good, HereInv, Programs, Nobody
<1>5. ASSUME NEW p \in Programs, p # q PROVE Follows(p)'
  <2>1. at'[p] = at[p] /\ wire'[p] = wire[p] /\ view'[p] = view[p] /\ told' = told
    BY <1>1, <1>2, <1>5 DEF Good, BusTypes
  <2>2. owner' = p /\ phase' # "off" => owner = p /\ phase # "off"
    BY <1>2, <1>4, <1>5 DEF ReadEffect, Able, Nobody, Programs
  <2>3. Knows(p)'
    BY <2>1, <2>2 DEF Follow, Follows, Knows, Listens
  <2>4. setup'.here # {p}
    BY <1>1, <1>4, <1>5
  <2> QED BY <2>1, <2>3, <2>4 DEF Follow, Follows, Counts
<1>6. Follows(q)'
  <2>1. CASE ~Listens(q)
    BY <1>1, <2>1, DeafFollows DEF Listens, Follow, Follows
  <2>2. CASE Listens(q)
    <3>1. at[q] \in Pending /\ calls[q] = <<CallOf[at[q]]>>
      BY <1>1, <2>2, CallsFacts DEF Follow
    <3>2. m = CallOf[at[q]] /\ calls'[q] = <<>>
      <4>1. Head(<<CallOf[at[q]]>>) = CallOf[at[q]] /\ Tail(<<CallOf[at[q]]>>) = <<>>
        BY OnlyOne
      <4> QED BY <1>1, <3>1, <4>1 DEF m, Good, BusTypes
    <3>3. view[q] \in Views /\ view[q].passed \in Nat /\ wire[q] \in Seq(Messages)
          /\ level \in Nat
      BY ViewsFacts
    <3>4. Reply(ok) \in Messages /\ Reply(ok).kind = "reply" /\ Reply(ok).value # "passed"
      BY ReplyFacts
    <3>5. wire'[q] = wire[q] \/ wire'[q] = Append(wire[q], Reply(ok))
      BY <1>2 DEF Good, BusTypes
    <3>6. /\ LastNeeded(wire[q], told) => LastNeeded(wire'[q], told)
          /\ NoNeeded(wire'[q]) => NoNeeded(wire[q])
          /\ NoStatus(wire[q]) => NoStatus(wire'[q])
      BY <3>3, <3>4, <3>5, NeededAppend
    <3>7. wire'[q] \in Seq(Messages)
      BY <3>3, <3>4, <3>5
    <3>8. Listens(q)' = Listens(q) /\ told' = told /\ view' = view /\ at' = at
      BY <1>1 DEF Listens
    <3>9. CASE at[q] = "claim"
      <4>1. m = "Claim" /\ phase' = phase /\ Unstarted(q) /\ Unstarted(q)'
        BY <1>2, <3>2, <3>8, <3>9 DEF CallOf, Pending, ReadEffect, Unstarted
      <4>2. owner' = owner \/ phase = "off"
        BY <1>2, <4>1 DEF ReadEffect, Able, Good, ReaderTypes
      <4>3. Knows(q)'
        BY <2>2, <3>6, <3>8, <4>1, <4>2 DEF Follow, Follows, Knows
      <4>4. Counts(q)'
        BY <1>1, <2>2, <3>6, <3>8, <4>1 DEF Follow, Follows, Counts, job
      <4> QED BY <3>8, <4>3, <4>4 DEF Follow, Follows
    <3>10. CASE at[q] = "start"
      <4>1. m = "EnrollStart" /\ Unstarted(q) /\ ~Unstarted(q)'
        BY <1>1, <3>2, <3>8, <3>10 DEF CallOf, Pending, Unstarted
      <4>2. owner' = owner /\ (ok => phase = "off" /\ ~told) /\ (~ok => phase' = phase)
        BY <1>2, <4>1 DEF ReadEffect, Able
      <4>3. Knows(q)'
        <5>1. NoNeeded(wire'[q]) => (view[q].needed => told)
          BY <2>2, <3>6 DEF Follow, Follows, Knows
        <5>2. ok => view[q].needed \in BOOLEAN /\ told = FALSE
          BY <3>3, <4>2 DEF Views, Good, ReaderTypes
        <5>3. CASE ok
          BY <2>2, <3>6, <3>8, <5>1, <5>2, <5>3 DEF Follow, Follows, Knows
        <5>4. CASE ~ok
          BY <2>2, <3>6, <3>8, <4>2, <5>4 DEF Follow, Follows, Knows
        <5> QED BY <5>3, <5>4
      <4>4. Counts(q)'
        <5> SUFFICES ASSUME setup.here = {q}, q = "regis" => ~cancel, phase' # "off"
                     PROVE  Leads(wire'[q], view'[q].passed, level')
          BY <1>1, <2>2, <3>8, <4>1 DEF Counts, job
        <5>1. phase = "off" /\ view[q].passed = 0 /\ NoStatus(wire[q])
          BY <2>2, <4>1 DEF Follow, Follows, Counts
        <5>2. ok /\ level' = 0
          BY <1>2, <4>1, <4>2, <5>1 DEF ReadEffect
        <5>3. \A i \in DOMAIN wire'[q] : wire'[q][i].value # "passed"
          BY <3>6, <3>7, <5>1, MessageFacts DEF NoStatus
        <5> QED BY <3>7, <3>8, <5>1, <5>2, <5>3, LeadsNone
      <4> QED BY <3>8, <4>3, <4>4 DEF Follow, Follows
    <3> QED BY <3>1, <3>9, <3>10 DEF Pending
  <2> QED BY <2>1, <2>2
<1> QED BY <1>3, <1>5, <1>6 DEF Follow

LEMMA FingerFollow == ASSUME Good, Follow, Arm \/ Touch \/ Vanish PROVE Follow'
<1>1. /\ UNCHANGED <<setup, level, retries, told, stored, bus, at, view, result, loop, job>>
      /\ phase' # "off" => owner' = owner /\ phase # "off"
      /\ phase' = "off" => Vanish
  BY DEF Arm, Touch, Vanish
<1>2. UNCHANGED <<late, quit, done, terminal, cancel, calls, wire>>
  BY <1>1 DEF loop, job, bus
<1>3. LateInv' /\ AskedInv'
  BY <1>1, <1>2, AskedFrame DEF Follow, LateInv
<1>4. ASSUME NEW p \in Programs PROVE Follows(p)'
  <2>1. CASE phase' # "off"
    BY <1>1, <1>2, <2>1, FollowsFrame DEF Follow
  <2>2. CASE phase' = "off"
    <3>1. Vanish
      BY <1>1, <2>2
    <3>2. Knows(p)'
      BY <1>1, <1>2, <2>2 DEF Follow, Follows, Knows, Listens
    <3>3. Counts(p)'
      BY <1>1, <1>2, <2>2 DEF Follow, Follows, Counts, Listens, Unstarted
    <3> QED BY <1>1, <3>2, <3>3 DEF Follow, Follows
  <2> QED BY <2>1, <2>2
<1> QED BY <1>3, <1>4 DEF Follow

LEMMA TellFollow == ASSUME Good, Follow, Tell PROVE Follow'
<1> DEFINE e == Needed(~told)
<1>1. /\ told' = ~told /\ Broadcast(e)
      /\ UNCHANGED <<setup, reader, calls, answer, at, view, result, loop, job>>
  BY DEF Tell
<1>2. UNCHANGED <<late, quit, done, terminal, cancel, phase, owner, level>>
  BY <1>1 DEF loop, job, reader
<1>3. LateInv' /\ AskedInv'
  BY <1>1, <1>2, AskedFrame DEF Follow, LateInv
<1>4. e \in Messages /\ e.kind = "needed" /\ (e.value = "yes") = told' /\ PassOf(e) = 0
  BY <1>1 DEF Messages, Needed, PassOf, Good, ReaderTypes
<1> HIDE DEF e
<1>5. ASSUME NEW p \in Programs, Listens(p) PROVE Follows(p)'
  <2>1. wire'[p] = Append(wire[p], e) /\ wire[p] \in Seq(Messages) /\ view[p].passed \in Nat
        /\ level \in Nat
    BY <1>1, <1>5, ViewsFacts DEF Broadcast
  <2>2. /\ LastNeeded(wire'[p], told') /\ ~NoNeeded(wire'[p])
    BY <1>4, <2>1, NeededAppend
  <2>3. NoStatus(wire[p]) => NoStatus(wire'[p])
    BY <1>4, <2>1, NeededAppend
  <2>4. Leads(wire[p], view[p].passed, level) => Leads(wire'[p], view[p].passed, level)
    <3>1. level + PassOf(e) = level
      BY <1>4, <2>1
    <3> QED BY <1>4, <2>1, <3>1, LeadsAppend
  <2>5. Knows(p)'
    BY <2>2 DEF Knows
  <2>6. Counts(p)'
    BY <1>1, <1>2, <1>5, <2>3, <2>4 DEF Follow, Follows, Counts, Unstarted
  <2> QED BY <1>1, <2>5, <2>6 DEF Follow, Follows
<1>6. ASSUME NEW p \in Programs, ~Listens(p) PROVE Follows(p)'
  BY <1>1, <1>6, DeafFollows DEF Follow, Follows, Listens
<1> QED BY <1>3, <1>5, <1>6 DEF Follow

LEMMA ScannedFollow == ASSUME Good, Follow, NEW s \in Statuses, Scanned(s) PROVE Follow'
<1> DEFINE e == Status(s)
<1>1. /\ phase # "off" /\ phase' # "off" /\ level' = level + PassOf(e) /\ Broadcast(e)
      /\ UNCHANGED <<setup, owner, told, calls, answer, at, view, result, loop, job>>
  <2>1. level' = level + PassOf(e)
    BY ViewsFacts DEF Scanned, Status, PassOf, Programs
  <2> QED BY <2>1 DEF Scanned
<1>2. UNCHANGED <<late, quit, done, terminal, cancel>>
  BY <1>1 DEF loop, job
<1>3. LateInv' /\ AskedInv'
  BY <1>1, <1>2, AskedFrame DEF Follow, LateInv
<1>4. e \in Messages /\ e.kind # "needed"
  BY DEF Messages, Status
<1> HIDE DEF e
<1>5. ASSUME NEW p \in Programs, Listens(p) PROVE Follows(p)'
  <2>1. wire'[p] = Append(wire[p], e) /\ wire[p] \in Seq(Messages) /\ view[p].passed \in Nat
        /\ level \in Nat
    BY <1>1, <1>5, ViewsFacts DEF Broadcast
  <2>2. /\ LastNeeded(wire[p], told) => LastNeeded(wire'[p], told)
        /\ NoNeeded(wire'[p]) => NoNeeded(wire[p])
    BY <1>4, <2>1, NeededAppend
  <2>3. Leads(wire[p], view[p].passed, level) => Leads(wire'[p], view[p].passed, level')
    BY <1>1, <1>4, <2>1, LeadsAppend
  <2>4. Knows(p)'
    BY <1>1, <1>5, <2>2 DEF Follow, Follows, Knows
  <2>5. Counts(p)'
    BY <1>1, <1>2, <1>5, <2>3 DEF Follow, Follows, Counts, Unstarted
  <2> QED BY <1>1, <2>4, <2>5 DEF Follow, Follows
<1>6. ASSUME NEW p \in Programs, ~Listens(p) PROVE Follows(p)'
  BY <1>1, <1>6, DeafFollows DEF Follow, Follows, Listens
<1> QED BY <1>3, <1>5, <1>6 DEF Follow

\* Where the guide goes when it is not in its loop, or leaves it.
LEMMA GuideGoes ==
  ASSUME Good, Follow, GuideEnter \/ GuideReturns \/ GuideTimeout \/ GuideLeaves \/ CtrlC
  PROVE  /\ UNCHANGED <<setup, reader, told, view, done, quit, job>>
         /\ at'["regis"] = at["regis"] /\ calls'["regis"] = calls["regis"]
         /\ wire'["regis"] = wire["regis"]
         /\ at'["guide"] \in Ending \cup {"over"} \/ wire'["guide"] = wire["guide"]
         /\ \/ at'["guide"] \in Ending \cup {"over"}
            \/ at'["guide"] = at["guide"] /\ calls' = calls
            \/ at["guide"] = "ready" /\ at'["guide"] = "claim"
            \/ at["guide"] = "claim" /\ at'["guide"] = "start" /\ calls'["guide"] # <<>>
            \/ /\ at["guide"] = "start" /\ at'["guide"] = "run" /\ calls' = calls
               /\ calls["guide"] = <<>>
         /\ LateInv'
<1>1. \A place, m : GuideAt(place, m) =>
        /\ at'["guide"] = place /\ at'["regis"] = at["regis"]
        /\ calls'["regis"] = calls["regis"]
        /\ m = "" => calls' = calls
        /\ m \in Calls => calls'["guide"] # <<>>
  <2> SUFFICES ASSUME NEW place, NEW m, GuideAt(place, m)
               PROVE  /\ at'["guide"] = place /\ at'["regis"] = at["regis"]
                      /\ calls'["regis"] = calls["regis"]
                      /\ m = "" => calls' = calls
                      /\ m \in Calls => calls'["guide"] # <<>>
    OBVIOUS
  <2>1. at \in [Programs -> Places] /\ calls \in [Programs -> Seq(Calls)]
    BY DEF Good, ProgramTypes, BusTypes
  <2>2. at'["guide"] = place /\ at'["regis"] = at["regis"] /\ calls'["regis"] = calls["regis"]
    BY <2>1 DEF GuideAt, Programs
  <2>3. m \in Calls => calls'["guide"] # <<>>
    <3> SUFFICES ASSUME m \in Calls PROVE calls'["guide"] # <<>>
      OBVIOUS
    <3> DEFINE c == Append(calls["guide"], m)
    <3>1. calls["guide"] \in Seq(Calls)
      BY <2>1 DEF Programs
    <3>2. Len(c) = Len(calls["guide"]) + 1 /\ Len(calls["guide"]) \in Nat
      BY <3>1
    <3>3. c # <<>>
      BY <3>2
    <3>4. calls' = [calls EXCEPT !["guide"] = c]
      BY DEF GuideAt, Calls
    <3> HIDE DEF c
    <3> QED BY <2>1, <3>3, <3>4 DEF Programs
  <2> QED BY <2>2, <2>3 DEF GuideAt
<1>2. Deaf => /\ wire'["regis"] = wire["regis"]
              /\ at'["guide"] \in Ending \cup {"over"} \/ wire' = wire
  BY DEF Deaf, Good, BusTypes, Programs
<1>3. late => at["guide"] \in {"release", "over"}
  BY DEF Follow, LateInv
<1>4. CASE GuideEnter
  BY <1>1, <1>3, <1>4 DEF GuideEnter, LateInv, loop
<1>5. CASE GuideReturns \/ GuideTimeout
  <2>1. PICK ok \in BOOLEAN :
          /\ GuideAfter(ok) /\ Deaf
          /\ UNCHANGED <<setup, reader, told, view, done, quit, job>>
          /\ \/ answer # "none" /\ late' = late
             \/ ~ok
    <3>1. GuideReturns => GuideAfter(answer = "ok") /\ late' = late /\ answer # "none"
      BY DEF GuideReturns, loop
    <3> QED BY <1>5, <3>1 DEF GuideReturns, GuideTimeout, loop
  <2>2. CASE at["guide"] = "claim" /\ ok /\ GuideAt("start", "EnrollStart")
    <3>1. /\ at'["guide"] = "start" /\ at'["regis"] = at["regis"]
          /\ calls'["regis"] = calls["regis"] /\ calls'["guide"] # <<>>
      BY <1>1, <2>2 DEF Calls
    <3>2. wire' = wire
      BY <1>2, <2>1, <3>1 DEF Ending
    <3>3. ~late'
      BY <1>3, <2>1, <2>2
    <3> QED BY <2>1, <2>2, <3>1, <3>2, <3>3 DEF LateInv
  <2>3. CASE at["guide"] = "start" /\ ok /\ GuideAt("run", "")
    <3>1. calls["guide"] = <<>>
      <4>1. Listens("guide")
        BY <2>3 DEF Listens, Ending
      <4>2. answer # "none" /\ "guide" \in Programs
        BY <2>1, <2>3 DEF Programs
      <4> QED BY <4>1, <4>2, CallsFacts DEF Follow
    <3>2. /\ at'["guide"] = "run" /\ at'["regis"] = at["regis"] /\ calls' = calls
      BY <1>1, <2>3
    <3>3. wire' = wire
      BY <1>2, <2>1, <3>2 DEF Ending
    <3>4. ~late'
      BY <1>3, <2>1, <2>3
    <3> QED BY <2>1, <2>3, <3>1, <3>2, <3>3, <3>4 DEF LateInv
  <2>4. CASE at["guide"] \in Ending \cup Pending /\ \E place \in {"release", "over"} : \E m : GuideAt(place, m)
    BY <1>1, <1>2, <1>3, <2>1, <2>4 DEF LateInv, Ending
  <2> QED BY <2>1, <2>2, <2>3, <2>4 DEF GuideAfter, Ending
<1>6. CASE GuideLeaves
  BY <1>1, <1>2, <1>3, <1>6 DEF GuideLeaves, Guide, LateInv, loop, Ending
<1>7. CASE CtrlC
  <2>1. CASE at["guide"] = "ready" /\ GuideAt("over", "") /\ Deaf
             /\ UNCHANGED <<setup, reader, told, view, loop, job>>
    BY <1>1, <1>2, <2>1 DEF LateInv, loop
  <2>2. CASE UNCHANGED <<setup, reader, told, bus, at, view, result, done, completed, quit,
                         interrupted, due, late, job>>
    BY <1>3, <2>2 DEF LateInv, bus
  <2>3. CASE GuideAt("over", "") /\ UNCHANGED <<setup, reader, told, wire, view, loop, job>>
    BY <1>1, <2>3 DEF LateInv, loop
  <2> QED BY <1>7, <2>1, <2>2, <2>3 DEF CtrlC
<1> QED BY <1>4, <1>5, <1>6, <1>7

LEMMA GuideGoesFollow ==
  ASSUME Good, Follow, GuideEnter \/ GuideReturns \/ GuideTimeout \/ GuideLeaves \/ CtrlC
  PROVE  Follow'
<1>1. /\ UNCHANGED <<setup, reader, told, view, done, quit, job>>
      /\ at'["regis"] = at["regis"] /\ calls'["regis"] = calls["regis"]
      /\ wire'["regis"] = wire["regis"]
      /\ at'["guide"] \in Ending \cup {"over"} \/ wire'["guide"] = wire["guide"]
      /\ \/ at'["guide"] \in Ending \cup {"over"}
         \/ at'["guide"] = at["guide"] /\ calls' = calls
         \/ at["guide"] = "ready" /\ at'["guide"] = "claim"
         \/ at["guide"] = "claim" /\ at'["guide"] = "start" /\ calls'["guide"] # <<>>
         \/ /\ at["guide"] = "start" /\ at'["guide"] = "run" /\ calls' = calls
            /\ calls["guide"] = <<>>
      /\ LateInv'
  BY GuideGoes
<1>2. UNCHANGED <<owner, phase, level, cancel, terminal>>
  BY <1>1 DEF reader, job
<1>3. AskedInv'
  BY <1>1, <1>2, AskedFrame DEF Follow
<1>4. Follows("regis")'
  BY <1>1, <1>2, FollowsFrame DEF Follow, Programs
<1>5. Follows("guide")'
  <2>0. Follows("guide") /\ Begun(view'["guide"])
    BY <1>1 DEF Follow, Follows, Programs
  <2>1. CASE at'["guide"] \in Ending \cup {"over"}
    BY <2>0, <2>1, DeafFollows DEF Listens, Programs
  <2>2. CASE at'["guide"] = at["guide"] /\ calls' = calls /\ wire'["guide"] = wire["guide"]
    BY <1>1, <1>2, <2>0, <2>2, FollowsFrame DEF Programs
  <2>3. CASE /\ wire'["guide"] = wire["guide"]
             /\ \/ at["guide"] = "ready" /\ at'["guide"] = "claim"
                \/ at["guide"] = "claim" /\ at'["guide"] = "start" /\ calls'["guide"] # <<>>
                \/ /\ at["guide"] = "start" /\ at'["guide"] = "run" /\ calls' = calls
                   /\ calls["guide"] = <<>>
    <3>1. Listens("guide") /\ at'["guide"] # "ready" /\ Unstarted("guide")' = Unstarted("guide")
      BY <2>3 DEF Listens, Unstarted, Ending
    <3>2. Knows("guide")'
      BY <1>1, <1>2, <2>0, <2>3, <3>1 DEF Follows, Knows
    <3>3. Counts("guide")'
      BY <1>1, <1>2, <2>0, <2>3, <3>1 DEF Follows, Counts
    <3> QED BY <2>0, <3>1, <3>2, <3>3 DEF Follows
  <2> QED BY <1>1, <2>1, <2>2, <2>3
<1> QED BY <1>1, <1>3, <1>4, <1>5 DEF Follow, Programs

\* A program that handles the message at k of those the bus has brought it, and
\* learns from it what there is to learn.
LEMMA HandlesFollows ==
  ASSUME Good, Follow, NEW p \in Programs, NEW k \in DOMAIN wire[p], NEW w,
         k = 1 \/ (k = 2 /\ wire[p][1].kind = "reply"),
         wire' = [wire EXCEPT ![p] = Without(@, k)], view'[p] = w,
         UNCHANGED <<setup, reader, told, cancel>>, Begun(w),
         Listens(p)' => Listens(p) /\ Unstarted(p)' = Unstarted(p),
         at[p] = "ready" \/ at'[p] = "ready" => w = Fresh,
         wire[p][k].kind # "needed" => w.needed = view[p].needed,
         wire[p][k].kind = "needed" /\ at[p] # "ready" =>
           w.needed = (wire[p][k].value = "yes"),
         Listens(p)' /\ (p = "regis" => ~cancel) /\ ~(at[p] = "ready" /\ wire[p][k].kind = "status") =>
           w.passed = view[p].passed + PassOf(wire[p][k])
  PROVE  Follows(p)'
<1> DEFINE s == wire[p]
           e == s[k]
<1>1. /\ s \in Seq(Messages) /\ e \in Messages /\ k \in {1, 2}
      /\ view[p] \in Views /\ view[p].passed \in Nat
  BY ViewsFacts
<1>2. wire'[p] = Without(s, k)
  BY DEF Good, BusTypes
<1>3. /\ LastNeeded(s, told) => LastNeeded(Without(s, k), told)
      /\ NoNeeded(Without(s, k)) =>
           IF e.kind = "needed" THEN LastNeeded(s, told) => (e.value = "yes") = told
           ELSE NoNeeded(s)
      /\ NoStatus(s) => NoStatus(Without(s, k))
  <2>1. k \in DOMAIN s /\ (k = 2 => s[1].kind = "reply")
    OBVIOUS
  <2> HIDE DEF s
  <2> QED BY <1>1, <2>1, NeededWithout DEF e
<1>4. UNCHANGED <<owner, phase, level>>
  BY DEF reader
<1> DEFINE u == Without(s, k)
<1> HIDE DEF u, e, s
<1>5. Knows(p)'
  <2> SUFFICES ASSUME Listens(p)', Listens(p)
               PROVE  /\ LastNeeded(u, told)
                      /\ NoNeeded(u) =>
                           /\ w.needed => told
                           /\ owner = p /\ phase # "off" => w.needed = told
    BY <1>2, <1>4 DEF Knows, u
  <2>1. LastNeeded(s, told)
    BY DEF Follow, Follows, Knows, s
  <2>2. CASE e.kind # "needed"
    <3>1. NoNeeded(u) => NoNeeded(s)
      BY <1>3, <2>2 DEF u
    <3>2. w.needed = view[p].needed
      BY <2>2 DEF e, s
    <3> QED BY <1>3, <2>1, <3>1, <3>2 DEF Follow, Follows, Knows, s, u
  <2>3. CASE e.kind = "needed" /\ at[p] # "ready"
    <3>1. w.needed = (e.value = "yes")
      BY <2>3 DEF e, s
    <3> QED BY <1>3, <2>1, <2>3, <3>1 DEF u
  <2>4. CASE e.kind = "needed" /\ at[p] = "ready"
    <3>1. ~w.needed /\ owner # p
      BY <2>4, CallsFacts DEF Fresh, Follow
    <3> QED BY <1>3, <2>1, <3>1 DEF u
  <2> QED BY <2>2, <2>3, <2>4
<1>6. Counts(p)'
  <2> SUFFICES ASSUME setup.here = {p}, Listens(p)', Listens(p), p = "regis" => ~cancel
               PROVE  /\ Unstarted(p) => phase = "off" /\ w.passed = 0 /\ NoStatus(u)
                      /\ ~Unstarted(p) /\ phase # "off" => Leads(u, w.passed, level)
    BY <1>2, <1>4 DEF Counts, u
  <2>1. CASE Unstarted(p)
    <3>1. phase = "off" /\ view[p].passed = 0 /\ NoStatus(s)
      BY <2>1 DEF Follow, Follows, Counts, s
    <3>2. e.kind # "status"
      BY <3>1 DEF NoStatus, e, s
    <3>3. PassOf(e) = 0
      BY <1>1, <3>2, MessageFacts DEF PassOf
    <3>4. w.passed = 0
      BY <3>1, <3>2, <3>3 DEF e, s
    <3> QED BY <1>3, <2>1, <3>1, <3>4 DEF u
  <2>2. CASE ~Unstarted(p)
    <3>1. w.passed = view[p].passed + PassOf(e)
      BY <2>2 DEF Unstarted, e, s
    <3>2. phase # "off" => Leads(s, view[p].passed, level)
      BY <2>2 DEF Follow, Follows, Counts, s
    <3>3. k = 2 => s[1].value # "passed"
      <4>1. k = 2 => s[1] \in Messages /\ s[1].kind = "reply"
        <5>1. k = 2 => 1 \in DOMAIN s
          BY <1>1 DEF s
        <5> QED BY <1>1, <5>1 DEF s
      <4> QED BY <4>1, MessageFacts
    <3>4. Leads(s, view[p].passed, level) => Leads(u, view[p].passed + PassOf(e), level)
      BY <1>1, <3>3, LeadsWithout DEF u, e, s
    <3> QED BY <2>2, <3>1, <3>2, <3>4
  <2> QED BY <2>1, <2>2
<1> QED BY <1>5, <1>6 DEF Follows

LEMMA GuideCancelFollow == ASSUME Good, Follow, GuideCancel PROVE Follow'
<1>1. /\ view' = [view EXCEPT !["guide"] = Quiet(view["guide"])]
      /\ quit' = TRUE /\ at["guide"] = "run"
      /\ UNCHANGED <<setup, reader, told, bus, at, late, job>>
  BY DEF GuideCancel, GuideView, Guide
<1>2. UNCHANGED <<owner, phase, level, cancel, terminal, calls, wire>>
  BY <1>1 DEF reader, job, bus
<1>3. /\ view'["regis"] = view["regis"] /\ view'["guide"] = Quiet(view["guide"])
      /\ view["guide"] \in Views
  BY <1>1 DEF Good, ViewTypes, Programs
<1>4. LateInv' /\ AskedInv'
  BY <1>1, <1>2, <1>3 DEF Follow, LateInv, AskedInv, Prompts, Open
<1>5. Follows("regis")'
  BY <1>1, <1>2, <1>3, FollowsFrame DEF Follow, Programs
<1>6. Follows("guide")'
  <2>1. /\ Quiet(view["guide"]).passed = view["guide"].passed
        /\ Quiet(view["guide"]).needed = view["guide"].needed /\ Begun(Quiet(view["guide"]))
    BY <1>3, QuietKeeps DEF Follow, Follows, Programs
  <2> QED BY <1>1, <1>2, <1>3, <2>1, QuietFollows DEF Follow, Programs
<1> QED BY <1>4, <1>5, <1>6 DEF Follow, Programs

LEMMA GuideHandleFollow == ASSUME Good, Follow, GuideHandle PROVE Follow'
<1> DEFINE e == Head(wire["guide"])
           v == view["guide"]
<1>1. /\ at["guide"] = "run" /\ wire' = [wire EXCEPT !["guide"] = Tail(@)]
      /\ wire["guide"] # <<>>
      /\ UNCHANGED <<setup, reader, told, calls, answer, at, late, job>>
  BY DEF GuideHandle, Guide
<1>2. UNCHANGED <<owner, phase, level, cancel, terminal>>
  BY <1>1 DEF reader, job
<1>3. /\ wire["guide"] \in Seq(Messages) /\ v \in Views /\ Begun(v)
      /\ 1 \in DOMAIN wire["guide"] /\ e = wire["guide"][1] /\ e \in Messages
  <2>1. wire["guide"] \in Seq(Messages) /\ v \in Views /\ Begun(v)
    BY ViewsFacts DEF Programs, Follow, Follows
  <2> QED BY <1>1, <2>1, TailFacts
<1> DEFINE w == view'["guide"]
<1> HIDE DEF e, v
<1>4. /\ view'["regis"] = view["regis"] /\ Begun(w)
      /\ e.kind # "needed" => w.needed = v.needed
      /\ e.kind = "needed" => w.needed = (e.value = "yes")
      /\ w.passed = v.passed + PassOf(e)
      /\ ~quit' => ~quit /\ ~done' /\ (Asked(v) => Asked(w))
  <2>1. v.passed \in Nat
    BY <1>3 DEF Views
  <2>2. \A u : GuideView(u) => view'["regis"] = view["regis"] /\ w = u
    BY DEF GuideView, Good, ViewTypes, Programs
  <2> HIDE DEF w
  <2>3. CASE /\ e.kind = "needed" /\ GuideView(OnNeeded(v, e.value, ~done))
             /\ UNCHANGED <<done, completed, quit>>
    <3>1. PICK b \in BOOLEAN : (b <=> ~done) /\ w = OnNeeded(v, e.value, b)
                               /\ view'["regis"] = view["regis"]
      BY <2>2, <2>3
    <3>2. /\ w.passed = v.passed /\ w.needed = (e.value = "yes") /\ Begun(w)
          /\ b /\ Stands(v) => Asked(w)
      BY <1>3, <3>1, NeededKeeps
    <3>3. PassOf(e) = 0
      BY <1>3, <2>3, MessageFacts DEF PassOf
    <3>4. ~quit => ~done
      BY DEF Follow, AskedInv
    <3>5. Asked(v) => Stands(v)
      BY DEF Asked
    <3>6. ~quit' => ~quit /\ ~done' /\ (Asked(v) => Asked(w))
      BY <2>3, <3>1, <3>2, <3>4, <3>5
    <3> QED BY <2>1, <2>3, <3>1, <3>2, <3>3, <3>6
  <2>4. CASE /\ e.value \in Progress /\ GuideView(OnProgress(v, e.value, TRUE))
             /\ done' = FALSE /\ UNCHANGED <<completed, quit>>
    <3>1. PICK b \in BOOLEAN : b /\ w = OnProgress(v, e.value, b)
                               /\ view'["regis"] = view["regis"]
      BY <2>2, <2>4
    <3>2. /\ w.passed = v.passed + (IF e.value = "passed" THEN 1 ELSE 0)
          /\ w.needed = v.needed /\ Begun(w) /\ Asked(w)
      BY <1>3, <3>1, ProgressKeeps
    <3>3. e.kind # "needed"
      BY <1>3, <2>4, MessageFacts DEF Progress
    <3> QED BY <2>4, <3>1, <3>2, <3>3 DEF PassOf
  <2>5. CASE /\ e.value \in {"completed", "failed"} /\ GuideView(Quiet(v)) /\ quit' = TRUE
    <3>1. w = Quiet(v) /\ view'["regis"] = view["regis"]
      BY <2>2, <2>5
    <3>2. w.passed = v.passed /\ w.needed = v.needed /\ Begun(w)
      BY <1>3, <3>1, QuietKeeps
    <3>3. e.kind # "needed" /\ PassOf(e) = 0
      BY <1>3, <2>5, MessageFacts DEF PassOf
    <3> QED BY <2>1, <2>5, <3>1, <3>2, <3>3
  <2> QED BY <2>3, <2>4, <2>5 DEF GuideHandle, e, v
<1>6. LateInv' /\ AskedInv'
  BY <1>1, <1>2, <1>4 DEF Follow, LateInv, AskedInv, Prompts, Open, v
<1>5. Follows("regis")'
  <2>1. wire'["regis"] = wire["regis"]
    BY <1>1 DEF Good, BusTypes, Programs
  <2> QED BY <1>1, <1>2, <1>4, <2>1, FollowsFrame DEF Follow, Programs
<1>7. Follows("guide")'
  <2>1. wire' = [wire EXCEPT !["guide"] = Without(@, 1)]
    BY <1>1 DEF Without
  <2>2. Listens("guide")' = Listens("guide") /\ Unstarted("guide")' = Unstarted("guide")
    BY <1>1 DEF Listens, Unstarted
  <2> QED BY <1>1, <1>2, <1>3, <1>4, <2>1, <2>2, HandlesFollows DEF Programs, e, v
<1> QED BY <1>5, <1>6, <1>7 DEF Follow, Programs

\* What the job does is nothing to the guide.
LEMMA JobAloneFollow ==
  ASSUME Good, Follow, Still, wire'["guide"] = wire["guide"], view'["guide"] = view["guide"],
         at'["guide"] = at["guide"], calls'["guide"] = calls["guide"],
         cancel' = cancel \/ cancel' = TRUE
  PROVE  Follows("guide")' /\ LateInv' /\ (~quit' => ~done' /\ Asked(view'["guide"]))
<1>1. UNCHANGED <<setup, told, owner, phase, level, late, done, quit>>
  BY DEF Still, reader, loop
<1>2. Follows("guide") /\ "guide" \in Programs
  BY DEF Follow, Programs
<1>3. Begun(view'["guide"])
  BY <1>2 DEF Follows
<1>4. Follows("guide")'
  BY <1>1, <1>2, <1>3, QuietFollows
<1> QED BY <1>1, <1>4 DEF Follow, LateInv, AskedInv

LEMMA JobAtFacts ==
  ASSUME Good, NEW place, NEW m, JobAt(place, m)
  PROVE  /\ at'["regis"] = place /\ at'["guide"] = at["guide"]
         /\ calls'["guide"] = calls["guide"]
         /\ m \in Calls => calls'["regis"] # <<>>
<1>1. at \in [Programs -> Places] /\ calls \in [Programs -> Seq(Calls)]
  BY DEF Good, ProgramTypes, BusTypes
<1>2. /\ at'["regis"] = place /\ at'["guide"] = at["guide"]
      /\ calls'["guide"] = calls["guide"]
  BY <1>1 DEF JobAt, Programs
<1>3. ASSUME m \in Calls PROVE calls'["regis"] # <<>>
  <2> DEFINE c == Append(calls["regis"], m)
  <2>1. calls["regis"] \in Seq(Calls)
    BY <1>1 DEF Programs
  <2>2. Len(c) = Len(calls["regis"]) + 1 /\ Len(calls["regis"]) \in Nat
    BY <1>3, <2>1
  <2>3. c # <<>>
    BY <2>2
  <2>4. calls' = [calls EXCEPT !["regis"] = c]
    BY <1>3 DEF JobAt, Calls
  <2> HIDE DEF c
  <2> QED BY <1>1, <2>3, <2>4 DEF Programs
<1> QED BY <1>2, <1>3

LEMMA JobStartFollow == ASSUME Good, Follow, JobStart PROVE Follow'
<1>1. /\ at["regis"] = "ready" /\ JobAt("claim", "Claim") /\ Still
      /\ UNCHANGED <<wire, view, result, job>>
  BY DEF JobStart, Still
<1>2. /\ at'["regis"] = "claim" /\ at'["guide"] = at["guide"]
      /\ calls'["guide"] = calls["guide"]
  BY <1>1, JobAtFacts
<1>3. UNCHANGED <<setup, told, owner, phase, level, cancel, terminal>>
  BY <1>1 DEF Still, reader, job
<1>4. Follows("guide")' /\ LateInv' /\ (~quit' => ~done' /\ Asked(view'["guide"]))
  BY <1>1, <1>2, <1>3, JobAloneFollow
<1>5. Follows("regis")' /\ view["regis"] = Fresh
  <2>1. Listens("regis") /\ Unstarted("regis") /\ Unstarted("regis")'
    BY <1>1, <1>2 DEF Listens, Unstarted, Ending
  <2> QED BY <1>1, <1>2, <1>3, <2>1 DEF Follow, Follows, Knows, Counts, Programs
<1>6. AskedInv'
  BY <1>1, <1>2, <1>4, <1>5 DEF AskedInv, Asked, Stands, Fresh, Token
<1> QED BY <1>4, <1>5, <1>6 DEF Follow, Programs

LEMMA JobCancelFollow == ASSUME Good, Follow, JobCancel PROVE Follow'
<1> DEFINE v == view["regis"]
<1>1. /\ cancel' = TRUE /\ view' = [view EXCEPT !["regis"] = Quiet(v)] /\ Still /\ wire' = wire
      /\ \/ UNCHANGED <<calls, at>> /\ at["regis"] \in Pending
         \/ JobAt("stop", "EnrollStop")
  BY DEF JobCancel, Open, JobView, Still, Finish
<1>2. view'["guide"] = view["guide"] /\ view'["regis"] = Quiet(v) /\ v \in Views /\ Begun(v)
  BY <1>1 DEF Good, ViewTypes, Programs, Follow, Follows
<1>3. /\ at'["guide"] = at["guide"] /\ calls'["guide"] = calls["guide"]
      /\ at'["regis"] = "stop" \/ (UNCHANGED <<calls, at>> /\ at["regis"] \in Pending)
  BY <1>1, JobAtFacts
<1>4. Follows("guide")' /\ LateInv' /\ (~quit' => ~done' /\ Asked(view'["guide"]))
  BY <1>1, <1>2, <1>3, JobAloneFollow
<1>5. Quiet(v).passed = v.passed /\ Quiet(v).needed = v.needed /\ Begun(Quiet(v))
  BY <1>2, QuietKeeps
<1>6. Follows("regis")'
  <2>1. CASE at'["regis"] = "stop"
    BY <1>2, <1>5, <2>1, DeafFollows DEF Listens, Ending, Programs
  <2>2. CASE UNCHANGED <<calls, at>> /\ at["regis"] \in Pending
    <3>1. UNCHANGED <<setup, told, owner, phase, level>>
      BY <1>1 DEF Still, reader
    <3> QED BY <1>1, <1>2, <1>5, <2>2, <3>1, QuietFollows DEF Follow, Programs, Pending
  <2> QED BY <1>3, <2>1, <2>2
<1>7. AskedInv'
  BY <1>1, <1>4 DEF AskedInv, Prompts, Open
<1> QED BY <1>4, <1>6, <1>7 DEF Follow, Programs

\* What the job makes of the reply, the status or the change it has taken.
LEMMA JobReplyFollow ==
  ASSUME Good, Follow, NEW k, Takes(k), k = 1 \/ (k = 2 /\ wire["regis"][1].kind = "reply"),
         wire["regis"][k].kind = "reply",
         JobReply(wire["regis"][k].value = "ok"), Still, UNCHANGED job
  PROVE  Follow'
<1> DEFINE e == wire["regis"][k]
           v == view["regis"]
           w == view'["regis"]
<1>1. /\ wire' = [wire EXCEPT !["regis"] = Without(@, k)] /\ wire'["guide"] = wire["guide"]
      /\ k \in DOMAIN wire["regis"] /\ e \in Messages /\ k \in {1, 2}
  BY TakesFacts DEF Takes
<1>2. calls["regis"] = <<>> \/ ~Listens("regis")
  <2>1. ~NoReply(wire["regis"])
    BY <1>1 DEF NoReply
  <2> QED BY <2>1, CallsFacts DEF Follow, Programs
<1>3. v \in Views /\ Begun(v) /\ v.passed \in Nat
  BY ViewsFacts DEF Follow, Follows, Programs
<1>4. UNCHANGED <<setup, reader, told, cancel, terminal>>
  BY DEF Still, job
<1>5. e.kind = "reply" /\ e.kind # "needed" /\ PassOf(e) = 0
  BY <1>1, MessageFacts DEF PassOf
<1>6. /\ at'["guide"] = at["guide"] /\ calls'["guide"] = calls["guide"]
      /\ view'["guide"] = view["guide"] /\ Begun(w)
      /\ \/ at'["regis"] \in Ending \cup {"over"}
         \/ /\ at["regis"] = "claim" /\ at'["regis"] = "start" /\ calls'["regis"] # <<>>
            /\ ~cancel /\ w = v
         \/ /\ at["regis"] = "start" /\ at'["regis"] = "run" /\ calls' = calls /\ Prompts
            /\ w.passed = v.passed /\ w.needed = v.needed /\ (Asked(v) => Asked(w))
  <2> DEFINE ok == e.value = "ok"
  <2> HIDE DEF ok
  <2>1. CASE at["regis"] = "claim" /\ ~cancel /\ JobAt("start", "EnrollStart") /\ UNCHANGED view
    BY <1>3, <2>1, JobAtFacts DEF Calls
  <2>2. CASE /\ at["regis"] = "start" /\ Prompts /\ JobAt("run", "")
             /\ JobView(Prompt(v, TRUE))
    <3>1. PICK b \in BOOLEAN : b /\ JobView(Prompt(v, b))
      BY <2>2
    <3>2. w = Prompt(v, b) /\ view'["guide"] = view["guide"]
      BY <3>1 DEF JobView, Good, ViewTypes, Programs
    <3>3. /\ w.passed = v.passed /\ w.needed = v.needed /\ Begun(w)
          /\ Asked(v) => Asked(w)
      BY <1>3, <3>1, <3>2, PromptKeeps DEF Asked
    <3>4. calls' = calls
      BY <2>2 DEF JobAt
    <3> QED BY <2>2, <3>2, <3>3, <3>4, JobAtFacts
  <2>3. CASE UNCHANGED view /\ \E place \in Ending \cup {"over"} : \E m : JobAt(place, m)
    BY <1>3, <2>3, JobAtFacts
  <2> QED BY <2>1, <2>2, <2>3 DEF JobReply, Finish, Ending
<1>7. Follows("guide")' /\ LateInv' /\ (~quit' => ~done' /\ Asked(view'["guide"]))
  BY <1>1, <1>4, <1>6, JobAloneFollow
<1>8. Follows("regis")'
  <2>1. CASE at'["regis"] \in Ending \cup {"over"}
    BY <1>6, <2>1, DeafFollows DEF Listens, Programs
  <2>2. CASE at'["regis"] \notin Ending \cup {"over"}
    <3>1. /\ Listens("regis") /\ Unstarted("regis")' = Unstarted("regis")
          /\ at["regis"] # "ready" /\ at'["regis"] # "ready"
      <4>1. Listens("regis") /\ at["regis"] # "ready" /\ at'["regis"] # "ready"
        BY <1>6, <2>2 DEF Listens, Ending
      <4> QED BY <1>2, <1>6, <2>2, <4>1 DEF Unstarted
    <3>2. w.needed = v.needed /\ w.passed = v.passed + PassOf(e)
      BY <1>3, <1>5, <1>6, <2>2
    <3> HIDE DEF w, v, e
    <3>3. Begun(w)
      BY <1>6
    <3> QED BY <1>1, <1>4, <1>5, <3>1, <3>2, <3>3, HandlesFollows DEF Programs, w, v, e
  <2> QED BY <2>1, <2>2
<1>9. AskedInv'
  <2>1. Prompts' => Asked(w)
    <3>1. CASE at'["regis"] \in Ending \cup {"over"}
      BY <3>1 DEF Prompts, Open, Pending, Ending
    <3>2. CASE at["regis"] = "claim" /\ at'["regis"] = "start" /\ w = v
      BY <1>4, <3>2 DEF Follow, AskedInv, Prompts, Open, Pending
    <3>3. CASE Prompts /\ (Asked(v) => Asked(w))
      BY <3>3 DEF Follow, AskedInv
    <3> QED BY <1>6, <3>1, <3>2, <3>3
  <2>2. at'["regis"] = "run" => terminal' = "none"
    BY <1>4, <1>6 DEF Prompts, Ending
  <2> QED BY <1>7, <2>1, <2>2 DEF AskedInv
<1> QED BY <1>7, <1>8, <1>9 DEF Follow, Programs

LEMMA JobSignalFollow ==
  ASSUME Good, Follow, NEW k, Takes(k), k = 1 \/ (k = 2 /\ wire["regis"][1].kind = "reply"),
         wire["regis"][k].kind = "status",
         JobSignal(wire["regis"][k].value), Still, cancel' = cancel
  PROVE  Follow'
<1> DEFINE e == wire["regis"][k]
           v == view["regis"]
           w == view'["regis"]
<1>1. /\ wire' = [wire EXCEPT !["regis"] = Without(@, k)] /\ wire'["guide"] = wire["guide"]
      /\ k \in DOMAIN wire["regis"] /\ e \in Messages /\ k \in {1, 2}
  BY TakesFacts DEF Takes
<1>2. v \in Views /\ Begun(v) /\ v.passed \in Nat
  BY ViewsFacts DEF Follow, Follows, Programs
<1>3. UNCHANGED <<setup, reader, told, cancel>>
  BY DEF Still
<1>4. e.kind = "status" /\ e.kind # "needed" /\ e.value \in Statuses
  BY <1>1, MessageFacts
<1>5. /\ at'["guide"] = at["guide"] /\ calls'["guide"] = calls["guide"]
      /\ view'["guide"] = view["guide"] /\ Begun(w) /\ w.needed = v.needed
      /\ \/ at'["regis"] = "stop" /\ w = v
         \/ /\ UNCHANGED <<at, calls>>
            /\ \/ ~Open /\ w = v /\ terminal' = terminal
               \/ Open /\ e.value \notin Progress /\ w = v /\ terminal' # "none" /\ at["regis"] \in Pending
               \/ /\ Open /\ w.passed = v.passed + PassOf(e) /\ terminal' = terminal
                  /\ Prompts => Asked(w)
  <2> HIDE DEF e
  <2>1. CASE UNCHANGED <<calls, at, view, terminal>> /\ ~Open
    BY <1>2, <2>1
  <2>2. CASE /\ Open /\ e.value \in Progress /\ JobView(OnProgress(v, e.value, Prompts))
             /\ UNCHANGED <<calls, at, terminal>>
    <3>1. PICK b \in BOOLEAN : (b <=> Prompts) /\ JobView(OnProgress(v, e.value, b))
      <4>1. Prompts \in BOOLEAN
        BY DEF Prompts, Open
      <4> QED BY <2>2, <4>1
    <3>2. w = OnProgress(v, e.value, b) /\ view'["guide"] = view["guide"]
      BY <3>1 DEF JobView, Good, ViewTypes, Programs
    <3>3. /\ w.passed = v.passed + (IF e.value = "passed" THEN 1 ELSE 0)
          /\ w.needed = v.needed /\ Begun(w) /\ (b => Asked(w))
      BY <1>2, <3>2, ProgressKeeps
    <3> QED BY <2>2, <3>1, <3>2, <3>3 DEF PassOf
  <2>3. CASE /\ Open /\ e.value \notin Progress /\ at["regis"] \in Pending
             /\ terminal' # "none" /\ UNCHANGED <<calls, at, view>>
    BY <1>2, <2>3
  <2>4. CASE JobAt("stop", "EnrollStop") /\ UNCHANGED view
    BY <1>2, <2>4, JobAtFacts
  <2> QED BY <2>1, <2>2, <2>3, <2>4 DEF JobSignal, Finish, e
<1>6. Follows("guide")' /\ LateInv' /\ (~quit' => ~done' /\ Asked(view'["guide"]))
  BY <1>1, <1>3, <1>5, JobAloneFollow
<1>7. Follows("regis")'
  <2>1. CASE at'["regis"] = "stop"
    BY <1>5, <2>1, DeafFollows DEF Listens, Ending, Programs
  <2>2. CASE at'["regis"] # "stop"
    <3>1. UNCHANGED <<at, calls>>
      BY <1>5, <2>2
    <3>2. Listens("regis")' = Listens("regis") /\ Unstarted("regis")' = Unstarted("regis")
      BY <3>1 DEF Listens, Unstarted
    <3>3. at["regis"] = "ready" => w = Fresh
      BY <1>5, <3>1 DEF Follow, Follows, Programs, Open, Pending
    <3>4. Listens("regis")' /\ ~cancel /\ at["regis"] # "ready" =>
            w.passed = v.passed + PassOf(e)
      <4>1. Listens("regis")' /\ ~cancel /\ at["regis"] # "ready" => Open
        BY <3>1 DEF Listens, Open, Pending, Ending, Good, ProgramTypes, Places, Programs
      <4>2. e.value \notin Progress => PassOf(e) = 0
        BY DEF Progress, PassOf
      <4>3. v.passed + 0 = v.passed
        BY <1>2
      <4> QED BY <1>5, <2>2, <4>1, <4>2, <4>3
    <3> HIDE DEF w, v, e
    <3>5. Begun(w) /\ w.needed = v.needed
      BY <1>5
    <3> QED BY <1>1, <1>3, <1>4, <3>1, <3>2, <3>3, <3>4, <3>5, HandlesFollows DEF Programs, w, v, e
  <2> QED BY <2>1, <2>2
<1>8. AskedInv'
  <2>1. CASE at'["regis"] = "stop"
    BY <1>6, <2>1 DEF AskedInv, Prompts, Open, Pending
  <2>2. CASE at' = at
    <3>1. Prompts' => Prompts /\ terminal' = terminal
      BY <1>3, <1>5, <2>2 DEF Prompts, Open, Pending
    <3>2. Prompts' => Asked(w)
      BY <1>5, <2>2, <3>1 DEF Follow, AskedInv, Prompts, Pending
    <3>3. at["regis"] = "run" /\ ~cancel => terminal' = "none"
      BY <1>5, <2>2 DEF Follow, AskedInv, Pending
    <3> QED BY <1>3, <1>6, <2>2, <3>2, <3>3 DEF AskedInv
  <2> QED BY <1>5, <2>1, <2>2
<1> QED BY <1>6, <1>7, <1>8 DEF Follow, Programs

LEMMA JobNeededFollow ==
  ASSUME Good, Follow, NEW k, Takes(k), k = 1 \/ (k = 2 /\ wire["regis"][1].kind = "reply"),
         wire["regis"][k].kind = "needed",
         JobView(IF at["regis"] = "ready" THEN view["regis"]
                 ELSE OnNeeded(view["regis"], wire["regis"][k].value, Prompts)),
         Still, UNCHANGED <<calls, at, job>>
  PROVE  Follow'
<1> DEFINE e == wire["regis"][k]
           v == view["regis"]
           w == view'["regis"]
<1>1. /\ wire' = [wire EXCEPT !["regis"] = Without(@, k)] /\ wire'["guide"] = wire["guide"]
      /\ k \in DOMAIN wire["regis"] /\ e \in Messages /\ k \in {1, 2}
  BY TakesFacts DEF Takes
<1>2. v \in Views /\ Begun(v) /\ v.passed \in Nat /\ (at["regis"] = "ready" => v = Fresh)
  BY ViewsFacts DEF Follow, Follows, Programs
<1>3. UNCHANGED <<setup, reader, told, cancel, terminal>>
  BY DEF Still, job
<1>4. PassOf(e) = 0
  BY <1>1, MessageFacts DEF PassOf
<1>5. /\ view'["guide"] = view["guide"] /\ Begun(w) /\ w.passed = v.passed
      /\ at["regis"] = "ready" => w = Fresh
      /\ at["regis"] # "ready" => w.needed = (e.value = "yes")
      /\ at["regis"] # "ready" /\ Prompts /\ Asked(v) => Asked(w)
  <2> HIDE DEF e
  <2>1. CASE at["regis"] = "ready"
    <3>1. JobView(v)
      BY <2>1
    <3> QED BY <1>2, <2>1, <3>1 DEF JobView, Good, ViewTypes, Programs
  <2>2. CASE at["regis"] # "ready"
    <3>1. PICK b \in BOOLEAN : (b <=> Prompts) /\ JobView(OnNeeded(v, e.value, b))
      <4>1. Prompts \in BOOLEAN
        BY DEF Prompts, Open
      <4>2. JobView(OnNeeded(v, e.value, Prompts))
        BY <2>2 DEF e
      <4> QED BY <4>1, <4>2
    <3>2. w = OnNeeded(v, e.value, b) /\ view'["guide"] = view["guide"]
      BY <3>1 DEF JobView, Good, ViewTypes, Programs
    <3>3. /\ w.passed = v.passed /\ w.needed = (e.value = "yes") /\ Begun(w)
          /\ b /\ Stands(v) => Asked(w)
      BY <1>2, <3>2, NeededKeeps
    <3>4. Asked(v) => Stands(v)
      BY DEF Asked
    <3> QED BY <2>2, <3>1, <3>2, <3>3, <3>4
  <2> QED BY <2>1, <2>2
<1>6. Follows("guide")' /\ LateInv' /\ (~quit' => ~done' /\ Asked(view'["guide"]))
  BY <1>1, <1>3, <1>5, JobAloneFollow
<1>7. Follows("regis")'
  <2>1. Listens("regis")' = Listens("regis") /\ Unstarted("regis")' = Unstarted("regis")
    BY DEF Listens, Unstarted
  <2>2. w.passed = v.passed + PassOf(e)
    BY <1>2, <1>4, <1>5
  <2> HIDE DEF w, v, e
  <2>3. Begun(w) /\ (at["regis"] = "ready" => w = Fresh)
        /\ (at["regis"] # "ready" => w.needed = (e.value = "yes"))
    BY <1>5
  <2> QED BY <1>1, <1>3, <2>1, <2>2, <2>3, HandlesFollows DEF Programs, w, v, e
<1>8. AskedInv'
  <2>1. Prompts' => Prompts /\ at["regis"] # "ready"
    BY <1>3 DEF Prompts, Open, Pending
  <2> QED BY <1>3, <1>5, <1>6, <2>1 DEF Follow, AskedInv
<1> QED BY <1>6, <1>7, <1>8 DEF Follow, Programs

LEMMA JobHandleFollow == ASSUME Good, Follow, JobHandle PROVE Follow'
<1>1. PICK k \in DOMAIN wire["regis"] :
        LET m == wire["regis"][k]
        IN /\ Takes(k) /\ (k = 1 \/ (k = 2 /\ wire["regis"][1].kind = "reply"))
           /\ \/ m.kind = "reply" /\ JobReply(m.value = "ok") /\ UNCHANGED terminal
              \/ m.kind = "status" /\ JobSignal(m.value)
              \/ /\ m.kind = "needed"
                 /\ JobView(IF at["regis"] = "ready" THEN view["regis"]
                            ELSE OnNeeded(view["regis"], m.value, Prompts))
                 /\ UNCHANGED <<calls, at, result, terminal>>
  BY DEF JobHandle, Takes
<1>2. Still /\ cancel' = cancel
  BY DEF JobHandle, Still
<1> DEFINE m == wire["regis"][k]
<1>3. CASE m.kind = "reply" /\ JobReply(m.value = "ok") /\ UNCHANGED terminal
  BY <1>1, <1>2, <1>3, JobReplyFollow DEF job
<1>4. CASE m.kind = "status" /\ JobSignal(m.value)
  BY <1>1, <1>2, <1>4, JobSignalFollow
<1>5. CASE /\ m.kind = "needed"
           /\ JobView(IF at["regis"] = "ready" THEN view["regis"]
                      ELSE OnNeeded(view["regis"], m.value, Prompts))
           /\ UNCHANGED <<calls, at, result, terminal>>
  BY <1>1, <1>2, <1>5, JobNeededFollow DEF job
<1> QED BY <1>1, <1>3, <1>4, <1>5

LEMMA InitFollow == Init => Follow
<1> SUFFICES ASSUME Init PROVE Follow
  OBVIOUS
<1>1. LateInv /\ AskedInv
  BY DEF Init, LateInv, AskedInv, Prompts, Open, Pending, Asked, Stands, Fresh, Token, Programs
<1>2. ASSUME NEW p \in Programs PROVE Follows(p)
  <2>1. wire[p] = <<>> /\ view[p] = Fresh /\ owner = Nobody /\ phase = "off" /\ ~told
    BY DEF Init
  <2>2. DOMAIN wire[p] = {}
    BY <2>1, NoneFacts
  <2>3. ~Fresh.needed /\ Fresh.passed = 0 /\ Fresh.token = <<>>
    BY DEF Fresh
  <2>4. Knows(p)
    BY <2>1, <2>2, <2>3 DEF Knows, LastNeeded
  <2>5. Counts(p)
    BY <2>1, <2>2, <2>3 DEF Counts, NoStatus
  <2> QED BY <2>1, <2>3, <2>4, <2>5 DEF Follows, Begun
<1> QED BY <1>1, <1>2 DEF Follow

LEMMA AlwaysFollow == Spec => []Follow
<1>1. Good /\ Follow /\ [Next]_vars => Follow'
  <2> SUFFICES ASSUME Good, Follow, [Next]_vars PROVE Follow'
    OBVIOUS
  <2>1. CASE Fprintd
    BY <2>1, ReadFollow, TellFollow, FingerFollow DEF Fprintd
  <2>2. CASE Finger
    BY <2>2, FingerFollow, ScannedFollow DEF Finger
  <2>3. CASE GuideRuns \/ GuideTimeout
    BY <2>3, GuideGoesFollow, GuideCancelFollow, GuideHandleFollow DEF GuideRuns
  <2>4. CASE JobHandle \/ User
    BY <2>4, JobHandleFollow, GuideGoesFollow, JobStartFollow, JobCancelFollow DEF User
  <2>5. CASE UNCHANGED vars
    <3>1. UNCHANGED <<setup, reader, told, calls, wire, answer, at, view, result, loop, job>>
      BY <2>5 DEF vars, bus
    <3>2. UNCHANGED <<owner, phase, level, late, quit, done, cancel, terminal>>
      BY <3>1 DEF reader, loop, job
    <3>3. LateInv' /\ AskedInv'
      BY <3>1, <3>2, AskedFrame DEF Follow, LateInv
    <3> QED BY <3>1, <3>2, <3>3, FollowsFrame DEF Follow
  <2> QED BY <2>1, <2>2, <2>3, <2>4, <2>5 DEF Next
<1> QED BY <1>1, InitFollow, AlwaysGood, PTL DEF Spec

\* Whoever waits for a finger, and has heard all that fprintd has to tell, has
\* told the user to swipe, and alone has told it for the right stage: neither a
\* late finger-needed, nor an early one, nor a status that overtakes a reply
\* loses a prompt.
THEOREM WaitersArePrompted == Spec => []WaitingIsPrompted
<1>1. Good /\ Follow => WaitingIsPrompted
  <2> SUFFICES ASSUME Good, Follow, NEW p \in Programs, CaughtUp(p)
               PROVE  view[p].swipe /\ (Alone => view[p].passed = level)
    BY DEF WaitingIsPrompted
  <2>1. /\ at[p] = "run" /\ wire[p] = <<>> /\ owner = p /\ phase = "wait" /\ told
        /\ ~quit /\ ~cancel
    BY DEF CaughtUp
  <2>2. Listens(p) /\ ~Unstarted(p) /\ NoNeeded(wire[p])
    <3>1. DOMAIN wire[p] = {}
      BY <2>1, NoneFacts
    <3> QED BY <2>1, <3>1 DEF Listens, Unstarted, Ending, NoNeeded
  <2>3. view[p].needed = told
    BY <2>1, <2>2 DEF Follow, Follows, Knows
  <2>4. Asked(view[p])
    <3>1. CASE p = "guide"
      BY <2>1, <3>1 DEF Follow, AskedInv
    <3>2. CASE p = "regis"
      <4>1. Prompts
        BY <2>1, <3>2 DEF Prompts, Open, Follow, AskedInv
      <4> QED BY <3>2, <4>1 DEF Follow, AskedInv
    <3> QED BY <3>1, <3>2 DEF Programs
  <2>5. view[p].swipe
    BY <2>1, <2>3, <2>4 DEF Asked, Stands
  <2>6. ASSUME Alone PROVE view[p].passed = level
    <3>1. setup.here = {p}
      BY <2>1, <2>6 DEF Alone, Good, HereInv
    <3>2. Leads(wire[p], view[p].passed, level)
      BY <2>1, <2>2, <3>1 DEF Follow, Follows, Counts
    <3> QED BY <2>1, <3>2, LeadsNone, ViewsFacts
  <2> QED BY <2>5, <2>6
<1> QED BY <1>1, AlwaysGood, AlwaysFollow, PTL
=============================================================================
