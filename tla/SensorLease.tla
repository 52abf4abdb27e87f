---------------------------- MODULE SensorLease ----------------------------
(***************************************************************************)
(* What the capture service promises, without its pipes, helpers, daemon   *)
(* and deadlines: there is one sensor, a request may hold it once, nobody  *)
(* else holds it meanwhile, an image is sent only to a request that held   *)
(* the sensor and has let go of it, and the answer of a request is final.  *)
(***************************************************************************)
CONSTANT Clients

VARIABLES
  phase,   \* of each request: idle, held, taken (an image), over, answered
  answer   \* of each request: none, image, other

vars == <<phase, answer>>

Init == /\ phase = [c \in Clients |-> "idle"]
        /\ answer = [c \in Clients |-> "none"]

Take(c) == /\ phase[c] = "idle"
           /\ \A d \in Clients : phase[d] # "held"
           /\ phase' = [phase EXCEPT ![c] = "held"]
           /\ UNCHANGED answer

\* The sensor is free again, with an image or without one.
LetGo(c) == /\ phase[c] = "held"
            /\ \E p \in {"taken", "over"} : phase' = [phase EXCEPT ![c] = p]
            /\ UNCHANGED answer

\* An image is sent whole, or the client is told that there is none; nobody
\* holds the sensor then.
Reply(c) ==
  /\ phase[c] \in {"idle", "taken", "over"}
  /\ \A d \in Clients : phase[d] # "held"
  /\ phase' = [phase EXCEPT ![c] = "answered"]
  /\ \E a \in {"image", "other"} :
       /\ a = "image" => phase[c] = "taken"
       /\ answer' = [answer EXCEPT ![c] = a]

\* Requests end without an answer: the client left or the service ended.
Abandon(C) ==
  /\ \A c \in C : phase[c] # "answered"
  /\ phase' = [c \in Clients |-> IF c \in C THEN "over" ELSE phase[c]]
  /\ UNCHANGED answer

Next == \/ \E c \in Clients : Take(c) \/ LetGo(c) \/ Reply(c)
        \/ \E C \in SUBSET Clients : Abandon(C)

Spec == Init /\ [][Next]_vars
=============================================================================
