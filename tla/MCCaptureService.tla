-------------------------- MODULE MCCaptureService --------------------------
(* CaptureService for TLC: what clients send and helpers write.          *)
EXTENDS CaptureService

\* A status request, a capture, a command the service does not know, and a
\* client that goes on sending during its capture.
AllWords == {<<"S">>, <<"C">>, <<"X">>, <<"C", "X">>}

\* For the run about several clients: every client wants an image.
OneWord == {<<"C">>}

\* What a helper may write to its pipes.
TwoBlocks == [f \in Pipes |-> 2]
OneBlock  == [f \in Pipes |-> IF f = "stdout" THEN 1 ELSE 0]
=============================================================================
