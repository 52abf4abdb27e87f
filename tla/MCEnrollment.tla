---------------------------- MODULE MCEnrollment ----------------------------
(* Enrollment for TLC: what runs, and on which reader.                     *)
EXTENDS Enrollment

Setup(programs, n, again) ==
  [here |-> programs, stages |-> n, retries |-> again]

\* Each program alone with a reader of two stages that may refuse a scan, and
\* both with a reader of one stage.
AloneOrBoth == {Setup({p}, 2, 1) : p \in Programs} \cup {Setup(Programs, 1, 0)}

\* For the run about the two together.
OnlyBoth == {Setup(Programs, 1, 0)}
=============================================================================
