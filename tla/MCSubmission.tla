---------------------------- MODULE MCSubmission ----------------------------
(* Instance of Submission for TLC.         *)
EXTENDS Submission, TLC

CONSTANTS t1, t2, e1, e2, n1, c1, c2

\* The form names the option profile, which is edited all the time.
MCForms == {[entry |-> e1, name |-> n1, options |-> c1]}

Symmetry == Permutations({t1, t2})
=============================================================================
