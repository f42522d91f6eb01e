----------------------------- MODULE MCRelease -----------------------------
(* Two pushes; the run of the first has two attempts, so a re-run of an old
   commit races the new one and the operator.                               *)
EXTENDS Release

MCMaxAttempt == <<2, 1>>
=============================================================================
