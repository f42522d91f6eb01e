------------------------------- MODULE MCZone -------------------------------
(***************************************************************************)
(* Two processes, one of them with two threads; the environment's zone is  *)
(* not the default of the settings column.                                 *)
(***************************************************************************)
EXTENDS Zone, TLC

CONSTANTS p1, p2, w1, w2, w3, berlin, auckland

\* the two threads of p1 are alike
MCSymmetry == Permutations({w1, w2})

MCProcessOf == (w1 :> p1) @@ (w2 :> p1) @@ (w3 :> p2)
=============================================================================
