---------------------------- MODULE MCRehearsal ----------------------------
(* Any two scripts, one after the other, each command failing or cut short. *)
EXTENDS Rehearsal
=============================================================================
