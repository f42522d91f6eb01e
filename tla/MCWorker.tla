------------------------------ MODULE MCWorker ------------------------------
EXTENDS Worker, TLC

CONSTANTS north, south
MCPlaces == {north, south}
MCFirstPlaces == {north, NoRow}
MCSymmetry == Permutations(Pages)

(* What one instance covers: a location that moves, under the worker's     *)
(* jobs; pages and the startup refresh that want the same days; a clean-up *)
(* over midnights and restarts.                                            *)
PlaceMoves == edits = {} /\ calls = 0 /\ starts <= 1 /\ today <= 3
PagesRace == edits = {} /\ saves = 0 /\ starts <= 1 /\ today <= 2
CleansUp == place = NoRow /\ calls = 0 /\ saves = 0
MCBound == PlaceMoves \/ PagesRace \/ CleansUp
=============================================================================
