------------------------------- MODULE MCMission -------------------------------
(* Small instances of MissionRun; tasks and requests are interchangeable.       *)
EXTENDS MissionRun, TLC

Symmetry == Permutations(Passes) \union Permutations(Requests)
===============================================================================
