----------------------------- MODULE MCJobQueue -----------------------------
(* The print queue with two requests or events in flight, two pops, two jobs, *)
(* and the options that take different paths.                                  *)
EXTENDS JobQueue, TLC

MCConfigs ==
  {[automatic |-> TRUE, gcode |-> TRUE, loadOnStart |-> TRUE],
   [automatic |-> FALSE, gcode |-> FALSE, loadOnStart |-> TRUE]}
Symmetry == Permutations(Caller) \cup Permutations(Popper) \cup Permutations(Job)
=============================================================================
