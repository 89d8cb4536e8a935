---------------------------- MODULE MCRuntimeSync ----------------------------
(***************************************************************************)
(* TLC instances of RuntimeSync.                                           *)
(***************************************************************************)
EXTENDS RuntimeSync, TLC

CONSTANT MaxRuns    \* how many runs a behaviour may start

MCRuns == 1 .. MaxRuns

\* Syncers and agents are interchangeable.
Symmetry == Permutations(Syncers) \cup Permutations(Agents)
=============================================================================
