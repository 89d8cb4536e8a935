--------------------------- MODULE MCControlActions ---------------------------
(***************************************************************************)
(* TLC instances of ControlActions.                                        *)
(***************************************************************************)
EXTENDS ControlActions, TLC

\* Requests are interchangeable.
Symmetry == Permutations(Requests)
=============================================================================
