--------------------------------- MODULE MCAuth ---------------------------------
(***************************************************************************)
(* Auth for TLC: users and requests are interchangeable.                   *)
(***************************************************************************)
EXTENDS Auth, TLC

Symmetry == Permutations(Users) \cup Permutations(Requests)

=============================================================================
