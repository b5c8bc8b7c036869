------------------------------ MODULE NoValue ------------------------------
(***************************************************************************)
(* What the modules of the surfaces, the agents and the stores have in     *)
(* common: the null of the code.                                           *)
(***************************************************************************)
CONSTANT None

=============================================================================
