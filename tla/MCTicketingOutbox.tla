------------------------- MODULE MCTicketingOutbox -------------------------
(***************************************************************************)
(* Small instances of TicketingOutbox.                                     *)
(***************************************************************************)
EXTENDS TicketingOutbox, TLC

Symmetric == Permutations(Workers) \cup Permutations(Tasks \ Unresolvable)

=============================================================================
