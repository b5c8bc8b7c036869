---------------------------- MODULE ReviewSurface ----------------------------
(***************************************************************************)
(* What the two ways to a decision, Slack and the web console, have in     *)
(* common: the obligations in review and the tiers that are reviewed.      *)
(***************************************************************************)
EXTENDS NoValue

CONSTANTS
  Obligations,
  RoutedTiers      \* tiers a run may have been routed to

=============================================================================
