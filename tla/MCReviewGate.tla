---------------------------- MODULE MCReviewGate ----------------------------
(***************************************************************************)
(* Small instances of ReviewGate.  Each run picks the tiers a proposal can *)
(* be routed to and which proposals overwrite the same old obligation.     *)
(***************************************************************************)
EXTENDS ReviewGate, TLC

CONSTANTS o1, o2, x1

\* One dual-review obligation, no overwrite.
TierC == (o1 :> {"C"})
TierBC == (o1 :> {"B", "C"})
TierABC == (o1 :> {"A", "B", "C"})
TierB == (o1 :> {"B"})
Escalate == (o1 :> {"ESCALATE"})
NoOverwrite == (o1 :> None)

\* Two proposals, of which both or one overwrite x1.
RivalTiers == (o1 :> {"A", "B"} @@ o2 :> {"B", "C"})
LiveTiers == (o1 :> {"A"} @@ o2 :> {"B", "C"})
SameTarget == (o1 :> x1 @@ o2 :> x1)

Symmetric == Permutations(Reviewers) \cup Permutations(Requests) \cup Permutations(Events)

=============================================================================
