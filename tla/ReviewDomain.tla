---------------------------- MODULE ReviewDomain ----------------------------
(***************************************************************************)
(* The vocabulary of human review: the tiers a proposed obligation can be  *)
(* routed to, the statuses it goes through, and the pure functions of      *)
(* orchestrator.logic.ts and monitoring-and-audit.agent.ts that turn       *)
(* reviews into outcomes and outcomes into statuses.  No state here.       *)
(***************************************************************************)
EXTENDS Naturals, FiniteSets

Tiers == {"A", "B", "C", "ESCALATE"}

Decisions == {"approve", "reject"}

\* Only the statuses the orchestrator writes; "proposed" is never written by it.
Statuses == {"tier_a_committed", "tier_b_review", "tier_c_review",
             "escalated", "committed", "rejected"}

ReviewOutcomes == {"AWAITING_SECOND_REVIEWER", "APPROVED", "REJECTED",
                   "ESCALATED_DISAGREEMENT"}

FinalOutcomes == {"tier_a", "approve", "reject", "disagreement"}

\* The steps a run can be suspended at.
Steps == {"awaitHumanReview", "awaitSecondHumanReview"}

(***************************************************************************)
(* requiresSecondReview: Tier C and ESCALATE go through maker and checker. *)
(***************************************************************************)
RequiresSecondReview(tier) == tier \in {"C", "ESCALATE"}

(***************************************************************************)
(* preReviewStatusForTier: the status the pre-review commit writes.        *)
(***************************************************************************)
PreReviewStatus(tier) ==
  CASE tier = "A"        -> "tier_a_committed"
    [] tier = "B"        -> "tier_b_review"
    [] tier = "C"        -> "tier_c_review"
    [] tier = "ESCALATE" -> "escalated"

(***************************************************************************)
(* The wire value of a review's tier has no ESCALATE; every caller sends   *)
(* "C" for it (humanReviewTierFor, humanReviewTierForSlack).               *)
(***************************************************************************)
WireTier(tier) == IF RequiresSecondReview(tier) THEN "C" ELSE tier

RequiredReviewCount(wireTier) == IF wireTier = "C" THEN 2 ELSE 1

Verdict(decision) == IF decision = "approve" THEN "APPROVED" ELSE "REJECTED"

\* Mutation: the second reviewer decides alone.
LastDecisionWins(wireTier, existing, decision) ==
  IF wireTier = "C" /\ existing = {}
  THEN "AWAITING_SECOND_REVIEWER"
  ELSE Verdict(decision)

(***************************************************************************)
(* computeReviewOutcome for a new decision on top of the reviews that were *)
(* there when the submitter looked (at most one of them at Tier C).        *)
(***************************************************************************)
ComputeReviewOutcome(wireTier, existing, decision) ==
  IF wireTier = "B"
  THEN Verdict(decision)
  ELSE IF existing = {}
  THEN "AWAITING_SECOND_REVIEWER"
  ELSE IF \A r \in existing : r.decision = decision
  THEN Verdict(decision)
  ELSE "ESCALATED_DISAGREEMENT"

\* Mutation: a disagreement counts as a rejection.
DisagreementRejects(reviewOutcome) ==
  IF reviewOutcome = "APPROVED" THEN "approve" ELSE "reject"

(***************************************************************************)
(* finalOutcomeFromReviewOutcome; AWAITING_SECOND_REVIEWER has no image    *)
(* (the code throws), and no caller passes it.                             *)
(***************************************************************************)
FinalOutcomeOf(reviewOutcome) ==
  CASE reviewOutcome = "APPROVED"               -> "approve"
    [] reviewOutcome = "REJECTED"               -> "reject"
    [] reviewOutcome = "ESCALATED_DISAGREEMENT" -> "disagreement"

\* Mutation: the outcome is written where the status belongs.
OutcomeAsStatus(finalOutcome) == finalOutcome

(***************************************************************************)
(* The status transition of buildFinalizeCommitPlan.  tier_a has none: its *)
(* status was final at the pre-review commit.                              *)
(***************************************************************************)
FinalStatus(finalOutcome) ==
  CASE finalOutcome = "tier_a"       -> "tier_a_committed"
    [] finalOutcome = "approve"      -> "committed"
    [] finalOutcome = "reject"       -> "rejected"
    [] finalOutcome = "disagreement" -> "escalated"

\* Outcomes that make the obligation binding: they close what it overwrites
\* and raise a ticket.
Binding(finalOutcome) == finalOutcome \in {"tier_a", "approve"}

=============================================================================
