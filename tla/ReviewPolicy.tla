---------------------------- MODULE ReviewPolicy ----------------------------
(***************************************************************************)
(* What the review gate promises, with every decision taken in one step:   *)
(* an obligation is routed once, collects reviews, and is decided at most  *)
(* once, on the strength of reviews that are there.  A dual-review tier is *)
(* approved or rejected only by two people who agree, and escalated only   *)
(* by two people who do not.  An obligation that becomes binding closes    *)
(* the live obligation it overwrites in the same step, and nobody else has *)
(* closed it before.                                                       *)
(*                                                                         *)
(* ReviewGate, the handlers as they are written, is shown to implement     *)
(* this.                                                                   *)
(***************************************************************************)
EXTENDS ReviewDomain

CONSTANTS
  Obligations,     \* proposed obligations, one branch of a run each
  OldObligations,  \* live obligations a proposal may overwrite
  None,
  RoutedTiers,     \* [Obligations -> SUBSET Tiers], the tiers routing may yield
  Overwrites,      \* [Obligations -> OldObligations \cup {None}], explicit match
  Reviews          \* the reviews that can be written

VARIABLES
  tier,        \* tier[o], None until routed
  status,      \* Obligation.status in the graph, None until the node exists
  reviews,     \* HumanReview nodes linked to o
  decided,     \* the final outcome taken on o, None until then
  supersededBy \* for an old obligation, the new one that closed it, or None

policyVars == <<tier, status, reviews, decided, supersededBy>>

Init ==
  /\ tier = [o \in Obligations |-> None]
  /\ status = [o \in Obligations |-> None]
  /\ reviews = [o \in Obligations |-> {}]
  /\ decided = [o \in Obligations |-> None]
  /\ supersededBy = [x \in OldObligations |-> None]

Route(o) ==
  /\ tier[o] = None
  /\ \E t \in RoutedTiers[o] :
       /\ tier' = [tier EXCEPT ![o] = t]
       /\ status' = [status EXCEPT ![o] = PreReviewStatus(t)]
  /\ UNCHANGED <<reviews, decided, supersededBy>>

Review(o) ==
  /\ tier[o] \in Tiers \ {"A"}
  /\ \E r \in Reviews :
       reviews' = [reviews EXCEPT ![o] = @ \cup {r}]
  /\ UNCHANGED <<tier, status, decided, supersededBy>>

(***************************************************************************)
(* Two reviews of o by different people, one deciding d1 and one d2.       *)
(***************************************************************************)
IndependentPair(o, d1, d2) ==
  \E r1, r2 \in reviews[o] :
    /\ r1.reviewer # r2.reviewer
    /\ r1.decision = d1
    /\ r2.decision = d2

Unanimous(o, d) ==
  IF RequiresSecondReview(tier[o])
  THEN IndependentPair(o, d, d)
  ELSE \E r \in reviews[o] : r.decision = d

Justified(o, outcome) ==
  CASE outcome = "tier_a"       -> tier[o] = "A"
    [] outcome = "approve"      -> Unanimous(o, "approve")
    [] outcome = "reject"       -> Unanimous(o, "reject")
    [] outcome = "disagreement" -> /\ RequiresSecondReview(tier[o])
                                   /\ IndependentPair(o, "approve", "reject")

Decide(o) ==
  /\ tier[o] # None
  /\ decided[o] = None
  /\ \E outcome \in FinalOutcomes :
       /\ Justified(o, outcome)
       /\ decided' = [decided EXCEPT ![o] = outcome]
       /\ status' = [status EXCEPT ![o] = FinalStatus(outcome)]
       /\ IF Binding(outcome) /\ Overwrites[o] # None
          THEN /\ supersededBy[Overwrites[o]] = None
               /\ supersededBy' = [supersededBy EXCEPT ![Overwrites[o]] = o]
          ELSE UNCHANGED supersededBy
  /\ UNCHANGED <<tier, reviews>>

Next == \E o \in Obligations : Route(o) \/ Review(o) \/ Decide(o)

Spec == Init /\ [][Next]_policyVars

=============================================================================
