---------------------------- MODULE SlackGateway ----------------------------
(***************************************************************************)
(* The Slack surface (apps/orchestrator/src/slack): cards sent to each     *)
(* reviewer, button clicks that open a modal, submissions of the modal,    *)
(* the dedupe cache in front of both, and the refresh of every card after  *)
(* a change.  Each await ends an action.  The review gate behind it is     *)
(* reduced to what resumeOrchestratorRun, claim and getReviewsVisibleTo    *)
(* answer (ReviewGate models them in full).                                *)
(*                                                                         *)
(* A click is named by its trigger id; the modal it opens has the view id  *)
(* of the same name.  Slack may deliver a request more than once.          *)
(***************************************************************************)
EXTENDS ReviewSurface, Naturals, Sequences, FiniteSets, SequencesExt

CONSTANTS
  Reviewers,
  Clicks,          \* trigger ids, and the view ids of their modals
  MaxRepeats,      \* requests Slack delivers a second time
  Mistakes         \* reviewers may submit a Tier C modal without a rationale

VARIABLES
  runTier,   \* tier the run of each obligation was routed to
  slots,     \* index: claimed slots of each obligation
  reviews,   \* graph: reviews of each obligation, in the order they were made
  decided,   \* obligations whose run has ended, and left the index
  known,     \* SentCardStore: obligations with static fields
  sent,      \* SentCardStore: <<o, r>> with a message
  shown,     \* what Slack shows in that message
  seen,      \* SlackIdempotencyCache
  wire,      \* requests on their way from Slack
  repeats,   \* requests delivered again so far
  modal,     \* the modal of each click
  job,       \* the handler that works for each click
  restarted

slackVars == <<runTier, slots, reviews, decided, known, sent, shown, seen, wire, repeats, modal, job, restarted>>
gateVars == <<runTier, slots, reviews, decided>>
storeVars == <<known, sent>>

Tiers == {"B", "C", "ESCALATE"}
Decisions == {"approve", "reject"}

ASSUME SlackAssumption ==
  /\ IsFiniteSet(Reviewers)
  /\ MaxRepeats \in Nat
  /\ RoutedTiers \subseteq Tiers
  /\ None \notin Obligations \cup Reviewers \cup Decisions \cup Tiers \cup {"open", "link", "locked", "closed", "reveal"}

Cards == {None, "open", "link", "locked", "closed", "reveal"}
Slots == [maker: Reviewers \cup {None}, checker: Reviewers \cup {None}]
Review == [reviewer: Reviewers, decision: Decisions]
Request == [kind: {"block_actions", "view_submission"}, click: Clicks, rationale: BOOLEAN]
NoModal == [open |-> FALSE, o |-> None, r |-> None, decision |-> None, tier |-> None, submitted |-> FALSE]
NoJob == [at |-> "none", todo |-> <<>>, card |-> None]
JobPoints == {"none", "claim", "gate", "open", "resume", "assemble", "update", "done"}

SlackTypeOK ==
  /\ runTier \in [Obligations -> RoutedTiers]
  /\ slots \in [Obligations -> Slots]
  /\ reviews \in [Obligations -> Seq(Review)]
  /\ decided \subseteq Obligations
  /\ known \subseteq Obligations
  /\ sent \subseteq Obligations \X Reviewers
  /\ shown \in [Obligations \X Reviewers -> Cards]
  /\ seen \subseteq {"trigger_id", "view_id"} \X Clicks
  /\ wire \subseteq Request
  /\ repeats \in 0..MaxRepeats
  /\ modal \in [Clicks -> [open: BOOLEAN, o: Obligations \cup {None}, r: Reviewers \cup {None},
                           decision: Decisions \cup {None}, tier: Tiers \cup {None}, submitted: BOOLEAN]]
  /\ job \in [Clicks -> [at: JobPoints, todo: Seq(Reviewers), card: Cards]]
  /\ restarted \in BOOLEAN

\* Every reviewer has a card of every obligation, as deliverTierCFanOut and
\* deliverSingleRecipientCard leave them.
FirstCard(o) == IF runTier[o] = "ESCALATE" THEN "link" ELSE "open"

SlackInit ==
  /\ runTier \in [Obligations -> RoutedTiers]
  /\ slots = [o \in Obligations |-> [maker |-> None, checker |-> None]]
  /\ reviews = [o \in Obligations |-> <<>>]
  /\ decided = {}
  /\ known = Obligations
  /\ sent = Obligations \X Reviewers
  /\ shown = [c \in Obligations \X Reviewers |-> FirstCard(c[1])]
  /\ seen = {}
  /\ wire = {}
  /\ repeats = 0
  /\ modal = [k \in Clicks |-> NoModal]
  /\ job = [k \in Clicks |-> NoJob]
  /\ restarted = FALSE

(***************************************************************************)
(* The gate.                                                               *)
(***************************************************************************)
Holds(o, r) == slots[o].maker = r \/ slots[o].checker = r

\* InMemorySuspendedRunIndex.claim.
OpenSlot(o, r) ==
  CASE slots[o].maker = None -> "maker"
    [] slots[o].maker # None /\ slots[o].checker = None /\ slots[o].maker # r -> "checker"
    [] OTHER -> None

RequiredOfB(tier) == IF tier = "C" THEN 1 ELSE 2  \* mutation: the tiers are swapped

Required(tier) == IF tier = "B" THEN 1 ELSE 2

HasReviewed(o, r) == \E i \in DOMAIN reviews[o] : reviews[o][i].reviewer = r

\* resumeOrchestratorRun and recordHumanReview take the decision: the run is
\* suspended, a decision of wire tier C comes from the holder of the slot
\* whose turn it is, and the reviews the wire tier asks for are not yet there.
Accepts(o, r, tier) ==
  /\ o \notin decided
  /\ tier # "B" => slots[o][IF reviews[o] = <<>> THEN "maker" ELSE "checker"] = r
  /\ ~HasReviewed(o, r)
  /\ Len(reviews[o]) < Required(tier)

(***************************************************************************)
(* Cards: assembleSlackCardModel and buildReviewCard for one recipient, who*)
(* sees the reviews only after one of their own.                           *)
(***************************************************************************)
VisibleToAll(o, r) == reviews[o]  \* mutation: reviews are shown before one's own

Visible(o, r) == IF HasReviewed(o, r) THEN reviews[o] ELSE <<>>

CardFor(o, r, tier) ==
  CASE tier = "ESCALATE" -> "link"
    [] tier = "B" -> IF Len(Visible(o, r)) >= 1 THEN "closed" ELSE "open"
    [] tier = "C" /\ Len(Visible(o, r)) >= 2 -> "reveal"
    [] tier = "C" /\ Len(Visible(o, r)) = 1 -> "locked"
    [] OTHER -> "open"

HasButtons(card) == card = "open"

(***************************************************************************)
(* What a reviewer and Slack do (external to src/).                        *)
(***************************************************************************)
Click(k, o, r, decision) ==
  /\ modal[k].o = None
  /\ HasButtons(shown[<<o, r>>])
  /\ modal' = [modal EXCEPT ![k].o = o, ![k].r = r, ![k].decision = decision]
  /\ wire' = wire \cup {[kind |-> "block_actions", click |-> k, rationale |-> FALSE]}
  /\ UNCHANGED <<gateVars, storeVars, shown, seen, repeats, job, restarted>>

Submit(k, rationale) ==
  /\ modal[k].open
  /\ rationale \/ Mistakes \/ modal[k].tier = "B"
  /\ ~\E m \in wire : m.click = k
  /\ wire' = wire \cup {[kind |-> "view_submission", click |-> k, rationale |-> rationale]}
  /\ modal' = [modal EXCEPT ![k].submitted = rationale]
  /\ UNCHANGED <<gateVars, storeVars, shown, seen, repeats, job, restarted>>

\* The cache forgets a key after two minutes, long after the last repeat.
Expire(key) ==
  /\ key \in seen
  /\ ~\E m \in wire : m.click = key[2]
  /\ seen' = seen \ {key}
  /\ UNCHANGED <<gateVars, storeVars, shown, wire, repeats, modal, job, restarted>>

(***************************************************************************)
(* handleInteractions.                                                     *)
(***************************************************************************)
\* The request leaves the wire, or Slack sends it once more.
Take(m) ==
  \/ wire' = wire \ {m} /\ UNCHANGED repeats
  \/ repeats < MaxRepeats /\ repeats' = repeats + 1 /\ UNCHANGED wire

KeyOfClick(m) == <<"trigger_id", m.click>>  \* mutation: one key for both kinds of request

Key(m) == <<IF m.kind = "block_actions" THEN "trigger_id" ELSE "view_id", m.click>>

\* checkAndRecord says the key was seen: answered 200, nothing else happens.
\* The answer closes the modal.
Deduped(m) ==
  /\ m \in wire
  /\ Key(m) \in seen
  /\ Take(m)
  /\ modal' = IF m.kind = "view_submission" THEN [modal EXCEPT ![m.click].open = FALSE] ELSE modal
  /\ UNCHANGED <<gateVars, storeVars, shown, seen, job, restarted>>

\* The tier comes from the store, and is B for an obligation it does not know.
TierOf(o) == IF o \in known THEN runTier[o] ELSE "B"

BlockAction(m) ==
  LET k == m.click
      tier == TierOf(modal[k].o)
  IN /\ m \in wire
     /\ m.kind = "block_actions"
     /\ Key(m) \notin seen
     /\ job[k].at \in {"none", "done"}
     /\ Take(m)
     /\ seen' = seen \cup {Key(m)}
     /\ IF tier = "ESCALATE"
        THEN UNCHANGED <<modal, job>>
        ELSE /\ modal' = [modal EXCEPT ![k].tier = tier]
             /\ job' = [job EXCEPT ![k] = [NoJob EXCEPT !.at = IF tier = "C" THEN "claim" ELSE "gate"]]
     /\ UNCHANGED <<gateVars, storeVars, shown, restarted>>

Finish(k) == job' = [job EXCEPT ![k] = [NoJob EXCEPT !.at = "done"]]

\* claimReviewSlot; a reviewer who gets no slot goes on if the gate says that
\* one is already theirs.
ClaimSlot(k) ==
  LET o == modal[k].o
      r == modal[k].r
      slot == OpenSlot(o, r)
  IN /\ job[k].at = "claim"
     /\ IF slot # None
        THEN /\ slots' = [slots EXCEPT ![o][slot] = r]
             /\ job' = [job EXCEPT ![k].at = "gate"]
        ELSE /\ UNCHANGED slots
             /\ IF Holds(o, r) THEN job' = [job EXCEPT ![k].at = "gate"] ELSE Finish(k)
     /\ UNCHANGED <<runTier, reviews, decided, storeVars, shown, seen, wire, repeats, modal, restarted>>

\* getReviewGate for the rationale; it answers or the handler ends.
ReadGate(k) ==
  /\ job[k].at = "gate"
  /\ job' = [job EXCEPT ![k].at = "open"]
  /\ UNCHANGED <<gateVars, storeVars, shown, seen, wire, repeats, modal, restarted>>

Recipients(o) == SetToSeq({r \in Reviewers : <<o, r>> \in sent})

\* refreshAllCardsForObligation starts from the entries of the store.
StartRefresh(k, o) ==
  job' = [job EXCEPT ![k] = IF Recipients(o) = <<>> THEN [NoJob EXCEPT !.at = "done"]
                            ELSE [NoJob EXCEPT !.at = "assemble", !.todo = Recipients(o)]]

OpenView(k) ==
  /\ job[k].at = "open"
  /\ modal' = [modal EXCEPT ![k].open = TRUE]
  /\ IF modal[k].tier = "C" THEN StartRefresh(k, modal[k].o) ELSE Finish(k)
  /\ UNCHANGED <<gateVars, storeVars, shown, seen, wire, repeats, restarted>>

\* A call of Slack or of the gate fails, or the trigger has expired.
JobFails(k) ==
  /\ job[k].at \notin {"none", "done"}
  /\ Finish(k)
  /\ UNCHANGED <<gateVars, storeVars, shown, seen, wire, repeats, modal, restarted>>

\* One recipient at a time: the model is read for that recipient, then sent.
Assemble(k) ==
  LET o == modal[k].o
      r == Head(job[k].todo)
  IN /\ job[k].at = "assemble"
     /\ job' = [job EXCEPT ![k].at = "update", ![k].card = CardFor(o, r, runTier[o])]
     /\ UNCHANGED <<gateVars, storeVars, shown, seen, wire, repeats, modal, restarted>>

UpdateCard(k) ==
  LET o == modal[k].o
      rest == Tail(job[k].todo)
  IN /\ job[k].at = "update"
     /\ shown' = [shown EXCEPT ![<<o, Head(job[k].todo)>>] = job[k].card]
     /\ job' = [job EXCEPT ![k] = IF rest = <<>> THEN [NoJob EXCEPT !.at = "done"]
                                  ELSE [NoJob EXCEPT !.at = "assemble", !.todo = rest]]
     /\ UNCHANGED <<gateVars, storeVars, seen, wire, repeats, modal, restarted>>

\* The view id is recorded as seen before the rationale is looked at.  An empty
\* rationale keeps the modal open; else the answer closes it and the decision
\* is processed after the answer.
ViewSubmission(m) ==
  LET k == m.click
  IN /\ m \in wire
     /\ m.kind = "view_submission"
     /\ Key(m) \notin seen
     /\ job[k].at = "done"
     /\ Take(m)
     /\ seen' = seen \cup {Key(m)}
     /\ IF modal[k].tier # "B" /\ ~m.rationale
        THEN UNCHANGED <<modal, job>>
        ELSE /\ modal' = [modal EXCEPT ![k].open = FALSE]
             /\ job' = [job EXCEPT ![k] = [NoJob EXCEPT !.at = "resume"]]
     /\ UNCHANGED <<gateVars, storeVars, shown, restarted>>

\* resumeReviewStep: the decision is taken or refused; a refusal refreshes the
\* cards from what is true now.  A Tier B card is replaced by a confirmation.
ResumeReview(k) ==
  LET o == modal[k].o
      r == modal[k].r
      tier == modal[k].tier
  IN /\ job[k].at = "resume"
     /\ IF Accepts(o, r, tier)
        THEN /\ reviews' = [reviews EXCEPT ![o] = Append(@, [reviewer |-> r, decision |-> modal[k].decision])]
             /\ decided' = IF Len(reviews[o]) + 1 = Required(tier) THEN decided \cup {o} ELSE decided
             /\ IF tier # "B" THEN StartRefresh(k, o)
                ELSE job' = [job EXCEPT ![k] = IF o \in known /\ <<o, r>> \in sent
                                               THEN [NoJob EXCEPT !.at = "update", !.todo = <<r>>, !.card = "closed"]
                                               ELSE [NoJob EXCEPT !.at = "done"]]
        ELSE /\ UNCHANGED <<reviews, decided>>
             /\ StartRefresh(k, o)
     /\ UNCHANGED <<runTier, slots, storeVars, shown, seen, wire, repeats, modal, restarted>>

\* The store, the cache and the running handlers are lost; the messages stay in
\* Slack.  (The suspended runs are looked at as kept: losing them as well is
\* what ReviewGate's Restart does.)
Restart ==
  /\ ~restarted
  /\ restarted' = TRUE
  /\ known' = {} /\ sent' = {} /\ seen' = {}
  /\ job' = [k \in Clicks |-> IF job[k].at = "none" THEN NoJob ELSE [NoJob EXCEPT !.at = "done"]]
  /\ UNCHANGED <<gateVars, shown, wire, repeats, modal>>

(***************************************************************************)
(* Specification.                                                          *)
(***************************************************************************)
JobStep(k) ==
  \/ ClaimSlot(k) \/ ReadGate(k) \/ OpenView(k)
  \/ Assemble(k) \/ UpdateCard(k) \/ ResumeReview(k) \/ JobFails(k)

SlackNext ==
  \/ \E k \in Clicks, o \in Obligations, r \in Reviewers, d \in Decisions : Click(k, o, r, d)
  \/ \E k \in Clicks, rationale \in BOOLEAN : Submit(k, rationale)
  \/ \E key \in seen : Expire(key)
  \/ \E m \in wire : Deduped(m) \/ BlockAction(m) \/ ViewSubmission(m)
  \/ \E k \in Clicks : JobStep(k)
  \/ Restart

SlackSpec == SlackInit /\ [][SlackNext]_slackVars

(***************************************************************************)
(* Properties.                                                             *)
(***************************************************************************)
\* As long as the process that sent the cards runs, an obligation routed to two
\* reviewers is not decided by one of them: the tier of every click is the tier
\* of the run.  (After a restart the store is empty, every click counts as Tier
\* B, and one review decides.)
DualReviewNeedsTwo ==
  ~restarted => \A o \in Obligations : runTier[o] # "B" /\ o \in decided =>
    Cardinality({reviews[o][i].reviewer : i \in DOMAIN reviews[o]}) = 2

\* What a card says of reviews is true: it is locked for a reviewer who has
\* reviewed, and reveals both reviews only when both are made, to one of the
\* two who made them.
CardsTellFacts ==
  \A o \in Obligations, r \in Reviewers :
    /\ shown[<<o, r>>] \in {"locked", "closed", "reveal"} => HasReviewed(o, r)
    /\ shown[<<o, r>>] = "reveal" => Len(reviews[o]) >= 2

\* What was routed to two is decided by two, and no card says otherwise.
SlackTellsFacts == DualReviewNeedsTwo /\ CardsTellFacts

\* A submission that was complete and answered with a closed modal is or was
\* worked on: no answer of the gateway tells a reviewer that a decision was
\* taken that nobody looks at.
ClosedMeansProcessed ==
  [][\A k \in Clicks : modal[k].submitted /\ modal[k].open /\ ~modal'[k].open => job'[k].at = "resume"]_slackVars

=============================================================================
