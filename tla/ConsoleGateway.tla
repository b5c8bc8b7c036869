--------------------------- MODULE ConsoleGateway ---------------------------
(***************************************************************************)
(* The web console's way to a decision: the page of an item with its       *)
(* sign-off panel (components/console), the routes that answer the page    *)
(* (app/api/console/items), the client they call the orchestrator with,    *)
(* and the orchestrator's HTTP server (server/http-server.ts).  A tab has  *)
(* one request under way at a time.  A decision is handled by the server   *)
(* in a handler of its own, an action at each await, which goes on when    *)
(* the tab has given the request up.  Requests and answers may get lost,   *)
(* and what the server calls may fail, before or after it has taken        *)
(* effect.                                                                 *)
(*                                                                         *)
(* The run behind the server is reduced to what resumeOrchestratorRun asks *)
(* of it and leaves in it: reviews and ledger entries, the step the engine *)
(* waits at, and the index of suspended runs (ReviewGate has the rest).    *)
(***************************************************************************)
EXTENDS ReviewSurface, Naturals, FiniteSets

CONSTANTS
  Tabs,
  ReviewerOf,      \* the reviewer signed in at each tab
  MaxRequests,     \* decisions submitted from each tab
  MaxLost          \* requests and answers that get lost, and calls of the server that fail

ASSUME ConsoleAssumption ==
  /\ MaxRequests \in Nat /\ MaxLost \in Nat
  /\ None \notin Obligations \cup {"recorded", "refused", "failed", "retry", "ok"}

VARIABLES
  itemTier,    \* graph: the tier the obligation's status stands for
  ended,       \* obligations whose run has committed: no longer in review
  taken,       \* index: claim slots
  recorded,    \* graph: reviews
  entries,     \* ledger: the requests whose review has an entry
  engine,      \* the step the engine is suspended at
  makerOf,     \* the maker the engine was resumed with
  indexStep,   \* index: the step the run is suspended at
  handling,    \* the server's handler of each decision
  repeated,    \* history: requests taken up when a review of their reviewer was there
  page,        \* what each tab shows
  call,        \* the request under way for each tab
  told,        \* the last answer each tab showed for a decision
  losses

runVars == <<itemTier, ended, taken, recorded, entries, engine, makerOf, indexStep>>
serverVars == <<runVars, handling, repeated>>
consoleVars == <<serverVars, page, call, told, losses>>

SignedIn == {ReviewerOf[t] : t \in Tabs}
Steps == {"awaitHumanReview", "awaitSecondHumanReview", "none"}
Requests == Tabs \X (1..MaxRequests)
PanelDecisions == {"approve", "reject", "escalate_to_tier_c"}
Recorded == [event: Requests, reviewer: SignedIn]
Kinds == {"none", "tier_b", "tier_c", "escalate"}
GateStatus == {"unclaimed", "claimed_by_viewer", "viewer_submitted_awaiting_peer", "resolved", "none"}
Views == [kind: Kinds, status: GateStatus, shows: SUBSET SignedIn]
NoView == [kind |-> "none", status |-> "none", shows |-> {}]
NoPage == [o |-> None, view |-> NoView, unavailable |-> FALSE, open |-> FALSE]
NoCall == [at |-> "none", decision |-> None, rationale |-> FALSE, n |-> 0, answer |-> None]
CallPoints == {"none", "detail", "gate", "claim", "claim_call", "claim_answer", "decision", "run_ref", "resume"}
NoHandler == [at |-> "none", o |-> None, step |-> "none", first |-> FALSE, answer |-> None]
Awaiting == {"check_step", "check_slot", "read_reviews", "write_review", "append", "resume", "resuspend", "commit", "clear"}
Refusals == {"SLOT_UNAVAILABLE", "SUSPENDED_STEP_NOT_FOUND", "SELF_REVIEW_FORBIDDEN", "NOT_ASSIGNED", "ALREADY_DECIDED"}
Answers == Refusals \cup {None, "ok", "INTERNAL_ERROR"}
Told == {None, "recorded", "refused", "failed", "retry"}

ConsoleTypeOK ==
  /\ itemTier \in [Obligations -> RoutedTiers]
  /\ ended \subseteq Obligations
  /\ taken \in [Obligations -> [maker: SignedIn \cup {None}, checker: SignedIn \cup {None}]]
  /\ recorded \in [Obligations -> SUBSET Recorded]
  /\ entries \subseteq Requests
  /\ engine \in [Obligations -> Steps]
  /\ makerOf \in [Obligations -> SignedIn \cup {None}]
  /\ indexStep \in [Obligations -> Steps]
  /\ handling \in [Requests -> [at: Awaiting \cup {"none", "sent", "answered"}, o: Obligations \cup {None},
                                step: Steps, first: BOOLEAN, answer: Answers]]
  /\ repeated \subseteq Requests
  /\ page \in [Tabs -> [o: Obligations \cup {None}, view: Views, unavailable: BOOLEAN, open: BOOLEAN]]
  /\ call \in [Tabs -> [at: CallPoints, decision: PanelDecisions \cup {None}, rationale: BOOLEAN,
                        n: 0..MaxRequests, answer: Answers]]
  /\ told \in [Tabs -> [n: 0..MaxRequests, says: Told]]
  /\ losses \in 0..MaxLost

NoneTaken == [maker |-> None, checker |-> None]

ConsoleInit ==
  /\ itemTier \in [Obligations -> RoutedTiers]
  /\ ended = {}
  /\ taken = [o \in Obligations |-> NoneTaken]
  /\ recorded = [o \in Obligations |-> {}]
  /\ entries = {}
  /\ engine = [o \in Obligations |-> "awaitHumanReview"]
  /\ makerOf = [o \in Obligations |-> None]
  /\ indexStep = [o \in Obligations |-> "awaitHumanReview"]
  /\ handling = [e \in Requests |-> NoHandler]
  /\ repeated = {}
  /\ page = [t \in Tabs |-> NoPage]
  /\ call = [t \in Tabs |-> NoCall]
  /\ told = [t \in Tabs |-> [n |-> 0, says |-> None]]
  /\ losses = 0

(***************************************************************************)
(* The handler of a decision: handleResume, resumeOrchestratorRun and      *)
(* recordHumanReview.                                                      *)
(***************************************************************************)
Ob(e) == handling[e].o
Reviewer(e) == ReviewerOf[e[1]]

WireTier(o) == IF itemTier[o] = "B" THEN "B" ELSE "C"

ReviewsNeeded(o) == IF WireTier(o) = "C" THEN 2 ELSE 1

ReviewedBy(o, r) == \E review \in recorded[o] : review.reviewer = r

Proceeds(e, at) == handling' = [handling EXCEPT ![e].at = at]

Responds(e, answer) == handling' = [handling EXCEPT ![e].at = "answered", ![e].answer = answer]

\* The request names the step the index has the run suspended at.
HandleResume(e) ==
  /\ handling[e].at = "sent"
  /\ IF indexStep[Ob(e)] = handling[e].step
     THEN Proceeds(e, "check_step")
     ELSE Responds(e, "SUSPENDED_STEP_NOT_FOUND")
  /\ repeated' = IF ReviewedBy(Ob(e), Reviewer(e)) THEN repeated \cup {e} ELSE repeated
  /\ UNCHANGED <<runVars, page, call, told, losses>>

\* A step the engine does not wait at is answered with resumed: false.
CheckStep(e) ==
  /\ handling[e].at = "check_step"
  /\ IF engine[Ob(e)] = handling[e].step THEN Proceeds(e, "check_slot") ELSE Responds(e, "ALREADY_DECIDED")
  /\ UNCHANGED <<runVars, repeated, page, call, told, losses>>

\* The engine need not know the maker: the workflow suspends without naming one.
CheckAssignment(e) ==
  /\ handling[e].at = "check_slot"
  /\ \E maker \in {None, makerOf[Ob(e)]} :
       LET second == handling[e].step = "awaitSecondHumanReview"
           slot == IF second THEN taken[Ob(e)].checker ELSE taken[Ob(e)].maker
       IN IF second /\ maker = Reviewer(e) THEN Responds(e, "SELF_REVIEW_FORBIDDEN")
          ELSE IF WireTier(Ob(e)) = "C" /\ slot # Reviewer(e) THEN Responds(e, "NOT_ASSIGNED")
          ELSE Proceeds(e, "read_reviews")
  /\ UNCHANGED <<runVars, repeated, page, call, told, losses>>

CountIsEnough(o, r) == Cardinality(recorded[o]) < ReviewsNeeded(o)  \* mutation: who reviewed is not looked at

MayReview(o, r) == ~ReviewedBy(o, r) /\ Cardinality(recorded[o]) < ReviewsNeeded(o)

\* SameReviewerNotAllowedError and ReviewAlreadyCompleteError are not errors that
\* handleError knows.
ReadReviews(e) ==
  /\ handling[e].at = "read_reviews"
  /\ IF MayReview(Ob(e), Reviewer(e))
     THEN handling' = [handling EXCEPT ![e].at = "write_review", ![e].first = (recorded[Ob(e)] = {})]
     ELSE Responds(e, "INTERNAL_ERROR")
  /\ UNCHANGED <<runVars, repeated, page, call, told, losses>>

\* After a write: it is known to be done, or the call fails all the same.
GoesOn(e, at) ==
  \/ Proceeds(e, at) /\ UNCHANGED losses
  \/ losses < MaxLost /\ losses' = losses + 1 /\ Responds(e, "INTERNAL_ERROR")

WriteReview(e) ==
  /\ handling[e].at = "write_review"
  /\ recorded' = [recorded EXCEPT ![Ob(e)] = @ \cup {[event |-> e, reviewer |-> Reviewer(e)]}]
  /\ GoesOn(e, "append")
  /\ UNCHANGED <<itemTier, ended, taken, entries, engine, makerOf, indexStep, repeated, page, call, told>>

ResumesBeforeEntry(e) ==  \* mutation: a failed append does not end the handler
  /\ handling[e].at = "append"
  /\ entries' \in {entries, entries \cup {e}}
  /\ GoesOn(e, "resume")
  /\ UNCHANGED <<itemTier, ended, taken, recorded, engine, makerOf, indexStep, repeated, page, call, told>>

AppendLedgerEntry(e) ==
  /\ handling[e].at = "append"
  /\ entries' = entries \cup {e}
  /\ GoesOn(e, "resume")
  /\ UNCHANGED <<itemTier, ended, taken, recorded, engine, makerOf, indexStep, repeated, page, call, told>>

\* engine.resume takes a suspended step once.  The first of two reviews, as the
\* handler read them, leads to the second step, of which the index is told first.
ResumeEngine(e) ==
  LET o == Ob(e)
  IN /\ handling[e].at = "resume"
     /\ IF engine[o] # handling[e].step
        THEN Responds(e, "INTERNAL_ERROR") /\ UNCHANGED <<engine, makerOf, indexStep>>
        ELSE /\ engine' = [engine EXCEPT ![o] = "none"]
             /\ IF WireTier(o) = "C" /\ handling[e].first
                THEN /\ makerOf' = [makerOf EXCEPT ![o] = Reviewer(e)]
                     /\ indexStep' = [indexStep EXCEPT ![o] = "awaitSecondHumanReview"]
                     /\ Proceeds(e, "resuspend")
                ELSE Proceeds(e, "commit") /\ UNCHANGED <<makerOf, indexStep>>
     /\ UNCHANGED <<itemTier, ended, taken, recorded, entries, repeated, page, call, told, losses>>

Resuspend(e) ==
  /\ handling[e].at = "resuspend"
  /\ engine' = [engine EXCEPT ![Ob(e)] = "awaitSecondHumanReview"]
  /\ Responds(e, "ok")
  /\ UNCHANGED <<itemTier, ended, taken, recorded, entries, makerOf, indexStep, repeated, page, call, told, losses>>

\* finalizeCommit: the decision is committed, then the index forgets the run.
CommitDecision(e) ==
  /\ handling[e].at = "commit"
  /\ ended' = ended \cup {Ob(e)}
  /\ GoesOn(e, "clear")
  /\ UNCHANGED <<itemTier, taken, recorded, entries, engine, makerOf, indexStep, repeated, page, call, told>>

ClearIndex(e) ==
  /\ handling[e].at = "clear"
  /\ indexStep' = [indexStep EXCEPT ![Ob(e)] = "none"]
  /\ taken' = [taken EXCEPT ![Ob(e)] = NoneTaken]
  /\ Responds(e, "ok")
  /\ UNCHANGED <<itemTier, ended, recorded, entries, engine, makerOf, repeated, page, call, told, losses>>

\* What the handler awaits fails before it has taken effect: 500.
HandlerFails(e) ==
  /\ handling[e].at \in Awaiting
  /\ losses < MaxLost
  /\ losses' = losses + 1
  /\ Responds(e, "INTERNAL_ERROR")
  /\ UNCHANGED <<runVars, repeated, page, call, told>>

(***************************************************************************)
(* What a reviewer is shown: getReviewsVisibleTo, deriveReviewGateView and *)
(* toWireReviewGateView.                                                   *)
(***************************************************************************)
VisibleAlways(o, r) == recorded[o]  \* mutation: nothing is held back

VisibleReviews(o, r) == IF ReviewedBy(o, r) THEN recorded[o] ELSE {}

SlotOf(o, r) ==
  CASE taken[o].maker = r -> "maker"
    [] taken[o].checker = r -> "checker"
    [] OTHER -> None

TierCStatus(o, r) ==
  CASE Cardinality(VisibleReviews(o, r)) >= 2 -> "resolved"
    [] Cardinality(VisibleReviews(o, r)) = 1 -> "viewer_submitted_awaiting_peer"
    [] SlotOf(o, r) = None -> "unclaimed"
    [] OTHER -> "claimed_by_viewer"

\* The view of a Tier C item reveals the decisions once there are two; the other
\* two kinds show the viewer's own, an escalated item not before there are two.
WireView(o, r) ==
  LET visible == VisibleReviews(o, r)
      authors == {review.reviewer : review \in visible}
  IN CASE itemTier[o] = "B" ->
            [kind |-> "tier_b", status |-> "none", shows |-> authors \cap {r}]
       [] itemTier[o] = "ESCALATE" ->
            [kind |-> "escalate", status |-> "none",
             shows |-> IF Cardinality(visible) >= 2 THEN authors \cap {r} ELSE {}]
       [] OTHER ->
            [kind |-> "tier_c", status |-> TierCStatus(o, r),
             shows |-> IF TierCStatus(o, r) = "resolved" THEN authors ELSE {}]

\* unavailableReviewGate: the placeholder of a read that failed.
UnavailableView(o) ==
  [kind |-> CASE itemTier[o] = "B" -> "tier_b" [] itemTier[o] = "C" -> "tier_c" [] OTHER -> "escalate",
   status |-> IF itemTier[o] = "C" THEN "unclaimed" ELSE "none", shows |-> {}]

(***************************************************************************)
(* The page (ItemDetailClient) and the route that fills it.                *)
(***************************************************************************)
Idle(t) == call[t].at = "none"
Busy(t, at) == call' = [call EXCEPT ![t].at = at]
Rest(t) == call' = [call EXCEPT ![t] = [NoCall EXCEPT !.n = call[t].n]]

Load(t, o) ==
  /\ Idle(t)
  /\ page' = [page EXCEPT ![t] = [NoPage EXCEPT !.o = o]]
  /\ Busy(t, "detail")
  /\ UNCHANGED <<serverVars, told, losses>>

\* An item that is not in review any more is answered with 404.
ReadDetail(t) ==
  /\ call[t].at = "detail"
  /\ IF page[t].o \in ended
     THEN page' = [page EXCEPT ![t] = NoPage] /\ Rest(t)
     ELSE UNCHANGED page /\ Busy(t, "gate")
  /\ UNCHANGED <<serverVars, told, losses>>

ReadGateView(t) ==
  LET o == page[t].o
  IN /\ call[t].at = "gate"
     /\ page' = [page EXCEPT ![t].view = WireView(o, ReviewerOf[t]), ![t].unavailable = FALSE]
     /\ Rest(t)
     /\ UNCHANGED <<serverVars, told, losses>>

GateUnavailable(t) ==
  /\ call[t].at = "gate"
  /\ losses < MaxLost
  /\ losses' = losses + 1
  /\ page' = [page EXCEPT ![t].view = UnavailableView(page[t].o), ![t].unavailable = TRUE]
  /\ Rest(t)
  /\ UNCHANGED <<serverVars, told>>

(***************************************************************************)
(* SignOffPanel.                                                           *)
(***************************************************************************)
\* There is a form only before the viewer has decided.
OffersForm(v) ==
  \/ v.kind = "tier_c" /\ v.status \in {"unclaimed", "claimed_by_viewer"}
  \/ v.kind \in {"tier_b", "escalate"} /\ v.shows = {}

NeedsClaimFirst(v) == v.kind = "tier_c" /\ v.status = "unclaimed"

ActionsFor(v) == IF v.kind = "escalate" THEN {"escalate_to_tier_c", "reject"} ELSE {"approve", "reject"}

OpenPanel(t) ==
  /\ Idle(t) /\ ~page[t].open
  /\ OffersForm(page[t].view) /\ ~NeedsClaimFirst(page[t].view)
  /\ page' = [page EXCEPT ![t].open = TRUE]
  /\ UNCHANGED <<serverVars, call, told, losses>>

ClaimThenOpen(t) ==
  /\ Idle(t) /\ ~page[t].open
  /\ OffersForm(page[t].view) /\ NeedsClaimFirst(page[t].view)
  /\ Busy(t, "claim")
  /\ UNCHANGED <<serverVars, page, told, losses>>

SubmitDecision(t, decision, rationale) ==
  /\ Idle(t) /\ page[t].open /\ ~page[t].unavailable
  /\ decision \in ActionsFor(page[t].view)
  /\ page[t].view.kind # "tier_b" => rationale
  /\ call[t].n < MaxRequests
  /\ call' = [call EXCEPT ![t] = [NoCall EXCEPT !.at = "decision", !.decision = decision,
                                               !.rationale = rationale, !.n = call[t].n + 1]]
  /\ UNCHANGED <<serverVars, page, told, losses>>

(***************************************************************************)
(* POST .../claim.                                                         *)
(***************************************************************************)
CheckClaim(t) ==
  /\ call[t].at = "claim"
  /\ IF page[t].o \in ended \/ itemTier[page[t].o] # "C" THEN Rest(t) ELSE Busy(t, "claim_call")
  /\ UNCHANGED <<serverVars, page, told, losses>>

FreeSlot(o, r) ==
  CASE taken[o].maker = None -> "maker"
    [] taken[o].maker \notin {None, r} /\ taken[o].checker = None -> "checker"
    [] OTHER -> None

HandleClaim(t) ==
  LET o == page[t].o
      r == ReviewerOf[t]
  IN /\ call[t].at = "claim_call"
     /\ IF FreeSlot(o, r) = None
        THEN UNCHANGED taken /\ call' = [call EXCEPT ![t].at = "claim_answer", ![t].answer = "SLOT_UNAVAILABLE"]
        ELSE /\ taken' = [taken EXCEPT ![o][FreeSlot(o, r)] = r]
             /\ call' = [call EXCEPT ![t].at = "claim_answer", ![t].answer = "ok"]
     /\ UNCHANGED <<itemTier, ended, recorded, entries, engine, makerOf, indexStep, handling, repeated, page, told, losses>>

Opens(answer) == answer = "ok"

\* The panel opens on success; a refusal leaves the page as it was.
ClaimAnswered(t) ==
  /\ call[t].at = "claim_answer"
  /\ page' = [page EXCEPT ![t].open = Opens(call[t].answer)]
  /\ Rest(t)
  /\ UNCHANGED <<serverVars, told, losses>>

(***************************************************************************)
(* POST .../decisions.                                                     *)
(***************************************************************************)
Tell(t, says) == told' = [told EXCEPT ![t] = [n |-> call[t].n, says |-> says]]

\* The route refuses an item no longer in review and the two actions that are
\* not decisions; a decision goes on to the run.
CheckDecision(t) ==
  LET o == page[t].o
      c == call[t]
      allowed == /\ o \notin ended
                 /\ c.decision # "escalate_to_tier_c"
                 /\ ~(c.decision = "approve" /\ itemTier[o] = "ESCALATE")
                 /\ itemTier[o] # "B" => c.rationale
  IN /\ c.at = "decision"
     /\ IF allowed THEN Busy(t, "run_ref") /\ UNCHANGED told ELSE Rest(t) /\ Tell(t, "refused")
     /\ UNCHANGED <<serverVars, page, losses>>

\* The step of the suspended run is looked up, and the decision sent to the run.
HandleRunRef(t) ==
  LET step == indexStep[page[t].o]
      request == <<t, call[t].n>>
  IN /\ call[t].at = "run_ref"
     /\ IF step = "none"
        THEN Rest(t) /\ Tell(t, "refused") /\ UNCHANGED handling
        ELSE /\ call' = [call EXCEPT ![t] = [NoCall EXCEPT !.at = "resume", !.n = call[t].n]]
             /\ handling' = [handling EXCEPT ![request] = [NoHandler EXCEPT !.at = "sent", !.o = page[t].o, !.step = step]]
             /\ UNCHANGED told
     /\ UNCHANGED <<runVars, repeated, page, losses>>

SaysRefused(answer) == IF answer = "ok" THEN "recorded" ELSE "refused"  \* mutation: a failure counts as a refusal

\* A refusal is passed on with its status, and so is the server's failure.
Says(answer) ==
  CASE answer = "ok" -> "recorded"
    [] answer \in Refusals -> "refused"
    [] OTHER -> "failed"

\* The panel closes and the page is loaded anew once the decision is recorded.
DecisionAnswered(t) ==
  LET handler == handling[<<t, call[t].n>>]
  IN /\ call[t].at = "resume" /\ handler.at = "answered"
     /\ Tell(t, Says(handler.answer))
     /\ IF handler.answer = "ok"
        THEN page' = [page EXCEPT ![t].open = FALSE] /\ Busy(t, "detail")
        ELSE UNCHANGED page /\ Rest(t)
     /\ UNCHANGED <<serverVars, losses>>

\* The request or its answer does not arrive: 502, or a network error in the
\* browser.  Either way the reviewer is asked to try again; the server may still
\* get the request, and does not know that nobody waits.
Lost(t) ==
  /\ call[t].at \in {"claim_call", "claim_answer", "run_ref", "resume"}
  /\ losses < MaxLost
  /\ losses' = losses + 1
  /\ Rest(t)
  /\ IF call[t].at \in {"run_ref", "resume"} THEN Tell(t, "retry") ELSE UNCHANGED told
  /\ UNCHANGED <<serverVars, page>>

ConsoleNext ==
  \/ \E t \in Tabs, o \in Obligations : Load(t, o)
  \/ \E t \in Tabs, d \in PanelDecisions, rationale \in BOOLEAN : SubmitDecision(t, d, rationale)
  \/ \E t \in Tabs :
       \/ ReadDetail(t) \/ ReadGateView(t) \/ GateUnavailable(t)
       \/ OpenPanel(t) \/ ClaimThenOpen(t) \/ CheckClaim(t) \/ HandleClaim(t) \/ ClaimAnswered(t)
       \/ CheckDecision(t) \/ HandleRunRef(t) \/ DecisionAnswered(t) \/ Lost(t)
  \/ \E e \in Requests :
       \/ HandleResume(e) \/ CheckStep(e) \/ CheckAssignment(e) \/ ReadReviews(e)
       \/ WriteReview(e) \/ AppendLedgerEntry(e) \/ ResumeEngine(e)
       \/ Resuspend(e) \/ CommitDecision(e) \/ ClearIndex(e) \/ HandlerFails(e)

ConsoleSpec == ConsoleInit /\ [][ConsoleNext]_consoleVars

(***************************************************************************)
(* Properties.                                                             *)
(***************************************************************************)
IsRecorded(e) == \E o \in Obligations : \E review \in recorded[o] : review.event = e

\* A tab that says a decision was recorded is right about that very request: its
\* review is in the graph and in the ledger, and the run has left the step.  A
\* decision a tab says was refused, with a code of its own, is not recorded and
\* never will be.  An error of the server and a lost answer say neither: the
\* decision may be recorded.
AnswersAreTrue ==
  \A t \in Tabs :
    LET e == <<t, told[t].n>>
    IN /\ told[t].says = "recorded" =>
            IsRecorded(e) /\ e \in entries /\ engine[Ob(e)] # handling[e].step
       /\ told[t].says = "refused" => ~IsRecorded(e)

\* Whoever tries again once their review is recorded does not get a second one
\* recorded, whatever the answer to the first was.  (Two requests of one reviewer
\* that the server works on at once may both be recorded.)
RetryIsNotASecondReview == \A e \in repeated : ~IsRecorded(e)

\* No page shows a colleague's decision to a reviewer who has not decided.
PeerIsHidden ==
  \A t \in Tabs : page[t].view.shows # {} =>
    /\ ReviewerOf[t] \in page[t].view.shows
    /\ ReviewedBy(page[t].o, ReviewerOf[t])

\* What a tab says of a decision is true, a retry does no harm, and a page says
\* nothing too early.
ConsoleTellsFacts == AnswersAreTrue /\ RetryIsNotASecondReview /\ PeerIsHidden

\* "your decision was not recorded, please retry": what the route and the panel
\* say when no answer comes (decisions/route.ts:299, SignOffPanel.tsx:156).  It
\* does not hold.
NotRecordedIsTrue ==
  \A t \in Tabs : told[t].says = "retry" => ~IsRecorded(<<t, told[t].n>>)

=============================================================================
