----------------------------- MODULE ReviewGate -----------------------------
(***************************************************************************)
(* The review gate of the Workflow Orchestrator, await by await.           *)
(*                                                                         *)
(* A branch of a run routes one proposed obligation, commits it with its   *)
(* pre-review status, and either finishes (Tier A) or suspends.  Reviewers *)
(* claim slots and submit decisions from the console or from Slack; each   *)
(* submission is a handler, resumeOrchestratorRun, that yields at every    *)
(* port it calls: the suspended-run index, the engine, the audit ledger    *)
(* and the graph.  Handlers of one process interleave at those points.     *)
(*                                                                         *)
(* One variable step of pc is one await of the code.  Requests are slots   *)
(* for handlers in flight: a slot whose handler has answered is free for   *)
(* the next submission.  A branch is an actor as well, named by its        *)
(* obligation, because a Tier A branch runs finalizeCommit by itself.      *)
(***************************************************************************)
EXTENDS ReviewDomain

CONSTANTS
  Obligations,       \* proposed obligations, each on a branch of its own
  OldObligations,    \* live obligations that a proposal may overwrite
  Reviewers,         \* people who can decide
  Events,            \* event ids of submissions
  Requests,          \* slots for submissions in flight
  None,              \* the absent value
  RoutedTiers,       \* [Obligations -> SUBSET Tiers], what routing may yield
  Overwrites,        \* [Obligations -> OldObligations \cup {None}], explicit
  Disturbances,      \* the environment's misbehaviour, see below
  StrictEngine,      \* does engine.resume refuse a step not suspended?
  ConcurrentSubmits  \* may one reviewer have two submissions in flight?

(***************************************************************************)
(* throw      a port call fails without having had an effect               *)
(* ambiguous  a write takes effect and its caller sees an error            *)
(* redeliver  a submission arrives again with the same event id            *)
(* sweep      reconcileLedgerGaps runs                                     *)
(* restart    the process stops and starts                                 *)
(***************************************************************************)
DisturbanceKinds == {"throw", "ambiguous", "redeliver", "sweep", "restart"}

ASSUME ConstantsAssumption ==
  /\ Requests \cap Obligations = {}
  /\ None \notin Obligations \cup OldObligations \cup Reviewers \cup Events
  /\ RoutedTiers \in [Obligations -> SUBSET Tiers]
  /\ Overwrites \in [Obligations -> OldObligations \cup {None}]
  /\ Disturbances \subseteq DisturbanceKinds
  /\ StrictEngine \in BOOLEAN
  /\ ConcurrentSubmits \in BOOLEAN

ASSUME NoneAssumption ==
  None \notin Tiers \cup Statuses \cup ReviewOutcomes \cup FinalOutcomes \cup Steps

VARIABLES
  \* the graph
  tier,          \* the routed tier of an obligation, None before
  status,        \* Obligation.status
  reviews,       \* HumanReview nodes of an obligation
  supersededBy,  \* the new obligation that closed an old one's valid_to
  commitLog,     \* outcome committed under the branch's finalizeCommit id
  \* the audit ledger, HUMAN_REVIEW_SUBMITTED entries of an obligation
  ledger,
  \* the suspended-run index, in the memory of the process
  index,         \* the step an obligation is recorded as suspended at
  claims,        \* who holds the maker and the checker slot
  \* the workflow engine
  engineStep,    \* the step the run is suspended at
  makerOf,       \* the reviewer whose decision re-suspended the run
  \* handlers, branches and the sweep
  req,           \* what a request carries
  pc,            \* where an actor is
  seen,          \* the reviews a request read
  outcome,       \* the review outcome a request carries on
  sweep,         \* the gap the reconciliation sweep is about to fill
  \* what leaves the gate
  finalAudits,   \* outcomes announced by final audit events
  tickets        \* how often the ticketing trigger fired

graphVars  == <<tier, status, reviews, supersededBy, commitLog>>
indexVars  == <<index, claims>>
engineVars == <<engineStep, makerOf>>
outVars    == <<finalAudits, tickets>>
localVars  == <<req, seen, outcome>>
vars == <<graphVars, ledger, indexVars, engineVars, localVars, pc, sweep, outVars>>

Actors == Requests \cup Obligations

RequestRecords ==
  [event : Events, obligation : Obligations, reviewer : Reviewers,
   decision : Decisions, step : Steps]

ASSUME SlotAssumption == None \notin RequestRecords

\* A HumanReview, with the submission that wrote it; "by" tells two reviews
\* of one event apart (review_id in the code).
ReviewRecords == [request : RequestRecords, by : Requests]

\* A ledger entry; only an entry of the sweep has no outcome and no event id.
EntryRecords == [review : ReviewRecords, outcome : ReviewOutcomes \cup {None}]

NoClaims == [maker |-> None, checker |-> None]

InHandler == {"validate", "checkStep", "checkAssignment", "queryLedger",
              "readReviews", "writeReview", "appendLedger", "resume", "resuspend"}
InFinalize == {"commit", "apply", "won", "lost", "ticket", "settle"}
InBranch == {"unrouted", "suspend", "suspending", "done"}

TypeOK ==
  /\ tier \in [Obligations -> Tiers \cup {None}]
  /\ status \in [Obligations -> Statuses \cup {None}]
  /\ reviews \in [Obligations -> SUBSET ReviewRecords]
  /\ supersededBy \in [OldObligations -> Obligations \cup {None}]
  /\ commitLog \in [Obligations -> FinalOutcomes \cup {None}]
  /\ ledger \in [Obligations -> SUBSET EntryRecords]
  /\ index \in [Obligations -> Steps \cup {None}]
  /\ claims \in [Obligations -> [maker : Reviewers \cup {None},
                                 checker : Reviewers \cup {None}]]
  /\ engineStep \in [Obligations -> Steps \cup {None}]
  /\ makerOf \in [Obligations -> Reviewers \cup {None}]
  /\ req \in [Requests -> RequestRecords \cup {None}]
  /\ pc \in [Actors -> InHandler \cup InFinalize \cup InBranch \cup {"idle"}]
  /\ seen \in [Requests -> SUBSET ReviewRecords]
  /\ outcome \in [Requests -> ReviewOutcomes \cup {None}]
  /\ sweep \in (Obligations \X ReviewRecords) \cup {None}
  /\ finalAudits \in [Obligations -> SUBSET FinalOutcomes]
  /\ tickets \in [Obligations -> Nat]

Init ==
  /\ tier = [o \in Obligations |-> None]
  /\ status = [o \in Obligations |-> None]
  /\ reviews = [o \in Obligations |-> {}]
  /\ supersededBy = [x \in OldObligations |-> None]
  /\ commitLog = [o \in Obligations |-> None]
  /\ ledger = [o \in Obligations |-> {}]
  /\ index = [o \in Obligations |-> None]
  /\ claims = [o \in Obligations |-> NoClaims]
  /\ engineStep = [o \in Obligations |-> None]
  /\ makerOf = [o \in Obligations |-> None]
  /\ req = [q \in Requests |-> None]
  /\ pc = [a \in Actors |-> IF a \in Requests THEN "idle" ELSE "unrouted"]
  /\ seen = [q \in Requests |-> {}]
  /\ outcome = [q \in Requests |-> None]
  /\ sweep = None
  /\ finalAudits = [o \in Obligations |-> {}]
  /\ tickets = [o \in Obligations |-> 0]

Disturbed(kind) == kind \in Disturbances

(***************************************************************************)
(* A handler that has answered, whatever the answer, frees its slot.       *)
(***************************************************************************)
Answer(q) ==
  /\ req' = [req EXCEPT ![q] = None]
  /\ pc' = [pc EXCEPT ![q] = "idle"]
  /\ seen' = [seen EXCEPT ![q] = {}]
  /\ outcome' = [outcome EXCEPT ![q] = None]

Refuse(q) ==
  /\ Answer(q)
  /\ UNCHANGED <<graphVars, ledger, indexVars, engineVars, sweep, outVars>>

Goto(a, label) == pc' = [pc EXCEPT ![a] = label]

-----------------------------------------------------------------------------
(* The branch: route, commit before review, suspend.                       *)

RouteAndPreCommit(o) ==
  /\ pc[o] = "unrouted"
  /\ \E t \in RoutedTiers[o] :
       /\ tier' = [tier EXCEPT ![o] = t]
       /\ status' = [status EXCEPT ![o] = PreReviewStatus(t)]
       /\ \/ Goto(o, IF t = "A" THEN "commit" ELSE "suspend")
          \/ Disturbed("ambiguous") /\ Goto(o, "done")
  /\ UNCHANGED <<reviews, supersededBy, commitLog, ledger, indexVars,
                 engineVars, localVars, sweep, outVars>>

RecordSuspension(o) ==
  /\ pc[o] = "suspend"
  /\ index' = [index EXCEPT ![o] = "awaitHumanReview"]
  /\ Goto(o, "suspending")
  /\ UNCHANGED <<graphVars, ledger, claims, engineVars, localVars, sweep, outVars>>

Suspend(o) ==
  /\ pc[o] = "suspending"
  /\ engineStep' = [engineStep EXCEPT ![o] = "awaitHumanReview"]
  /\ Goto(o, "done")
  /\ UNCHANGED <<graphVars, ledger, indexVars, makerOf, localVars, sweep, outVars>>

-----------------------------------------------------------------------------
(* The surfaces.                                                           *)

(***************************************************************************)
(* InMemorySuspendedRunIndex.claim, synchronous and thus atomic.  It asks  *)
(* nothing about the run; that only a Tier C item can be claimed is the    *)
(* rule of the two surfaces that call it.                                  *)
(***************************************************************************)
Claim(o, r) ==
  /\ tier[o] = "C"
  /\ \/ /\ claims[o].maker = None
        /\ claims' = [claims EXCEPT ![o].maker = r]
     \/ /\ claims[o].maker \notin {None, r}
        /\ claims[o].checker = None
        /\ claims' = [claims EXCEPT ![o].checker = r]
  /\ UNCHANGED <<graphVars, ledger, index, engineVars, localVars, pc, sweep, outVars>>

InFlight(o, r) ==
  \E q \in Requests : /\ req[q] # None
                      /\ req[q].obligation = o
                      /\ req[q].reviewer = r

\* randomUUID(): an id of no submission in flight and of none that left a trace.
Fresh(e) ==
  /\ \A q \in Requests : req[q] # None => req[q].event # e
  /\ \A o \in Obligations : \A rev \in reviews[o] : rev.request.event # e

AllowedDecisions(t) == IF t = "ESCALATE" THEN {"reject"} ELSE Decisions

Deliver(q, request) ==
  /\ pc[q] = "idle"
  /\ req' = [req EXCEPT ![q] = request]
  /\ Goto(q, "validate")
  /\ UNCHANGED <<graphVars, ledger, indexVars, engineVars, seen, outcome,
                 sweep, outVars>>

(***************************************************************************)
(* A reviewer decides: the surface looks up the run and its step and posts *)
(* them with a fresh event id.                                             *)
(***************************************************************************)
Submit(q, o, r) ==
  /\ index[o] # None
  /\ ConcurrentSubmits \/ ~InFlight(o, r)
  /\ \E e \in Events, d \in AllowedDecisions(tier[o]) :
       /\ Fresh(e)
       /\ Deliver(q, [event |-> e, obligation |-> o, reviewer |-> r,
                      decision |-> d, step |-> index[o]])

\* The same submission once more: of one in flight, or of one that left a review.
Redeliver(q) ==
  /\ Disturbed("redeliver")
  /\ \/ \E p \in Requests : req[p] # None /\ Deliver(q, req[p])
     \/ \E o \in Obligations : \E rev \in reviews[o] : Deliver(q, rev.request)

-----------------------------------------------------------------------------
(* The handler, resumeOrchestratorRun with recordHumanReview inside it.    *)

Ob(a) == IF a \in Obligations THEN a ELSE req[a].obligation

Unchanged_Reading ==
  UNCHANGED <<graphVars, ledger, indexVars, engineVars, req, sweep, outVars>>

(***************************************************************************)
(* The envelope must name the step the index has the obligation at.        *)
(***************************************************************************)
Validate(q) ==
  /\ pc[q] = "validate"
  /\ IF index[Ob(q)] = req[q].step
     THEN Goto(q, "checkStep") /\ Unchanged_Reading /\ UNCHANGED <<seen, outcome>>
     ELSE Refuse(q)

(***************************************************************************)
(* The engine must be suspended there; otherwise the event is taken for a  *)
(* replay and answered with resumed: false.                                *)
(***************************************************************************)
CheckStep(q) ==
  /\ pc[q] = "checkStep"
  /\ IF engineStep[Ob(q)] = req[q].step
     THEN Goto(q, "checkAssignment") /\ Unchanged_Reading /\ UNCHANGED <<seen, outcome>>
     ELSE Refuse(q)

(***************************************************************************)
(* The maker cannot be the checker, and at a dual-review tier the reviewer *)
(* must hold the slot of the step.  Of the two reads the maker's is of     *)
(* what does not change while the step lasts, so they are one step here.   *)
(***************************************************************************)
SlotOf(o, step) ==
  IF step = "awaitHumanReview" THEN claims[o].maker ELSE claims[o].checker

HoldsMakerSlot(q) == req[q].reviewer = claims[Ob(q)].maker  \* mutation: the step is ignored

HoldsAnySlot(q) == TRUE  \* mutation: the claim is not checked

HoldsSlot(q) == req[q].reviewer = SlotOf(Ob(q), req[q].step)

Assigned(q) ==
  /\ req[q].step = "awaitSecondHumanReview" => makerOf[Ob(q)] # req[q].reviewer
  /\ WireTier(tier[Ob(q)]) = "C" => HoldsSlot(q)

CheckAssignment(q) ==
  /\ pc[q] = "checkAssignment"
  /\ IF Assigned(q)
     THEN Goto(q, "queryLedger") /\ Unchanged_Reading /\ UNCHANGED <<seen, outcome>>
     ELSE Refuse(q)

(***************************************************************************)
(* recordHumanReview's idempotency: an entry with this event id answers    *)
(* for the whole call.                                                     *)
(***************************************************************************)
EntriesOf(o, e) ==
  {entry \in ledger[o] : entry.outcome # None /\ entry.review.request.event = e}

QueryLedger(q) ==
  /\ pc[q] = "queryLedger"
  /\ IF EntriesOf(Ob(q), req[q].event) = {}
     THEN Goto(q, "readReviews") /\ UNCHANGED outcome
     ELSE /\ \E entry \in EntriesOf(Ob(q), req[q].event) :
               outcome' = [outcome EXCEPT ![q] = entry.outcome]
          /\ Goto(q, "resume")
  /\ Unchanged_Reading
  /\ UNCHANGED seen

MayReviewTwice(q) ==  \* mutation: only the number of reviews is checked
  Cardinality(reviews[Ob(q)]) < RequiredReviewCount(WireTier(tier[Ob(q)]))

(***************************************************************************)
(* SameReviewerNotAllowedError and ReviewAlreadyCompleteError, decided on  *)
(* what is read here and acted upon in the next step.                      *)
(***************************************************************************)
MayReview(q) ==
  /\ \A rev \in reviews[Ob(q)] : rev.request.reviewer # req[q].reviewer
  /\ Cardinality(reviews[Ob(q)]) < RequiredReviewCount(WireTier(tier[Ob(q)]))

ReadReviews(q) ==
  /\ pc[q] = "readReviews"
  /\ IF MayReview(q)
     THEN /\ seen' = [seen EXCEPT ![q] = reviews[Ob(q)]]
          /\ Goto(q, "writeReview")
          /\ Unchanged_Reading
          /\ UNCHANGED outcome
     ELSE Refuse(q)

NewReview(q) == [request |-> req[q], by |-> q]

\* The review node and its REVIEWED_BY edge, under a proposal id of its own.
WriteReview(q) ==
  /\ pc[q] = "writeReview"
  /\ reviews' = [reviews EXCEPT ![Ob(q)] = @ \cup {NewReview(q)}]
  /\ \/ Goto(q, "appendLedger") /\ UNCHANGED localVars
     \/ Disturbed("ambiguous") /\ Answer(q)
  /\ UNCHANGED <<tier, status, supersededBy, commitLog, ledger, indexVars,
                 engineVars, sweep, outVars>>

(***************************************************************************)
(* The outcome is computed from the reviews read before the write and the  *)
(* new one, not from the reviews that are there now.                       *)
(***************************************************************************)
OutcomeOf(q) ==
  ComputeReviewOutcome(WireTier(tier[Ob(q)]),
                       {rev.request : rev \in seen[q]}, req[q].decision)

AppendLedgerAndGoOn(q) ==  \* mutation: a failed append does not stop the handler
  /\ pc[q] = "appendLedger"
  /\ \/ ledger' = [ledger EXCEPT ![Ob(q)] =
                     @ \cup {[review |-> NewReview(q), outcome |-> OutcomeOf(q)]}]
     \/ UNCHANGED ledger
  /\ outcome' = [outcome EXCEPT ![q] = OutcomeOf(q)]
  /\ Goto(q, "resume")
  /\ UNCHANGED <<graphVars, indexVars, engineVars, req, seen, sweep, outVars>>

AppendLedger(q) ==
  /\ pc[q] = "appendLedger"
  /\ ledger' = [ledger EXCEPT ![Ob(q)] =
                  @ \cup {[review |-> NewReview(q), outcome |-> OutcomeOf(q)]}]
  /\ \/ /\ outcome' = [outcome EXCEPT ![q] = OutcomeOf(q)]
        /\ Goto(q, "resume")
        /\ UNCHANGED <<req, seen>>
     \/ Disturbed("ambiguous") /\ Answer(q)
  /\ UNCHANGED <<graphVars, indexVars, engineVars, sweep, outVars>>

-----------------------------------------------------------------------------
(* The engine: suspend again for the checker, or finalize.                 *)

EngineTakesAny(q) == FALSE  \* mutation: a step can be resumed twice

EngineRefuses(q) == StrictEngine /\ engineStep[Ob(q)] # req[q].step

(***************************************************************************)
(* engine.resume.  A strict engine takes a suspended step exactly once;    *)
(* the other keeps the step recorded until the resumed work is over, as    *)
(* the engine of the integration tests does.                               *)
(***************************************************************************)
Resume(q) ==
  /\ pc[q] = "resume"
  /\ LET o == Ob(q)
     IN IF EngineRefuses(q)
        THEN Refuse(q)
        ELSE /\ engineStep' = IF StrictEngine
                              THEN [engineStep EXCEPT ![o] = None]
                              ELSE engineStep
             /\ IF outcome[q] = "AWAITING_SECOND_REVIEWER"
                THEN /\ makerOf' = [makerOf EXCEPT ![o] = req[q].reviewer]
                     /\ index' = [index EXCEPT ![o] = "awaitSecondHumanReview"]
                     /\ Goto(q, "resuspend")
                ELSE /\ Goto(q, "commit")
                     /\ UNCHANGED <<makerOf, index>>
             /\ UNCHANGED <<graphVars, ledger, claims, localVars, sweep, outVars>>

Resuspend(q) ==
  /\ pc[q] = "resuspend"
  /\ engineStep' = [engineStep EXCEPT ![Ob(q)] = "awaitSecondHumanReview"]
  /\ Answer(q)
  /\ UNCHANGED <<graphVars, ledger, indexVars, makerOf, sweep, outVars>>

-----------------------------------------------------------------------------
(* finalizeCommit, run by a handler or by a Tier A branch.                 *)

FinalOf(a) == IF a \in Obligations THEN "tier_a" ELSE FinalOutcomeOf(outcome[a])

\* buildFinalizeCommitPlan returns null: the pre-review commit was final.
NothingToCommit(a) == a \in Obligations /\ Overwrites[a] = None

ClosesAlways(a) == Overwrites[Ob(a)] # None  \* mutation: a rejected one closes too

Closes(a) == Binding(FinalOf(a)) /\ Overwrites[Ob(a)] # None

\* An actor leaves: a handler answers, a branch is over.
Leave(a) ==
  IF a \in Requests
  THEN Answer(a)
  ELSE Goto(a, "done") /\ UNCHANGED localVars

\* The guard of finalizeSupersession: WHERE old.valid_to IS NULL.
AssumedLive(x) == TRUE  \* mutation: the guard is missing

StillLive(x) == supersededBy[x] = None

CheckCommitLogAuditFirst(a) ==  \* mutation: the final audit precedes the commit
  /\ pc[a] = "commit"
  /\ finalAudits' = [finalAudits EXCEPT ![Ob(a)] = @ \cup {FinalOf(a)}]
  /\ Goto(a, IF NothingToCommit(a) \/ commitLog[Ob(a)] # None
             THEN "won" ELSE "apply")
  /\ UNCHANGED <<graphVars, ledger, indexVars, engineVars, localVars, sweep, tickets>>

\* GraphWriter answers from CommitLog when the proposal id is already there.
CheckCommitLog(a) ==
  /\ pc[a] = "commit"
  /\ Goto(a, IF NothingToCommit(a) \/ commitLog[Ob(a)] # None
             THEN "won" ELSE "apply")
  /\ UNCHANGED <<graphVars, ledger, indexVars, engineVars, localVars, sweep, outVars>>

(***************************************************************************)
(* The writes of the transaction: the status transition, the guarded close *)
(* of the old obligation and the CommitLog marker.  Nothing makes proposal *)
(* ids unique, so a second transaction that read CommitLog before the      *)
(* first one ended writes as well; MERGE keeps the first marker.           *)
(***************************************************************************)
ApplyCommit(a) ==
  /\ pc[a] = "apply"
  /\ LET o == Ob(a)
     IN /\ commitLog' = [commitLog EXCEPT ![o] = IF @ = None THEN FinalOf(a) ELSE @]
        /\ status' = [status EXCEPT ![o] = FinalStatus(FinalOf(a))]
        /\ IF Closes(a)
           THEN /\ StillLive(Overwrites[o])
                /\ supersededBy' = [supersededBy EXCEPT ![Overwrites[o]] = o]
           ELSE UNCHANGED supersededBy
  /\ \/ Goto(a, "won") /\ UNCHANGED localVars
     \/ Disturbed("ambiguous") /\ Leave(a)
  /\ UNCHANGED <<tier, reviews, ledger, indexVars, engineVars, sweep, outVars>>

\* ConflictError: the old obligation is closed already; all is rolled back.
ConflictCommit(a) ==
  /\ pc[a] = "apply"
  /\ Closes(a)
  /\ ~StillLive(Overwrites[Ob(a)])
  /\ Goto(a, "lost")
  /\ UNCHANGED <<graphVars, ledger, indexVars, engineVars, localVars, sweep, outVars>>

ClearClaims(o) ==  \* mutation: clear forgets the run itself
  /\ claims' = [claims EXCEPT ![o] = NoClaims]
  /\ UNCHANGED index

ClearIndex(o) ==
  /\ index' = [index EXCEPT ![o] = None]
  /\ claims' = [claims EXCEPT ![o] = NoClaims]

\* emitFinalAudit, then index.clear unless there was nothing to commit.
AnnounceWin(a) ==
  /\ pc[a] = "won"
  /\ finalAudits' = [finalAudits EXCEPT ![Ob(a)] = @ \cup {FinalOf(a)}]
  /\ IF NothingToCommit(a) THEN UNCHANGED indexVars ELSE ClearIndex(Ob(a))
  /\ Goto(a, IF Binding(FinalOf(a)) THEN "ticket" ELSE "settle")
  /\ UNCHANGED <<graphVars, ledger, engineVars, localVars, sweep, tickets>>

\* The loser of a conflict is forgotten; its status stays what it was.
AnnounceLoss(a) ==
  /\ pc[a] = "lost"
  /\ ClearIndex(Ob(a))
  /\ Goto(a, "settle")
  /\ UNCHANGED <<graphVars, ledger, engineVars, localVars, sweep, outVars>>

\* fireTicketingTrigger; an error of the trigger is logged and swallowed.
FireTicket(a) ==
  /\ pc[a] = "ticket"
  /\ \/ tickets' = [tickets EXCEPT ![Ob(a)] = @ + 1]
     \/ Disturbed("throw") /\ UNCHANGED tickets
  /\ Goto(a, "settle")
  /\ UNCHANGED <<graphVars, ledger, indexVars, engineVars, localVars, sweep, finalAudits>>

\* The engine has nothing left to run for this branch.
Settle(a) ==
  /\ pc[a] = "settle"
  /\ engineStep' = [engineStep EXCEPT ![Ob(a)] = None]
  /\ Leave(a)
  /\ UNCHANGED <<graphVars, ledger, indexVars, makerOf, sweep, outVars>>

-----------------------------------------------------------------------------
(* The environment.                                                        *)

\* A handler calls the audit log before it resumes and after it committed.
PortCalls == {"queryLedger", "readReviews", "writeReview", "appendLedger", "resume",
              "apply", "won", "lost"}

\* A port call fails and nothing happened: the error reaches the caller.
Throw(a) ==
  /\ Disturbed("throw")
  /\ pc[a] \in PortCalls
  /\ Leave(a)
  /\ UNCHANGED <<graphVars, ledger, indexVars, engineVars, sweep, outVars>>

(***************************************************************************)
(* reconcileLedgerGaps: a review without an entry is found, and later an   *)
(* entry without event id and outcome is appended for it.                  *)
(***************************************************************************)
FindGap ==
  /\ Disturbed("sweep")
  /\ sweep = None
  /\ \E o \in Obligations : \E rev \in reviews[o] :
       /\ \A entry \in ledger[o] : entry.review # rev
       /\ sweep' = <<o, rev>>
  /\ UNCHANGED <<graphVars, ledger, indexVars, engineVars, localVars, pc, outVars>>

FillGap ==
  /\ sweep # None
  /\ ledger' = [ledger EXCEPT ![sweep[1]] =
                  @ \cup {[review |-> sweep[2], outcome |-> None]}]
  /\ sweep' = None
  /\ UNCHANGED <<graphVars, indexVars, engineVars, localVars, pc, outVars>>

(***************************************************************************)
(* The process stops: what is in its memory is gone, the in-memory index   *)
(* included.  The graph, the ledger and the engine's runs are outside.     *)
(***************************************************************************)
Restart ==
  /\ Disturbed("restart")
  /\ index' = [o \in Obligations |-> None]
  /\ claims' = [o \in Obligations |-> NoClaims]
  /\ req' = [q \in Requests |-> None]
  /\ seen' = [q \in Requests |-> {}]
  /\ outcome' = [q \in Requests |-> None]
  /\ pc' = [a \in Actors |-> IF a \in Requests THEN "idle"
                             ELSE IF pc[a] = "unrouted" THEN "unrouted" ELSE "done"]
  /\ sweep' = None
  /\ UNCHANGED <<graphVars, ledger, engineVars, outVars>>

-----------------------------------------------------------------------------

Branch(o) == RouteAndPreCommit(o) \/ RecordSuspension(o) \/ Suspend(o)

Handle(q) ==
  \/ Validate(q) \/ CheckStep(q) \/ CheckAssignment(q)
  \/ QueryLedger(q) \/ ReadReviews(q) \/ WriteReview(q) \/ AppendLedger(q)
  \/ Resume(q) \/ Resuspend(q)

Finalize(a) ==
  \/ CheckCommitLog(a) \/ ApplyCommit(a) \/ ConflictCommit(a)
  \/ AnnounceWin(a) \/ AnnounceLoss(a) \/ FireTicket(a) \/ Settle(a)

Surface(o, r) == Claim(o, r) \/ \E q \in Requests : Submit(q, o, r)

Next ==
  \/ \E o \in Obligations : Branch(o)
  \/ \E q \in Requests : Handle(q)
  \/ \E a \in Actors : Finalize(a)
  \/ \E o \in Obligations, r \in Reviewers : Surface(o, r)
  \/ \E q \in Requests : Redeliver(q)
  \/ \E a \in Actors : Throw(a)
  \/ FindGap \/ FillGap
  \/ Restart

Spec == Init /\ [][Next]_vars

(***************************************************************************)
(* The event loop runs what is ready, and people do not walk away: a       *)
(* reviewer who may claim does, and one who can submit again and again     *)
(* submits in the end.  Nothing is assumed of what they decide.            *)
(***************************************************************************)
Fairness ==
  /\ \A o \in Obligations : WF_vars(Branch(o))
  /\ \A q \in Requests : WF_vars(Handle(q))
  /\ \A a \in Actors : WF_vars(Finalize(a))
  /\ \A o \in Obligations, r \in Reviewers :
       /\ WF_vars(Claim(o, r))
       /\ SF_vars(\E q \in Requests : Submit(q, o, r))

FairSpec == Spec /\ Fairness

-----------------------------------------------------------------------------
(* Properties.                                                             *)

\* o's reviews contain the agreement its tier asks for on decision d.
AgreedOn(o, d) ==
  IF RequiresSecondReview(tier[o])
  THEN \E r1, r2 \in reviews[o] :
         /\ r1.request.reviewer # r2.request.reviewer
         /\ r1.request.decision = d
         /\ r2.request.decision = d
  ELSE \E rev \in reviews[o] : rev.request.decision = d

\* Two people do not agree on o, and its tier asks for two.
DisagreedOn(o) ==
  /\ tier[o] # "B"
  /\ \E r1, r2 \in reviews[o] :
       /\ r1.request.reviewer # r2.request.reviewer
       /\ r1.request.decision = "approve"
       /\ r2.request.decision = "reject"

(***************************************************************************)
(* Why the two invariants below hold, step by step: what a handler has     *)
(* read is still there and by others, what it has written is there, what   *)
(* it carries to the engine is justified by reviews and recorded in the    *)
(* ledger, and nothing of this can precede the routing that fixes which    *)
(* agreement the tier asks for.                                            *)
(***************************************************************************)
Supports(o, reviewOutcome) ==
  /\ reviewOutcome = "APPROVED" => AgreedOn(o, "approve")
  /\ reviewOutcome = "REJECTED" => AgreedOn(o, "reject")
  /\ reviewOutcome = "ESCALATED_DISAGREEMENT" => DisagreedOn(o)

ReadsStand ==
  \A q \in Requests : pc[q] \in {"writeReview", "appendLedger"} =>
    \A rev \in seen[q] : /\ rev \in reviews[Ob(q)]
                         /\ rev.request.reviewer # req[q].reviewer

WritesStand ==
  \A q \in Requests : pc[q] = "appendLedger" => NewReview(q) \in reviews[Ob(q)]

OutcomesAreJustified ==
  \A q \in Requests : pc[q] \in {"resume"} \cup InFinalize =>
    /\ Supports(Ob(q), outcome[q])
    /\ \E e \in ledger[Ob(q)] : e.outcome = outcome[q]

EntriesAreJustified ==
  \A o \in Obligations : \A e \in ledger[o] : e.review \in reviews[o] /\ Supports(o, e.outcome)

GapIsReal == sweep # None => sweep[2] \in reviews[sweep[1]]

ReviewsBelong ==
  \A o \in Obligations : \A rev \in reviews[o] : rev.request.obligation = o

NothingBeforeRouting ==
  \A o \in Obligations : pc[o] = "unrouted" =>
    /\ status[o] = None /\ index[o] = None
    /\ reviews[o] = {} /\ ledger[o] = {}
    /\ \A q \in Requests : req[q] # None => req[q].obligation # o

(***************************************************************************)
(* What is committed was approved, and what is rejected was rejected, by   *)
(* one reviewer at Tier B and by two different ones at Tier C, whatever    *)
(* fails, repeats or overlaps.  The reads that computeReviewOutcome relies *)
(* on are several awaits older than the commit they justify.               *)
(***************************************************************************)
DecisionsAreAgreed ==
  \A o \in Obligations :
    /\ status[o] = "committed" => AgreedOn(o, "approve")
    /\ status[o] = "rejected"  => AgreedOn(o, "reject")

(***************************************************************************)
(* FR-21a across the stores: a decision in the graph has its entry in the  *)
(* audit ledger, with the outcome that was acted upon, and an entry has    *)
(* its review in the graph.                                                *)
(***************************************************************************)
LedgerExplainsGraph ==
  \A o \in Obligations :
    /\ status[o] = "committed" => \E e \in ledger[o] : e.outcome = "APPROVED"
    /\ status[o] = "rejected"  => \E e \in ledger[o] : e.outcome = "REJECTED"
    /\ \A e \in ledger[o] : e.review \in reviews[o]

(***************************************************************************)
(* Both, with the reasons for them: everything between the read of the     *)
(* reviews and the commit rests on reviews and entries that are there.     *)
(***************************************************************************)
DecisionBasis ==
  /\ ReadsStand /\ WritesStand /\ OutcomesAreJustified /\ EntriesAreJustified
  /\ GapIsReal /\ ReviewsBelong /\ NothingBeforeRouting
  /\ DecisionsAreAgreed /\ LedgerExplainsGraph

(***************************************************************************)
(* A step that finds the finalize commit in CommitLog changes neither the  *)
(* status nor the supersession any more: a late second decision loses.     *)
(***************************************************************************)
DecisionIsFinal ==
  [][\A o \in Obligations : commitLog[o] # None => status'[o] = status[o]]_vars

(***************************************************************************)
(* An old obligation is closed exactly by the binding obligation that      *)
(* overwrites it: never by a rejected or an undecided one, and a binding   *)
(* one never leaves it open.                                               *)
(***************************************************************************)
SupersessionIsExact ==
  \A o \in Obligations, x \in OldObligations :
    supersededBy[x] = o <=> /\ Overwrites[o] = x
                            /\ commitLog[o] \in {"tier_a", "approve"}

\* Two proposals for one old obligation: the first keeps it.
SupersededOnce ==
  [][\A x \in OldObligations :
       supersededBy[x] # None => supersededBy'[x] = supersededBy[x]]_vars

(***************************************************************************)
(* The ticketing trigger fires at most once per obligation and only for    *)
(* one that became binding (comment on OrchestratorRuntime.ticketing).     *)
(***************************************************************************)
TicketsAreJustified ==
  \A o \in Obligations :
    tickets[o] > 0 => /\ tickets[o] = 1
                      /\ status[o] \in {"tier_a_committed", "committed"}

(***************************************************************************)
(* The final audit events of an obligation name one outcome, the one the   *)
(* graph holds.                                                            *)
(***************************************************************************)
AuditsMatchGraph ==
  \A o \in Obligations : \A f \in finalAudits[o] :
    FinalStatus(f) = status[o] /\ (commitLog[o] # None => f = commitLog[o])

(***************************************************************************)
(* What the run does besides the graph, tickets and final audit events, is *)
(* backed by the graph: the two above together.                            *)
(***************************************************************************)
EffectsAreJustified == TicketsAreJustified /\ AuditsMatchGraph

(***************************************************************************)
(* A dual-review obligation has one maker and one checker review, by two   *)
(* people: FR-23's same-reviewer and review-count checks.                  *)
(***************************************************************************)
MakerThenChecker ==
  \A o \in Obligations : RequiresSecondReview(tier[o]) =>
    \A r1, r2 \in reviews[o] : r1 # r2 =>
      /\ r1.request.reviewer # r2.request.reviewer
      /\ r1.request.step # r2.request.step

(***************************************************************************)
(* A second submission of a reviewer on an obligation is rejected unless   *)
(* it is a retry (monitoring-and-audit.errors.ts on FR-23).                *)
(***************************************************************************)
OneReviewPerReviewer ==
  \A o \in Obligations : \A r1, r2 \in reviews[o] :
    r1.request.reviewer = r2.request.reviewer =>
      r1.request.event = r2.request.event

(***************************************************************************)
(* A retry of an event id is never refused as a second review of the same  *)
(* reviewer (comment on recordHumanReview): a handler does not end at the  *)
(* read of the reviews when its own event wrote one of them.               *)
(***************************************************************************)
RetryIsNotASecondReview ==
  [][\A q \in Requests :
       /\ pc[q] = "readReviews"
       /\ \E rev \in reviews[Ob(q)] : rev.request = req[q]
       => pc'[q] # "idle"]_vars

(***************************************************************************)
(* Once nobody is working on an obligation, the index and the engine agree *)
(* on whether, and where, it waits for a human.                            *)
(***************************************************************************)
Quiet(o) ==
  /\ pc[o] = "done"
  /\ \A q \in Requests : req[q] # None => req[q].obligation # o

IndexAgreesWithEngine ==
  \A o \in Obligations : Quiet(o) => index[o] = engineStep[o]

(***************************************************************************)
(* A run is at one place: it waits at a step for a human, or one actor     *)
(* carries it on, never two.  This is what a strict engine is for, and the *)
(* surfaces, the index and the claims may not be relied on for it.         *)
(***************************************************************************)
Carrying == InFinalize \cup {"resuspend", "unrouted", "suspend", "suspending"}

Carries(a) == pc[a] \in Carrying

OneActorPerRun ==
  \A a \in Actors : Carries(a) =>
    /\ engineStep[Ob(a)] = None
    /\ \A b \in Actors : Carries(b) /\ Ob(b) = Ob(a) => b = a

\* Nothing has come of o yet.
Undecided(o) == commitLog[o] = None /\ finalAudits[o] = {} /\ tickets[o] = 0

(***************************************************************************)
(* How far the run is, seen from the actor that carries it and from the    *)
(* engine: nothing leaves the gate before the commit, and after it nothing *)
(* but what the commit says.                                               *)
(***************************************************************************)
Progress(a) ==
  LET o == Ob(a)
  IN /\ Carries(a) /\ pc[a] \notin {"won", "ticket", "settle"} => Undecided(o)
     /\ pc[a] = "won" =>
          /\ finalAudits[o] = {} /\ tickets[o] = 0
          /\ status[o] = FinalStatus(FinalOf(a))
          /\ commitLog[o] = FinalOf(a) \/ (NothingToCommit(a) /\ commitLog[o] = None)
     /\ pc[a] = "ticket" =>
          tickets[o] = 0 /\ status[o] \in {"tier_a_committed", "committed"}
     /\ a \in Obligations /\ pc[a] \in InFinalize => status[a] = "tier_a_committed"

(***************************************************************************)
(* What makes a decision final under a strict engine: the run is in one    *)
(* hand, that hand knows how far it is, and what is stored and announced   *)
(* agrees.                                                                 *)
(***************************************************************************)
RunBasis ==
  /\ OneActorPerRun
  /\ \A a \in Actors : Progress(a)
  /\ \A o \in Obligations : engineStep[o] # None => Undecided(o)
  /\ \A o \in Obligations : commitLog[o] # None => status[o] = FinalStatus(commitLog[o])
  /\ EffectsAreJustified
  /\ SupersessionIsExact

(***************************************************************************)
(* Reviews are for what is not Tier A, and finalizeCommit without a review *)
(* is for Tier A alone, from the routing on.                               *)
(***************************************************************************)
ReviewsFollowRouting ==
  /\ \A o \in Obligations :
       /\ pc[o] = "unrouted" <=> tier[o] = None
       /\ index[o] # None \/ reviews[o] # {} \/ pc[o] \in {"suspend", "suspending"}
            => tier[o] # "A"
       /\ pc[o] \in InFinalize => tier[o] = "A"
  /\ \A q \in Requests : req[q] # None => tier[req[q].obligation] # "A"

(***************************************************************************)
(* Why a maker is not the checker, when no event is delivered twice and    *)
(* nobody submits twice at once: while somebody can still review, who has  *)
(* reviewed and who was admitted hold the slots of their steps; a reviewer *)
(* between the read and the write is none of those who have written; and   *)
(* nobody is there any more once two have.  The claims are looked at three *)
(* awaits before the write, and are cleared under those who come late.     *)
(***************************************************************************)
Admitted(q) == pc[q] \in {"queryLedger", "readReviews", "writeReview"}

TwoReviews(o) == \E r1, r2 \in reviews[o] : r1 # r2

\* Somebody may still come to write a review of o.
InHand(o) ==
  index[o] # None \/ \E q \in Requests : req[q] # None /\ req[q].obligation = o

SlotsStand(o) ==
  /\ InHand(o) /\ ~TwoReviews(o) =>
       /\ \A rev \in reviews[o] : rev.request.reviewer = SlotOf(o, rev.request.step)
       /\ \A q \in Requests : Admitted(q) /\ Ob(q) = o => HoldsSlot(q)
  /\ TwoReviews(o) => \A q \in Requests : pc[q] = "writeReview" => Ob(q) # o

WritersAreNew ==
  /\ \A q \in Requests : pc[q] = "writeReview" =>
       \A rev \in reviews[Ob(q)] : rev.request.reviewer # req[q].reviewer
  /\ \A p, q \in Requests :
       p # q /\ req[p] # None /\ req[q] # None /\ req[p].obligation = req[q].obligation
         => req[p].reviewer # req[q].reviewer

ClaimsBasis ==
  /\ WritersAreNew
  /\ \A o \in Obligations :
       /\ RequiresSecondReview(tier[o]) => SlotsStand(o)
       /\ pc[o] \in {"unrouted", "suspend"} => ~InHand(o) /\ reviews[o] = {}
  /\ MakerThenChecker

(***************************************************************************)
(* Why the index agrees with the engine when no port fails: while the run  *)
(* is in a hand, that hand knows what it has told the index.               *)
(***************************************************************************)
IndexBasis ==
  /\ \A o \in Obligations :
       /\ (\A a \in Actors : Carries(a) => Ob(a) # o) => index[o] = engineStep[o]
       /\ pc[o] = "suspending" => index[o] = "awaitHumanReview"
  /\ \A a \in Actors :
       /\ pc[a] = "resuspend" => index[Ob(a)] = "awaitSecondHumanReview"
       /\ pc[a] \in {"ticket", "settle"} => index[Ob(a)] = None

\* Reviews are taken from the right people, and wanted where they are taken.
ReviewsAreOrderly == MakerThenChecker /\ IndexAgreesWithEngine

(***************************************************************************)
(* Every suspended obligation is decided, or loses its old obligation to   *)
(* another one and is released.                                            *)
(***************************************************************************)
Released(o) ==
  /\ index[o] = None
  /\ commitLog[o] # None \/ (Overwrites[o] # None /\ supersededBy[Overwrites[o]] # None)

SuspensionsEnd ==
  \A o \in Obligations : (engineStep[o] # None) ~> Released(o)

(***************************************************************************)
(* The gate implements the policy, the finalize commit being the decision. *)
(***************************************************************************)
Policy ==
  INSTANCE ReviewPolicy
    WITH decided <- commitLog,
         reviews <- [o \in Obligations |-> {rev.request : rev \in reviews[o]}],
         Reviews <- RequestRecords

ImplementsPolicy == Policy!Spec

=============================================================================
