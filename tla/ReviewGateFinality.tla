------------------------- MODULE ReviewGateFinality -------------------------
(***************************************************************************)
(* Under an engine that lets a suspended step be resumed once, a decision  *)
(* is final, whatever fails, repeats or overlaps: the commit is never      *)
(* revised, an old obligation is closed exactly by what overwrites it, and *)
(* tickets and audit events say what the graph says.  From that and from   *)
(* the agreements of ReviewGateProofs the gate implements ReviewPolicy.    *)
(* The second half is about the order of reviews and about the index.      *)
(***************************************************************************)
EXTENDS ReviewGateProofs, FiniteSetTheorems

(***************************************************************************)
(* RunBasis, cut by actor and by obligation.                               *)
(***************************************************************************)
ActorFits(a) ==
  /\ Carries(a) => engineStep[Ob(a)] = None
  /\ Progress(a)

RunFits(o) ==
  /\ engineStep[o] # None => Undecided(o)
  /\ commitLog[o] # None => status[o] = FinalStatus(commitLog[o])
  /\ tickets[o] > 0 => tickets[o] = 1 /\ status[o] \in {"tier_a_committed", "committed"}
  /\ \A f \in finalAudits[o] :
       FinalStatus(f) = status[o] /\ (commitLog[o] # None => f = commitLog[o])

Closed(o) ==
  \A x \in OldObligations :
    supersededBy[x] = o <=> Overwrites[o] = x /\ commitLog[o] \in {"tier_a", "approve"}

OneCarrier ==
  \A a, b \in Actors : Carries(a) /\ Carries(b) /\ Ob(b) = Ob(a) => b = a

RunParts ==
  /\ OneCarrier
  /\ \A a \in Actors : ActorFits(a)
  /\ \A o \in Obligations : RunFits(o) /\ Closed(o)

LEMMA RunByParts == RunBasis <=> RunParts
  BY DEF RunBasis, RunParts, OneCarrier, ActorFits, RunFits, Closed, OneActorPerRun,
         EffectsAreJustified, TicketsAreJustified, AuditsMatchGraph, SupersessionIsExact

Strong == Basis /\ RunBasis

-----------------------------------------------------------------------------
(* Steps that leave the decision alone, and steps of the actor that has it *)

\* Everything a decision consists of.
decisionVars == <<status, commitLog, supersededBy, engineStep, finalAudits, tickets>>

(***************************************************************************)
(* What an actor rests on is its place, its request and its outcome.       *)
(***************************************************************************)
Same(a) ==
  /\ pc'[a] = pc[a]
  /\ a \in Requests => req'[a] = req[a] /\ outcome'[a] = outcome[a]

LEMMA SameObligation ==
  ASSUME NEW a \in Actors, Same(a)
  PROVE  /\ Ob(a)' = Ob(a) /\ FinalOf(a)' = FinalOf(a)
         /\ NothingToCommit(a)' = NothingToCommit(a) /\ (Carries(a)' <=> Carries(a))
  BY ConstantsAssumption DEF Same, Ob, FinalOf, NothingToCommit, Carries, Actors

LEMMA CarrierHasObligation ==
  ASSUME WellFormed, NEW a \in Actors, Carries(a)
  PROVE  Ob(a) \in Obligations
  BY ConstantsAssumption
  DEF WellFormed, Shape, Actors, Carries, Carrying, Ob, InHandler, InFinalize, RequestRecords

LEMMA BystandersFit ==
  ASSUME Strong, UNCHANGED decisionVars,
         \A a \in Actors : Carries(a)' => Same(a)
  PROVE  RunBasis'
  <1> USE RunByParts DEF RunParts, Strong
  <1>1. OneCarrier'
    BY SameObligation DEF OneCarrier
  <1>2. ASSUME NEW a \in Actors
        PROVE  ActorFits(a)'
    <2>1. CASE Carries(a)'
      <3>1. Same(a) /\ ActorFits(a)
        BY <2>1
      <3> QED
        BY <3>1, SameObligation DEF ActorFits, Progress, Same, Undecided, decisionVars
    <2>2. CASE ~Carries(a)'
      BY <2>2 DEF ActorFits, Progress, Carries, Carrying, InFinalize
    <2> QED
      BY <2>1, <2>2
  <1>3. ASSUME NEW o \in Obligations
        PROVE  RunFits(o)' /\ Closed(o)'
    <2>1. RunFits(o) /\ Closed(o)
      OBVIOUS
    <2>2. RunFits(o)'
      BY <2>1 DEF RunFits, decisionVars, Undecided
    <2>3. Closed(o)'
      BY <2>1 DEF Closed, decisionVars
    <2> QED
      BY <2>2, <2>3
  <1>4. RunParts'
    BY <1>1, <1>2, <1>3
  <1>5. RunParts' => RunBasis'
    BY RunByParts, PTL
  <1> QED
    BY <1>4, <1>5

(***************************************************************************)
(* What a step does to a decision touches one obligation.                  *)
(***************************************************************************)
OnlyOf(o) ==
  /\ \A p \in Obligations : p # o =>
       /\ status'[p] = status[p] /\ commitLog'[p] = commitLog[p]
       /\ engineStep'[p] = engineStep[p]
       /\ finalAudits'[p] = finalAudits[p] /\ tickets'[p] = tickets[p]
  /\ \A x \in OldObligations :
       \/ supersededBy'[x] = supersededBy[x]
       \/ supersededBy[x] = None /\ supersededBy'[x] = o

(***************************************************************************)
(* The actor that carries a run, or takes it from the engine, moves: since *)
(* nobody else carries it, only its own facts have to be shown.            *)
(***************************************************************************)
LEMMA CarrierMoves ==
  ASSUME Strong, NEW a \in Actors, NEW o \in Obligations, Ob(a) = o,
         Carries(a) \/ engineStep[o] # None,
         \A b \in Actors : b # a => Same(b),
         Carries(a)' => Ob(a)' = o,
         OnlyOf(o), ActorFits(a)', RunFits(o)', Closed(o)'
  PROVE  RunBasis'
  <1> USE RunByParts DEF RunParts, Strong
  <1>1. ASSUME NEW b \in Actors, b # a, Carries(b)
        PROVE  Ob(b) \in Obligations \ {o}
    <2>1. Ob(b) \in Obligations
      BY <1>1, CarrierHasObligation DEF Basis
    <2>2. Ob(b) # o
      <3>1. CASE Carries(a)
        BY <1>1, <3>1 DEF OneCarrier
      <3>2. CASE engineStep[o] # None
        BY <1>1, <3>2 DEF ActorFits
      <3> QED
        BY <3>1, <3>2
    <2> QED
      BY <2>1, <2>2
  <1>2. \A b \in Actors : b # a => (Carries(b)' <=> Carries(b)) /\ Ob(b)' = Ob(b)
    BY SameObligation
  <1>3. OneCarrier'
    <2> SUFFICES ASSUME NEW b \in Actors, NEW c \in Actors,
                        Carries(b)', Carries(c)', Ob(b)' = Ob(c)'
                 PROVE  b = c
      BY DEF OneCarrier
    <2>1. CASE b # a /\ c # a
      BY <1>2, <2>1 DEF OneCarrier
    <2>2. CASE b = a /\ c # a
      BY <1>1, <1>2, <2>2
    <2>3. CASE b # a /\ c = a
      BY <1>1, <1>2, <2>3
    <2> QED
      BY <2>1, <2>2, <2>3
  <1>4. ASSUME NEW b \in Actors, b # a
        PROVE  ActorFits(b)'
    <2>1. CASE Carries(b)
      <3>1. PICK p \in Obligations : p = Ob(b) /\ p # o
        BY <1>1, <1>4, <2>1
      <3>2. /\ status'[p] = status[p] /\ commitLog'[p] = commitLog[p]
            /\ engineStep'[p] = engineStep[p]
            /\ finalAudits'[p] = finalAudits[p] /\ tickets'[p] = tickets[p]
        BY <3>1 DEF OnlyOf
      <3>3. Same(b) /\ ActorFits(b)
        BY <1>4
      <3>4. /\ Ob(b)' = p /\ FinalOf(b)' = FinalOf(b)
            /\ NothingToCommit(b)' = NothingToCommit(b) /\ Carries(b)'
        BY <2>1, <3>1, <3>3, SameObligation
      <3>5. b \in Obligations => b = p
        BY <3>1 DEF Ob
      <3> QED
        BY <2>1, <3>1, <3>2, <3>3, <3>4, <3>5 DEF ActorFits, Progress, Undecided, Same
    <2>2. CASE ~Carries(b)
      <3>1. ~Carries(b)'
        BY <1>2, <1>4, <2>2
      <3> QED
        BY <3>1 DEF ActorFits, Progress, Carries, Carrying, InFinalize
    <2> QED
      BY <2>1, <2>2
  <1>5. ASSUME NEW p \in Obligations, p # o
        PROVE  RunFits(p)' /\ Closed(p)'
    <2>1. RunFits(p) /\ Closed(p)
      OBVIOUS
    <2>2. RunFits(p)'
      BY <1>5, <2>1 DEF RunFits, OnlyOf, Undecided
    <2>3. Closed(p)'
      BY <1>5, <2>1, ConstantsAssumption DEF Closed, OnlyOf
    <2> QED
      BY <2>2, <2>3
  <1>6. RunParts'
    BY <1>3, <1>4, <1>5
  <1>7. RunParts' => RunBasis'
    BY RunByParts, PTL
  <1> QED
    BY <1>6, <1>7

-----------------------------------------------------------------------------
(* Who moves in a step.                                                    *)

LEMMA GotoSame ==
  ASSUME WellFormed, NEW a \in Actors, NEW label, Goto(a, label), UNCHANGED <<req, outcome>>
  PROVE  pc'[a] = label /\ \A b \in Actors : b # a => Same(b)
  BY DEF Goto, Same, WellFormed, TypeOK

LEMMA AnswerSame ==
  ASSUME WellFormed, NEW q \in Requests, Answer(q)
  PROVE  pc'[q] = "idle" /\ \A b \in Actors : b # q => Same(b)
  BY DEF Answer, Same, WellFormed, TypeOK, Actors

LEMMA LeaveSame ==
  ASSUME WellFormed, NEW a \in Actors, Leave(a)
  PROVE  pc'[a] \in {"idle", "done"} /\ \A b \in Actors : b # a => Same(b)
  BY GotoSame, AnswerSame DEF Leave, localVars

\* An actor that is gone has nothing to answer for.
LEMMA GoneFits ==
  ASSUME NEW a \in Actors, pc'[a] \notin Carrying
  PROVE  ActorFits(a)' /\ ~Carries(a)'
  BY DEF ActorFits, Progress, Carries, Carrying, InFinalize

LEMMA BranchObligation ==
  ASSUME NEW o \in Obligations
  PROVE  /\ o \in Actors /\ o \notin Requests /\ Ob(o) = o /\ Ob(o)' = o
         /\ FinalOf(o) = "tier_a" /\ FinalOf(o)' = "tier_a"
  BY ConstantsAssumption DEF Actors, Ob, FinalOf

-----------------------------------------------------------------------------
(* One lemma per group of actions.                                         *)

LEMMA InitFits == Init => RunBasis
  <1> SUFFICES ASSUME Init PROVE RunParts
    BY RunByParts
  <1> USE ConstantsAssumption DEF Init
  <1>1. ASSUME NEW a \in Actors
        PROVE  ActorFits(a) /\ (Carries(a) => a \in Obligations)
    <2>1. CASE a \in Obligations
      BY <2>1, BranchObligation
      DEF ActorFits, Progress, Undecided, InFinalize
    <2>2. CASE a \notin Obligations
      BY <2>2 DEF ActorFits, Progress, Carries, Carrying, InFinalize, Actors
    <2> QED
      BY <2>1, <2>2
  <1>2. OneCarrier
    BY <1>1, BranchObligation DEF OneCarrier
  <1>3. ASSUME NEW o \in Obligations
        PROVE  RunFits(o) /\ Closed(o)
    BY NoneAssumption DEF RunFits, Closed, FinalOutcomes
  <1> QED
    BY <1>1, <1>2, <1>3 DEF RunParts

LEMMA BranchFits ==
  ASSUME Strong, NEW o \in Obligations, Branch(o)
  PROVE  RunBasis'
  <1> USE DEF graphVars, indexVars, engineVars, localVars, outVars, Strong
  <1>0. WellFormed /\ ActorFits(o) /\ RunFits(o) /\ Closed(o)
    BY RunByParts, BranchObligation DEF RunParts, Basis
  <1>1. Carries(o)
    BY DEF Branch, RouteAndPreCommit, RecordSuspension, Suspend, Carries, Carrying
  <1>2. Undecided(o) /\ engineStep[o] = None
    BY <1>0, <1>1, BranchObligation
    DEF ActorFits, Progress, Branch, RouteAndPreCommit, RecordSuspension, Suspend
  <1>3. CASE RouteAndPreCommit(o)
    <2>1. PICK t \in RoutedTiers[o], label \in {"commit", "suspend", "done"} :
            /\ status' = [status EXCEPT ![o] = PreReviewStatus(t)]
            /\ Goto(o, label)
            /\ label = "commit" => t = "A"
      BY <1>3 DEF RouteAndPreCommit
    <2>2. pc'[o] = label /\ \A b \in Actors : b # o => Same(b)
      BY <1>0, <1>3, <2>1, GotoSame, BranchObligation DEF RouteAndPreCommit
    <2>3. OnlyOf(o)
      BY <1>0, <1>3, <2>1 DEF OnlyOf, RouteAndPreCommit, WellFormed, TypeOK
    <2>4. RunFits(o)' /\ Closed(o)'
      BY <1>0, <1>2, <1>3, NoneAssumption
      DEF RunFits, Closed, Undecided, RouteAndPreCommit
    <2>5. label = "commit" => status'[o] = "tier_a_committed"
      BY <1>0, <2>1 DEF WellFormed, TypeOK, PreReviewStatus
    <2>6. ActorFits(o)'
      BY <1>2, <1>3, <2>1, <2>2, <2>5, BranchObligation
      DEF ActorFits, Progress, Undecided, RouteAndPreCommit, InFinalize
    <2> QED
      BY <1>1, <2>2, <2>3, <2>4, <2>6, CarrierMoves, BranchObligation
  <1>4. CASE RecordSuspension(o)
    <2>1. pc'[o] = "suspending" /\ \A b \in Actors : b # o => Same(b)
      BY <1>0, <1>4, GotoSame, BranchObligation DEF RecordSuspension
    <2>2. OnlyOf(o) /\ RunFits(o)' /\ Closed(o)'
      BY <1>0, <1>4 DEF RecordSuspension, OnlyOf, RunFits, Closed, Undecided
    <2>3. ActorFits(o)'
      BY <1>2, <1>4, <2>1, BranchObligation
      DEF ActorFits, Progress, Undecided, RecordSuspension, InFinalize
    <2> QED
      BY <1>1, <2>1, <2>2, <2>3, CarrierMoves, BranchObligation
  <1>5. CASE Suspend(o)
    <2>1. pc'[o] = "done" /\ \A b \in Actors : b # o => Same(b)
      BY <1>0, <1>5, GotoSame, BranchObligation DEF Suspend
    <2>2. OnlyOf(o)
      BY <1>0, <1>5 DEF Suspend, OnlyOf, WellFormed, TypeOK
    <2>3. RunFits(o)' /\ Closed(o)'
      BY <1>0, <1>2, <1>5 DEF Suspend, RunFits, Closed, Undecided
    <2>4. ActorFits(o)' /\ ~Carries(o)'
      BY <2>1, GoneFits, BranchObligation DEF Carrying, InFinalize
    <2> QED
      BY <1>1, <2>1, <2>2, <2>3, <2>4, CarrierMoves, BranchObligation
  <1> QED
    BY <1>3, <1>4, <1>5 DEF Branch

LEMMA DeliverFits ==
  ASSUME Strong, NEW q \in Requests, NEW r, Deliver(q, r)
  PROVE  RunBasis'
  <1>1. pc'[q] = "validate" /\ q \in Actors
    BY DEF Deliver, Goto, Strong, Basis, WellFormed, TypeOK, Actors
  <1>2. \A b \in Actors : b # q => Same(b)
    BY DEF Deliver, Goto, Same, Strong, Basis, WellFormed, TypeOK, Actors
  <1>3. ~Carries(q)'
    BY <1>1, GoneFits DEF Carrying, InFinalize
  <1> QED
    BY <1>2, <1>3, BystandersFit
    DEF Deliver, decisionVars, graphVars, engineVars, outVars

LEMMA SurfaceFits ==
  ASSUME Strong, NEW o \in Obligations, NEW r \in Reviewers, Surface(o, r)
  PROVE  RunBasis'
  <1>1. CASE Claim(o, r)
    BY <1>1, BystandersFit
    DEF Claim, Same, decisionVars, graphVars, engineVars, localVars, outVars
  <1>2. ASSUME NEW q \in Requests, Submit(q, o, r)
        PROVE  RunBasis'
    BY <1>2, DeliverFits DEF Submit
  <1> QED
    BY <1>1, <1>2 DEF Surface

LEMMA RedeliverFits ==
  ASSUME Strong, NEW q \in Requests, Redeliver(q)
  PROVE  RunBasis'
  BY DeliverFits DEF Redeliver

LEMMA RefuseFits ==
  ASSUME Strong, NEW q \in Requests, Refuse(q)
  PROVE  RunBasis'
  <1>1. pc'[q] = "idle" /\ \A b \in Actors : b # q => Same(b)
    BY AnswerSame DEF Refuse, Strong, Basis
  <1>2. ~Carries(q)' /\ q \in Actors
    BY <1>1, GoneFits DEF Carrying, InFinalize, Actors
  <1> QED
    BY <1>1, <1>2, BystandersFit
    DEF Refuse, decisionVars, graphVars, engineVars, outVars

(***************************************************************************)
(* A handler reads, checks and writes its review; the decision is not its  *)
(* business yet.                                                           *)
(***************************************************************************)
Prepares(q) ==
  \/ Validate(q) \/ CheckStep(q) \/ CheckAssignment(q)
  \/ QueryLedger(q) \/ ReadReviews(q) \/ WriteReview(q) \/ AppendLedger(q)

LEMMA PrepareFits ==
  ASSUME Strong, NEW q \in Requests, Prepares(q)
  PROVE  RunBasis'
  <1> DEFINE Before == {"idle", "checkStep", "checkAssignment", "queryLedger", "readReviews",
                        "writeReview", "appendLedger", "resume"}
  <1>0. WellFormed /\ q \in Actors
    BY DEF Strong, Basis, Actors
  <1>1. \A label \in Before : label \notin Carrying
    BY DEF Carrying, InFinalize
  <1>2. CASE Answer(q)
    <2>1. UNCHANGED decisionVars
      BY DEF Prepares, Validate, CheckStep, CheckAssignment, QueryLedger, ReadReviews,
             WriteReview, AppendLedger, Refuse, Unchanged_Reading, decisionVars,
             graphVars, engineVars, outVars
    <2>2. pc'[q] = "idle" /\ \A b \in Actors : b # q => Same(b)
      BY <1>0, <1>2, AnswerSame
    <2> QED
      BY <1>0, <1>1, <2>1, <2>2, GoneFits, BystandersFit
  <1>3. CASE ~Answer(q)
    <2>1. /\ UNCHANGED decisionVars
          /\ req' = req
          /\ \A p \in Requests : p # q => outcome'[p] = outcome[p]
          /\ \E label \in Before : pc' = [pc EXCEPT ![q] = label]
      <3> USE DEF Unchanged_Reading, decisionVars, graphVars, engineVars, outVars, Goto, Refuse
      <3>1. CASE Validate(q)
        BY <1>3, <3>1 DEF Validate
      <3>2. CASE CheckStep(q)
        BY <1>3, <3>2 DEF CheckStep
      <3>3. CASE CheckAssignment(q)
        BY <1>3, <3>3 DEF CheckAssignment
      <3>4. CASE QueryLedger(q)
        BY <1>0, <3>4 DEF QueryLedger, WellFormed, TypeOK
      <3>5. CASE ReadReviews(q)
        BY <1>3, <3>5 DEF ReadReviews
      <3>6. CASE WriteReview(q)
        BY <1>3, <3>6 DEF WriteReview, localVars
      <3>7. CASE AppendLedger(q)
        BY <1>0, <1>3, <3>7 DEF AppendLedger, WellFormed, TypeOK
      <3> QED
        BY <3>1, <3>2, <3>3, <3>4, <3>5, <3>6, <3>7 DEF Prepares
    <2>2. pc'[q] \in Before /\ \A b \in Actors : b # q => Same(b)
      BY <1>0, <2>1 DEF WellFormed, TypeOK, Same, Actors
    <2> QED
      BY <1>0, <1>1, <2>1, <2>2, GoneFits, BystandersFit
  <1> QED
    BY <1>2, <1>3

(***************************************************************************)
(* The engine gives the run to one handler, and to none if it is not       *)
(* suspended at the step the handler names.                                *)
(***************************************************************************)
LEMMA ResumeFits ==
  ASSUME Strong, StrictEngine, NEW q \in Requests, Resume(q)
  PROVE  RunBasis'
  <1> USE DEF graphVars, indexVars, engineVars, localVars, outVars
  <1>1. CASE EngineRefuses(q)
    BY <1>1, RefuseFits DEF Resume
  <1>2. CASE ~EngineRefuses(q)
    <2>0. /\ WellFormed /\ q \in Actors /\ q \notin Obligations
          /\ req[q] \in RequestRecords /\ Ob(q) = req[q].obligation
      BY <1>2, ConstantsAssumption
      DEF Strong, Basis, WellFormed, Shape, Resume, Actors, Ob
    <2>1. PICK o \in Obligations : o = Ob(q)
      BY <2>0 DEF RequestRecords
    <2>2. engineStep[o] = req[q].step /\ engineStep[o] # None
      BY <1>2, <2>0, <2>1, NoneAssumption DEF EngineRefuses, RequestRecords
    <2>3. RunFits(o) /\ Closed(o) /\ Undecided(o)
      BY <2>2, RunByParts DEF Strong, RunParts, RunFits
    <2>4. /\ engineStep' = [engineStep EXCEPT ![o] = None]
          /\ \E label \in {"resuspend", "commit"} : Goto(q, label)
          /\ UNCHANGED <<status, commitLog, supersededBy, finalAudits, tickets, req, outcome>>
      BY <1>2, <2>1 DEF Resume
    <2>5. pc'[q] \in {"resuspend", "commit"} /\ \A b \in Actors : b # q => Same(b)
      BY <2>0, <2>4, GotoSame
    <2>6. Ob(q)' = o
      BY <2>1, <2>4 DEF Ob
    <2>7. OnlyOf(o) /\ engineStep'[o] = None
      BY <2>0, <2>4 DEF OnlyOf, WellFormed, TypeOK
    <2>8. RunFits(o)' /\ Closed(o)'
      BY <2>3, <2>4, <2>7 DEF RunFits, Closed, Undecided
    <2>9. ActorFits(q)'
      BY <2>0, <2>3, <2>4, <2>5, <2>6, <2>7 DEF ActorFits, Progress, Undecided
    <2> QED
      BY <2>0, <2>1, <2>2, <2>5, <2>6, <2>7, <2>8, <2>9, CarrierMoves
  <1> QED
    BY <1>1, <1>2

LEMMA ResuspendFits ==
  ASSUME Strong, NEW q \in Requests, Resuspend(q)
  PROVE  RunBasis'
  <1> USE DEF graphVars, indexVars, engineVars, outVars
  <1>0. WellFormed /\ q \in Actors /\ ActorFits(q) /\ Carries(q)
    BY RunByParts DEF Strong, Basis, RunParts, Actors, Resuspend, Carries, Carrying
  <1>1. PICK o \in Obligations : o = Ob(q)
    BY <1>0, CarrierHasObligation
  <1>2. RunFits(o) /\ Closed(o) /\ Undecided(o)
    BY <1>0, <1>1, RunByParts DEF Strong, RunParts, ActorFits, Progress, Resuspend
  <1>3. pc'[q] = "idle" /\ \A b \in Actors : b # q => Same(b)
    BY <1>0, AnswerSame DEF Resuspend
  <1>4. ActorFits(q)' /\ ~Carries(q)'
    BY <1>0, <1>3, GoneFits DEF Carrying, InFinalize
  <1>5. OnlyOf(o)
    BY <1>0, <1>1 DEF Resuspend, OnlyOf, WellFormed, TypeOK
  <1>6. RunFits(o)' /\ Closed(o)'
    BY <1>2 DEF Resuspend, RunFits, Closed, Undecided
  <1> QED
    BY <1>0, <1>1, <1>3, <1>4, <1>5, <1>6, CarrierMoves

LEMMA HandleFits ==
  ASSUME Strong, StrictEngine, NEW q \in Requests, Handle(q)
  PROVE  RunBasis'
  BY PrepareFits, ResumeFits, ResuspendFits DEF Handle, Prepares

(***************************************************************************)
(* finalizeCommit, by a handler or by a Tier A branch.                     *)
(***************************************************************************)
LEMMA FinalizeFits ==
  ASSUME Strong, NEW a \in Actors, Finalize(a)
  PROVE  RunBasis'
  <1> USE DEF graphVars, indexVars, engineVars, localVars, outVars
  <1>0. WellFormed /\ ActorFits(a) /\ Carries(a) /\ pc[a] \in InFinalize
    BY RunByParts
    DEF Strong, Basis, RunParts, Carries, Carrying, InFinalize, Finalize, CheckCommitLog,
        ApplyCommit, ConflictCommit, AnnounceWin, AnnounceLoss, FireTicket, Settle
  <1>1. PICK o \in Obligations : o = Ob(a)
    BY <1>0, CarrierHasObligation
  <1>2. RunFits(o) /\ Closed(o) /\ engineStep[o] = None
    BY <1>0, <1>1, RunByParts DEF Strong, RunParts, ActorFits
  <1>3. FinalOf(a) \in FinalOutcomes /\ FinalOf(a) # None
    <2>1. CASE a \in Obligations
      BY <2>1, NoneAssumption DEF FinalOf, FinalOutcomes
    <2>2. CASE a \notin Obligations
      BY <1>0, <2>2, FinalTyping, NoneAssumption DEF WellFormed, Shape, Actors, FinalOf
    <2> QED
      BY <2>1, <2>2
  <1>4. a \in Obligations => a = o /\ FinalOf(a) = "tier_a" /\ status[a] = "tier_a_committed"
    BY <1>0, <1>1 DEF Ob, FinalOf, ActorFits, Progress
  <1>5. ASSUME NEW label, Goto(a, label), UNCHANGED localVars
        PROVE  /\ pc'[a] = label /\ \A b \in Actors : b # a => Same(b)
               /\ Ob(a)' = o /\ FinalOf(a)' = FinalOf(a)
               /\ NothingToCommit(a)' = NothingToCommit(a)
    BY <1>0, <1>1, <1>5, GotoSame DEF Ob, FinalOf, NothingToCommit
  <1>6. ASSUME Leave(a)
        PROVE  ActorFits(a)' /\ ~Carries(a)' /\ \A b \in Actors : b # a => Same(b)
    BY <1>0, <1>6, LeaveSame, GoneFits DEF Carrying, InFinalize
  <1>7. CASE CheckCommitLog(a)
    <2>1. Undecided(o)
      BY <1>0, <1>1, <1>7 DEF ActorFits, Progress, CheckCommitLog
    <2>2. OnlyOf(o) /\ RunFits(o)' /\ Closed(o)' /\ Undecided(o)'
      BY <1>2, <1>7, <2>1 DEF CheckCommitLog, OnlyOf, RunFits, Closed, Undecided
    <2>3. PICK label \in {"won", "apply"} :
            Goto(a, label) /\ (label = "won" <=> NothingToCommit(a))
      BY <1>1, <1>7, <2>1 DEF CheckCommitLog, Undecided
    <2>4. /\ pc'[a] = label /\ \A b \in Actors : b # a => Same(b)
          /\ Ob(a)' = o /\ FinalOf(a)' = FinalOf(a)
          /\ NothingToCommit(a)' = NothingToCommit(a)
      BY <1>5, <1>7, <2>3 DEF CheckCommitLog
    <2>5. NothingToCommit(a) => status[o] = FinalStatus(FinalOf(a))
      BY <1>4 DEF NothingToCommit, FinalStatus
    <2>6. ActorFits(a)'
      BY <1>2, <1>4, <1>7, <2>2, <2>3, <2>4, <2>5
      DEF CheckCommitLog, ActorFits, Progress, Undecided
    <2> QED
      BY <1>0, <1>1, <2>2, <2>4, <2>6, CarrierMoves
  <1>8. CASE ApplyCommit(a)
    <2>1. Undecided(o)
      BY <1>0, <1>1, <1>8 DEF ActorFits, Progress, ApplyCommit
    <2>2. /\ commitLog' = [commitLog EXCEPT ![o] = FinalOf(a)]
          /\ status' = [status EXCEPT ![o] = FinalStatus(FinalOf(a))]
      BY <1>0, <1>1, <1>8, <2>1 DEF ApplyCommit, Undecided, WellFormed, TypeOK
    <2>3. commitLog'[o] = FinalOf(a) /\ status'[o] = FinalStatus(FinalOf(a))
      BY <1>0, <2>2 DEF WellFormed, TypeOK
    <2>4. RunFits(o)'
      BY <1>2, <1>8, <2>1, <2>3 DEF ApplyCommit, RunFits, Undecided
    <2>5. \A x \in OldObligations :
            supersededBy'[x] = IF Closes(a) /\ x = Overwrites[o] THEN o ELSE supersededBy[x]
      BY <1>0, <1>1, <1>8 DEF ApplyCommit, WellFormed, TypeOK
    <2>6. Closes(a) => supersededBy[Overwrites[o]] = None
      BY <1>1, <1>8 DEF ApplyCommit, StillLive
    <2>7. OnlyOf(o)
      BY <1>0, <1>8, <2>2, <2>5, <2>6 DEF ApplyCommit, OnlyOf, WellFormed, TypeOK
    <2>8. Closed(o)'
      <3>1. \A x \in OldObligations : supersededBy[x] # o
        BY <1>2, <2>1, NoneAssumption DEF Closed, Undecided, FinalOutcomes
      <3>2. \A x \in OldObligations : x # None
        BY ConstantsAssumption
      <3>3. Closes(a) <=> FinalOf(a) \in {"tier_a", "approve"} /\ Overwrites[o] # None
        BY <1>1 DEF Closes, Binding
      <3> QED
        BY <2>3, <2>5, <3>1, <3>2, <3>3 DEF Closed
    <2>9. CASE Leave(a)
      BY <1>0, <1>1, <1>6, <2>4, <2>7, <2>8, <2>9, CarrierMoves
    <2>10. CASE ~Leave(a)
      <3>1. Goto(a, "won") /\ UNCHANGED localVars
        BY <1>8, <2>10 DEF ApplyCommit
      <3>2. /\ pc'[a] = "won" /\ \A b \in Actors : b # a => Same(b)
            /\ Ob(a)' = o /\ FinalOf(a)' = FinalOf(a)
        BY <1>5, <3>1
      <3>3. a \in Obligations => status'[a] = "tier_a_committed"
        BY <1>4, <2>3 DEF FinalStatus
      <3>4. ActorFits(a)'
        BY <1>2, <1>8, <2>1, <2>3, <3>2, <3>3
        DEF ApplyCommit, ActorFits, Progress, Undecided
      <3> QED
        BY <1>0, <1>1, <2>4, <2>7, <2>8, <3>2, <3>4, CarrierMoves
    <2> QED
      BY <2>9, <2>10
  <1>9. CASE ConflictCommit(a)
    <2>1. Undecided(o)
      BY <1>0, <1>1, <1>9 DEF ActorFits, Progress, ConflictCommit
    <2>2. OnlyOf(o) /\ RunFits(o)' /\ Closed(o)' /\ Undecided(o)'
      BY <1>2, <1>9, <2>1 DEF ConflictCommit, OnlyOf, RunFits, Closed, Undecided
    <2>3. /\ pc'[a] = "lost" /\ \A b \in Actors : b # a => Same(b)
          /\ Ob(a)' = o
      BY <1>5, <1>9 DEF ConflictCommit
    <2>4. ActorFits(a)'
      BY <1>2, <1>4, <1>9, <2>2, <2>3 DEF ConflictCommit, ActorFits, Progress, Undecided
    <2> QED
      BY <1>0, <1>1, <2>2, <2>3, <2>4, CarrierMoves
  <1>10. CASE AnnounceWin(a)
    <2>1. /\ finalAudits[o] = {} /\ tickets[o] = 0
          /\ status[o] = FinalStatus(FinalOf(a))
          /\ commitLog[o] = FinalOf(a) \/ commitLog[o] = None
      BY <1>0, <1>1, <1>10 DEF ActorFits, Progress, AnnounceWin
    <2>2. PICK label \in {"ticket", "settle"} :
            Goto(a, label) /\ (label = "ticket" => Binding(FinalOf(a)))
      BY <1>10 DEF AnnounceWin
    <2>3. /\ pc'[a] = label /\ \A b \in Actors : b # a => Same(b)
          /\ Ob(a)' = o
      BY <1>5, <1>10, <2>2 DEF AnnounceWin
    <2>4. finalAudits' = [finalAudits EXCEPT ![o] = {FinalOf(a)}]
      BY <1>0, <1>1, <1>10, <2>1 DEF AnnounceWin, WellFormed, TypeOK
    <2>5. finalAudits'[o] = {FinalOf(a)}
      BY <1>0, <2>4 DEF WellFormed, TypeOK
    <2>6. OnlyOf(o)
      BY <1>0, <1>10, <2>4 DEF AnnounceWin, OnlyOf, WellFormed, TypeOK
    <2>7. RunFits(o)' /\ Closed(o)'
      BY <1>2, <1>10, <2>1, <2>5 DEF AnnounceWin, RunFits, Closed, Undecided
    <2>8. Binding(FinalOf(a)) => status[o] \in {"tier_a_committed", "committed"}
      BY <2>1 DEF Binding, FinalStatus
    <2>9. ActorFits(a)'
      BY <1>2, <1>4, <1>10, <2>1, <2>2, <2>3, <2>8 DEF AnnounceWin, ActorFits, Progress
    <2> QED
      BY <1>0, <1>1, <2>3, <2>6, <2>7, <2>9, CarrierMoves
  <1>11. CASE AnnounceLoss(a)
    <2>1. OnlyOf(o) /\ RunFits(o)' /\ Closed(o)'
      BY <1>2, <1>11 DEF AnnounceLoss, OnlyOf, RunFits, Closed, Undecided
    <2>2. /\ pc'[a] = "settle" /\ \A b \in Actors : b # a => Same(b)
          /\ Ob(a)' = o
      BY <1>5, <1>11 DEF AnnounceLoss
    <2>3. ActorFits(a)'
      BY <1>2, <1>4, <1>11, <2>2 DEF AnnounceLoss, ActorFits, Progress
    <2> QED
      BY <1>0, <1>1, <2>1, <2>2, <2>3, CarrierMoves
  <1>12. CASE FireTicket(a)
    <2>1. tickets[o] = 0 /\ status[o] \in {"tier_a_committed", "committed"}
      BY <1>0, <1>1, <1>12 DEF ActorFits, Progress, FireTicket
    <2>2. /\ pc'[a] = "settle" /\ \A b \in Actors : b # a => Same(b)
          /\ Ob(a)' = o
      BY <1>5, <1>12 DEF FireTicket
    <2>3. tickets'[o] \in {0, 1} /\ \A p \in Obligations : p # o => tickets'[p] = tickets[p]
      BY <1>0, <1>1, <1>12, <2>1 DEF FireTicket, WellFormed, TypeOK
    <2>4. OnlyOf(o) /\ RunFits(o)' /\ Closed(o)'
      BY <1>2, <1>12, <2>1, <2>3 DEF FireTicket, OnlyOf, RunFits, Closed, Undecided
    <2>5. ActorFits(a)'
      BY <1>2, <1>4, <1>12, <2>2 DEF FireTicket, ActorFits, Progress
    <2> QED
      BY <1>0, <1>1, <2>2, <2>4, <2>5, CarrierMoves
  <1>13. CASE Settle(a)
    <2>1. engineStep' = [engineStep EXCEPT ![o] = None]
      BY <1>1, <1>13 DEF Settle
    <2>2. OnlyOf(o) /\ engineStep'[o] = None
      BY <1>0, <1>13, <2>1 DEF Settle, OnlyOf, WellFormed, TypeOK
    <2>3. RunFits(o)' /\ Closed(o)'
      BY <1>2, <1>13, <2>2 DEF Settle, RunFits, Closed
    <2> QED
      BY <1>0, <1>1, <1>6, <1>13, <2>2, <2>3, CarrierMoves DEF Settle
  <1> QED
    BY <1>7, <1>8, <1>9, <1>10, <1>11, <1>12, <1>13 DEF Finalize

LEMMA EnvironmentFits ==
  ASSUME Strong,
         (\E a \in Actors : Throw(a)) \/ FindGap \/ FillGap \/ Restart \/ UNCHANGED vars
  PROVE  RunBasis'
  <1> USE DEF graphVars, indexVars, engineVars, localVars, outVars, decisionVars
  <1>1. ASSUME NEW a \in Actors, Throw(a)
        PROVE  RunBasis'
    <2>1. pc'[a] \in {"idle", "done"} /\ \A b \in Actors : b # a => Same(b)
      BY <1>1, LeaveSame DEF Throw, Strong, Basis
    <2>2. ~Carries(a)'
      BY <2>1, GoneFits DEF Carrying, InFinalize
    <2> QED
      BY <1>1, <2>1, <2>2, BystandersFit DEF Throw
  <1>2. CASE FindGap \/ FillGap
    BY <1>2, BystandersFit DEF FindGap, FillGap, Same
  <1>3. CASE Restart
    <2>1. ASSUME NEW a \in Actors, Carries(a)'
          PROVE  Same(a)
      <3>1. pc'[a] = "unrouted" /\ pc[a] = "unrouted" /\ a \notin Requests
        BY <1>3, <2>1 DEF Restart, Carries, Carrying, InFinalize
      <3> QED
        BY <3>1 DEF Same
    <2> QED
      BY <1>3, <2>1, BystandersFit DEF Restart
  <1>4. CASE UNCHANGED vars
    BY <1>4, BystandersFit DEF vars, Same
  <1> QED
    BY <1>1, <1>2, <1>3, <1>4

-----------------------------------------------------------------------------

LEMMA NextFits == ASSUME StrictEngine PROVE Strong /\ [Next]_vars => RunBasis'
  BY BranchFits, SurfaceFits, RedeliverFits, HandleFits, FinalizeFits, EnvironmentFits
  DEF Next

LEMMA AlwaysStrong == ASSUME StrictEngine PROVE Spec => []Strong
  <1>1. Init => Strong
    BY InitWellFormed, InitBasis, InitFits DEF Strong, Basis
  <1>2. Strong /\ [Next]_vars => Strong'
    BY NextBasis, NextFits DEF Strong
  <1> QED
    BY <1>1, <1>2, PTL DEF Spec

-----------------------------------------------------------------------------
(* Routing comes first and decides whether there is a review, under either *)
(* engine.                                                                 *)

LEMMA InitFollows == Init => ReviewsFollowRouting
  <1> SUFFICES ASSUME Init PROVE ReviewsFollowRouting
    OBVIOUS
  <1> QED
    BY ConstantsAssumption DEF Init, ReviewsFollowRouting, Actors, InFinalize

(***************************************************************************)
(* Every step but the routing: whoever has something of an obligation had  *)
(* something of it before.                                                 *)
(***************************************************************************)
LEMMA RoutingKeeps ==
  ASSUME ReviewsFollowRouting, tier' = tier,
         \A o \in Obligations :
           /\ pc'[o] = "unrouted" <=> pc[o] = "unrouted"
           /\ pc'[o] \in {"suspend", "suspending"} => pc[o] \in {"suspend", "suspending"}
           /\ pc'[o] \in InFinalize => pc[o] \in InFinalize
           /\ index'[o] # None \/ reviews'[o] # {} => tier[o] # "A",
         \A q \in Requests : req'[q] # None => tier[req'[q].obligation] # "A"
  PROVE  ReviewsFollowRouting'
  BY DEF ReviewsFollowRouting

LEMMA BranchFollows ==
  ASSUME Basis, ReviewsFollowRouting, NEW o \in Obligations, Branch(o)
  PROVE  ReviewsFollowRouting'
  <1> USE DEF graphVars, indexVars, engineVars, localVars, outVars, Basis
  <1>0. o \in Actors
    BY DEF Actors
  <1>1. CASE RouteAndPreCommit(o)
    <2>1. PICK t \in RoutedTiers[o], label \in {"commit", "suspend", "done"} :
            /\ tier' = [tier EXCEPT ![o] = t]
            /\ pc' = [pc EXCEPT ![o] = label]
            /\ label = "commit" => t = "A"
            /\ label = "suspend" => t # "A"
      BY <1>1 DEF RouteAndPreCommit, Goto
    <2>2. t # None
      BY ConstantsAssumption, NoneAssumption
    <2>3. /\ pc'[o] = label /\ tier'[o] = t
          /\ \A p \in Obligations : p # o => pc'[p] = pc[p] /\ tier'[p] = tier[p]
      BY <1>0, <2>1, OneMoves DEF WellFormed, TypeOK, Actors
    <2>4. /\ index'[o] = None /\ reviews'[o] = {}
          /\ \A q \in Requests : req'[q] # None => req'[q].obligation # o
      BY <1>1 DEF RouteAndPreCommit, DecisionBasis, NothingBeforeRouting
    <2>5. UNCHANGED <<index, reviews, req>>
      BY <1>1 DEF RouteAndPreCommit
    <2>6. \A q \in Requests : req'[q] # None => req'[q].obligation \in Obligations \ {o}
      BY <2>4, <2>5 DEF WellFormed, TypeOK, RequestRecords
    <2> QED
      BY <2>1, <2>2, <2>3, <2>4, <2>5, <2>6 DEF ReviewsFollowRouting, InFinalize
  <1>2. CASE RecordSuspension(o)
    <2>1. pc'[o] = "suspending" /\ \A p \in Obligations : p # o => pc'[p] = pc[p]
      BY <1>0, <1>2, OneMoves DEF RecordSuspension, Goto, Actors
    <2>2. \A p \in Obligations : p # o => index'[p] = index[p]
      BY <1>2 DEF RecordSuspension, WellFormed, TypeOK
    <2> QED
      BY <1>2, <2>1, <2>2, RoutingKeeps DEF RecordSuspension, ReviewsFollowRouting, InFinalize
  <1>3. CASE Suspend(o)
    <2>1. pc'[o] = "done" /\ \A p \in Obligations : p # o => pc'[p] = pc[p]
      BY <1>0, <1>3, OneMoves DEF Suspend, Goto, Actors
    <2> QED
      BY <1>3, <2>1, RoutingKeeps DEF Suspend, ReviewsFollowRouting, InFinalize
  <1> QED
    BY <1>1, <1>2, <1>3 DEF Branch

LEMMA DeliverFollows ==
  ASSUME Basis, ReviewsFollowRouting, NEW q \in Requests, NEW r, Deliver(q, r),
         tier[r.obligation] # "A"
  PROVE  ReviewsFollowRouting'
  <1>1. \A o \in Obligations : pc'[o] = pc[o]
    BY ConstantsAssumption DEF Deliver, Goto, Basis, WellFormed, TypeOK, Actors
  <1>2. \A p \in Requests : req'[p] = req[p] \/ req'[p] = r
    BY DEF Deliver, Basis, WellFormed, TypeOK
  <1> QED
    BY <1>1, <1>2, RoutingKeeps DEF Deliver, graphVars, indexVars, ReviewsFollowRouting

LEMMA SurfaceFollows ==
  ASSUME Basis, ReviewsFollowRouting, NEW o \in Obligations, NEW r \in Reviewers,
         Surface(o, r)
  PROVE  ReviewsFollowRouting'
  <1>1. CASE Claim(o, r)
    BY <1>1, RoutingKeeps DEF Claim, graphVars, localVars, ReviewsFollowRouting
  <1>2. ASSUME NEW q \in Requests, Submit(q, o, r)
        PROVE  ReviewsFollowRouting'
    BY <1>2, DeliverFollows DEF Submit, ReviewsFollowRouting
  <1> QED
    BY <1>1, <1>2 DEF Surface

LEMMA RedeliverFollows ==
  ASSUME Basis, ReviewsFollowRouting, NEW q \in Requests, Redeliver(q)
  PROVE  ReviewsFollowRouting'
  <1>1. ASSUME NEW p \in Requests, req[p] # None, Deliver(q, req[p])
        PROVE  ReviewsFollowRouting'
    BY <1>1, DeliverFollows DEF ReviewsFollowRouting
  <1>2. ASSUME NEW o \in Obligations, NEW rev \in reviews[o], Deliver(q, rev.request)
        PROVE  ReviewsFollowRouting'
    <2>1. rev.request.obligation = o /\ reviews[o] # {}
      BY DEF Basis, DecisionBasis, ReviewsBelong
    <2> QED
      BY <1>2, <2>1, DeliverFollows DEF ReviewsFollowRouting
  <1> QED
    BY <1>1, <1>2 DEF Redeliver

(***************************************************************************)
(* A handler or a branch that leaves, or a handler that goes on.           *)
(***************************************************************************)
LEMMA LeaveFollows ==
  ASSUME Basis, NEW a \in Actors, Leave(a), pc[a] # "unrouted"
  PROVE  /\ \A o \in Obligations :
              /\ pc'[o] = "unrouted" <=> pc[o] = "unrouted"
              /\ pc'[o] \in {"suspend", "suspending"} => pc[o] \in {"suspend", "suspending"}
              /\ pc'[o] \in InFinalize => pc[o] \in InFinalize
         /\ \A q \in Requests : req'[q] # None => req'[q] = req[q]
  <1>1. pc'[a] \in {"idle", "done"} /\ \A b \in Actors : b # a => Same(b)
    BY LeaveSame DEF Basis
  <1>2. a \in Requests => req'[a] = None
    BY DEF Basis, WellFormed, TypeOK, Leave, Answer
  <1> QED
    BY <1>1, <1>2 DEF Same, Actors, InFinalize

LEMMA HandleFollows ==
  ASSUME Basis, ReviewsFollowRouting, NEW q \in Requests, Handle(q)
  PROVE  ReviewsFollowRouting'
  <1> USE DEF graphVars, indexVars, engineVars, localVars, outVars, Unchanged_Reading
  <1>0. q \in Actors /\ pc[q] # "unrouted" /\ (Answer(q) => Leave(q))
    BY DEF Actors, Leave, Handle, Validate, CheckStep, CheckAssignment, QueryLedger,
           ReadReviews, WriteReview, AppendLedger, Resume, Resuspend
  <1>1. req[q] \in RequestRecords /\ req[q] # None /\ Ob(q) = req[q].obligation
    BY SlotAssumption, ConstantsAssumption
    DEF Basis, WellFormed, Shape, Handle, Validate, CheckStep, CheckAssignment, QueryLedger,
        ReadReviews, WriteReview, AppendLedger, Resume, Resuspend, Ob
  <1>2. PICK o \in Obligations : o = Ob(q) /\ tier[o] # "A"
    BY <1>1 DEF RequestRecords, ReviewsFollowRouting
  <1>3. /\ tier' = tier
        /\ \A p \in Obligations : p # o => reviews'[p] = reviews[p] /\ index'[p] = index[p]
    BY <1>2 DEF Handle, Validate, CheckStep, CheckAssignment, QueryLedger, ReadReviews,
                WriteReview, AppendLedger, Resume, Resuspend, Refuse,
                Basis, WellFormed, TypeOK
  <1>4. Answer(q) \/ (req' = req /\ \E label : Goto(q, label))
    BY DEF Handle, Validate, CheckStep, CheckAssignment, QueryLedger, ReadReviews,
           WriteReview, AppendLedger, Resume, Resuspend, Refuse
  <1>5. CASE Answer(q)
    BY <1>0, <1>2, <1>3, <1>5, LeaveFollows, RoutingKeeps DEF ReviewsFollowRouting
  <1>6. CASE req' = req /\ \E label : Goto(q, label)
    <2>1. \A p \in Obligations : pc'[p] = pc[p]
      BY <1>0, <1>6, OneMoves DEF Goto, Basis
    <2> QED
      BY <1>2, <1>3, <1>6, <2>1, RoutingKeeps DEF ReviewsFollowRouting
  <1> QED
    BY <1>4, <1>5, <1>6

LEMMA FinalizeFollows ==
  ASSUME Basis, ReviewsFollowRouting, NEW a \in Actors, Finalize(a)
  PROVE  ReviewsFollowRouting'
  <1> USE DEF graphVars, indexVars, engineVars, localVars, outVars
  <1>1. pc[a] \in InFinalize
    BY DEF Finalize, CheckCommitLog, ApplyCommit, ConflictCommit, AnnounceWin, AnnounceLoss,
           FireTicket, Settle, InFinalize
  <1>2. tier' = tier /\ reviews' = reviews
    BY DEF Finalize, CheckCommitLog, ApplyCommit, ConflictCommit, AnnounceWin, AnnounceLoss,
           FireTicket, Settle
  <1>3. \A o \in Obligations : index'[o] # None => index'[o] = index[o]
    <2>1. index' = index \/ \E o : index' = [index EXCEPT ![o] = None]
      BY DEF Finalize, CheckCommitLog, ApplyCommit, ConflictCommit, AnnounceWin,
             AnnounceLoss, FireTicket, Settle, ClearIndex
    <2> QED
      BY <2>1 DEF Basis, WellFormed, TypeOK
  <1>4. Leave(a) \/ (req' = req /\ \E label \in InFinalize : Goto(a, label))
    BY DEF Finalize, CheckCommitLog, ApplyCommit, ConflictCommit, AnnounceWin, AnnounceLoss,
           FireTicket, Settle, InFinalize
  <1>5. CASE Leave(a)
    <2>1. pc[a] # "unrouted"
      BY <1>1 DEF InFinalize
    <2> QED
      BY <1>2, <1>3, <1>5, <2>1, LeaveFollows, RoutingKeeps DEF ReviewsFollowRouting
  <1>6. CASE req' = req /\ \E label \in InFinalize : Goto(a, label)
    <2>1. \A b \in Actors : pc'[b] = pc[b] \/ (b = a /\ pc'[b] \in InFinalize)
      BY <1>6 DEF Goto, Basis, WellFormed, TypeOK
    <2> QED
      BY <1>1, <1>2, <1>3, <1>6, <2>1, RoutingKeeps
      DEF ReviewsFollowRouting, InFinalize, Actors
  <1> QED
    BY <1>4, <1>5, <1>6

LEMMA EnvironmentFollows ==
  ASSUME Basis, ReviewsFollowRouting,
         (\E a \in Actors : Throw(a)) \/ FindGap \/ FillGap \/ Restart \/ UNCHANGED vars
  PROVE  ReviewsFollowRouting'
  <1> USE DEF graphVars, indexVars, engineVars, localVars, outVars
  <1>1. ASSUME NEW a \in Actors, Throw(a)
        PROVE  ReviewsFollowRouting'
    <2>1. Leave(a) /\ pc[a] # "unrouted" /\ UNCHANGED <<tier, index, reviews>>
      BY <1>1 DEF Throw, PortCalls
    <2> QED
      BY <2>1, LeaveFollows, RoutingKeeps DEF ReviewsFollowRouting
  <1>2. CASE FindGap \/ FillGap
    BY <1>2, RoutingKeeps DEF FindGap, FillGap, ReviewsFollowRouting
  <1>3. CASE Restart
    <2>1. \A o \in Obligations : pc'[o] = IF pc[o] = "unrouted" THEN "unrouted" ELSE "done"
      BY <1>3, ConstantsAssumption DEF Restart, Actors
    <2>2. \A q \in Requests : req'[q] = None
      BY <1>3 DEF Restart
    <2> QED
      BY <1>3, <2>1, <2>2, RoutingKeeps DEF Restart, ReviewsFollowRouting, InFinalize
  <1>4. CASE UNCHANGED vars
    BY <1>4 DEF vars, ReviewsFollowRouting
  <1> QED
    BY <1>1, <1>2, <1>3, <1>4

LEMMA NextFollows == Basis /\ ReviewsFollowRouting /\ [Next]_vars => ReviewsFollowRouting'
  BY BranchFollows, SurfaceFollows, RedeliverFollows, HandleFollows, FinalizeFollows,
     EnvironmentFollows
  DEF Next

LEMMA AlwaysFollows == Spec => [](Basis /\ ReviewsFollowRouting)
  <1>1. Init => Basis /\ ReviewsFollowRouting
    BY InitWellFormed, InitBasis, InitFollows DEF Basis
  <1>2. Basis /\ ReviewsFollowRouting /\ [Next]_vars => (Basis /\ ReviewsFollowRouting)'
    BY NextBasis, NextFollows
  <1> QED
    BY <1>1, <1>2, PTL DEF Spec

-----------------------------------------------------------------------------
(* What a step does to what the policy speaks of.                          *)

LEMMA OnlyTheseDecide ==
  ASSUME [Next]_vars,
         \A o \in Obligations : ~RouteAndPreCommit(o),
         \A q \in Requests : ~WriteReview(q),
         \A a \in Actors : ~ApplyCommit(a)
  PROVE  UNCHANGED graphVars
  <1> USE DEF graphVars
  <1>1. ASSUME NEW o \in Obligations, Branch(o)
        PROVE  UNCHANGED graphVars
    BY <1>1 DEF Branch, RecordSuspension, Suspend
  <1>2. ASSUME NEW q \in Requests, Handle(q)
        PROVE  UNCHANGED graphVars
    BY <1>2 DEF Handle, Validate, CheckStep, CheckAssignment, QueryLedger, ReadReviews,
                AppendLedger, Resume, Resuspend, Refuse, Unchanged_Reading
  <1>3. ASSUME NEW a \in Actors, Finalize(a)
        PROVE  UNCHANGED graphVars
    BY <1>3 DEF Finalize, CheckCommitLog, ConflictCommit, AnnounceWin, AnnounceLoss,
                FireTicket, Settle
  <1>4. ASSUME NEW o \in Obligations, NEW r \in Reviewers, Surface(o, r)
        PROVE  UNCHANGED graphVars
    BY <1>4 DEF Surface, Claim, Submit, Deliver
  <1>5. ASSUME NEW q \in Requests, Redeliver(q)
        PROVE  UNCHANGED graphVars
    BY <1>5 DEF Redeliver, Deliver
  <1>6. ASSUME (\E a \in Actors : Throw(a)) \/ FindGap \/ FillGap \/ Restart
        PROVE  UNCHANGED graphVars
    BY <1>6 DEF Throw, FindGap, FillGap, Restart
  <1>7. CASE UNCHANGED vars
    BY <1>7 DEF vars
  <1> QED
    BY <1>1, <1>2, <1>3, <1>4, <1>5, <1>6, <1>7 DEF Next

(***************************************************************************)
(* Under a strict engine a run is in one hand, and what is stored and      *)
(* announced agrees with how far it is.                                    *)
(***************************************************************************)
THEOREM RunBasisAlways == ASSUME StrictEngine PROVE Spec => []RunBasis
  BY AlwaysStrong, PTL DEF Strong

(***************************************************************************)
(* At most one ticket is asked for, and only for an obligation that became *)
(* binding; the final audit events name the outcome the graph holds.       *)
(***************************************************************************)
THEOREM EffectsAlwaysJustified == ASSUME StrictEngine PROVE Spec => []EffectsAreJustified
  BY RunBasisAlways, PTL DEF RunBasis

(***************************************************************************)
(* An old obligation is closed exactly by the binding one that overwrites  *)
(* it, under every disturbance.                                            *)
(***************************************************************************)
THEOREM SupersessionAlwaysExact == ASSUME StrictEngine PROVE Spec => []SupersessionIsExact
  BY RunBasisAlways, PTL DEF RunBasis

(***************************************************************************)
(* No step changes the status of an obligation whose decision is in        *)
(* CommitLog, under every disturbance.                                     *)
(***************************************************************************)
THEOREM DecisionAlwaysFinal == ASSUME StrictEngine PROVE Spec => DecisionIsFinal
  <1>1. Strong /\ [Next]_vars =>
          [\A o \in Obligations : commitLog[o] # None => status'[o] = status[o]]_vars
    <2> SUFFICES ASSUME Strong, [Next]_vars, NEW o \in Obligations, commitLog[o] # None
                 PROVE  status'[o] = status[o]
      OBVIOUS
    <2>1. \A a \in Actors : Carries(a) /\ Ob(a) = o => pc[a] \in {"won", "ticket", "settle"}
      BY RunByParts DEF Strong, RunParts, ActorFits, Progress, Undecided
    <2>2. ASSUME NEW p \in Obligations, RouteAndPreCommit(p)
          PROVE  status'[o] = status[o]
      <3>1. p # o
        BY <2>1, <2>2, BranchObligation DEF RouteAndPreCommit, Carries, Carrying
      <3> QED
        BY <2>2, <3>1 DEF RouteAndPreCommit, Strong, Basis, WellFormed, TypeOK
    <2>3. ASSUME NEW q \in Requests, WriteReview(q)
          PROVE  status'[o] = status[o]
      BY <2>3 DEF WriteReview
    <2>4. ASSUME NEW a \in Actors, ApplyCommit(a)
          PROVE  status'[o] = status[o]
      <3>1. Ob(a) # o
        BY <2>1, <2>4 DEF ApplyCommit, Carries, Carrying, InFinalize
      <3> QED
        BY <2>4, <3>1 DEF ApplyCommit, Strong, Basis, WellFormed, TypeOK
    <2> QED
      BY <2>2, <2>3, <2>4, OnlyTheseDecide DEF graphVars
  <1> QED
    BY <1>1, AlwaysStrong, PTL DEF Spec, DecisionIsFinal

(***************************************************************************)
(* Of two proposals for one old obligation the first keeps it, under       *)
(* either engine.                                                          *)
(***************************************************************************)
THEOREM SupersededOnceAlways == Spec => SupersededOnce
  <1>1. WellFormed /\ [Next]_vars =>
          [\A x \in OldObligations :
             supersededBy[x] # None => supersededBy'[x] = supersededBy[x]]_vars
    <2> SUFFICES ASSUME WellFormed, [Next]_vars, NEW x \in OldObligations, supersededBy[x] # None
                 PROVE  supersededBy'[x] = supersededBy[x]
      OBVIOUS
    <2>1. ASSUME NEW a \in Actors, ApplyCommit(a)
          PROVE  supersededBy'[x] = supersededBy[x]
      BY <2>1 DEF ApplyCommit, StillLive, WellFormed, TypeOK
    <2>2. ASSUME NEW p \in Obligations, RouteAndPreCommit(p)
          PROVE  supersededBy'[x] = supersededBy[x]
      BY <2>2 DEF RouteAndPreCommit
    <2>3. ASSUME NEW q \in Requests, WriteReview(q)
          PROVE  supersededBy'[x] = supersededBy[x]
      BY <2>3 DEF WriteReview
    <2> QED
      BY <2>1, <2>2, <2>3, OnlyTheseDecide DEF graphVars
  <1> QED
    BY <1>1, AlwaysWellFormed, PTL DEF Spec, SupersededOnce

-----------------------------------------------------------------------------
(* The refinement of ReviewPolicy.                                         *)

Requested == [o \in Obligations |-> {rev.request : rev \in reviews[o]}]

LEMMA InitIsPolicy == Init => Policy!Init
  <1> SUFFICES ASSUME Init PROVE Policy!Init
    OBVIOUS
  <1>1. Requested = [o \in Obligations |-> {}]
    BY DEF Init, Requested
  <1> QED
    BY <1>1 DEF Init, Policy!Init, Requested

LEMMA RouteIsPolicy ==
  ASSUME Strong, ReviewsFollowRouting, NEW o \in Obligations, RouteAndPreCommit(o)
  PROVE  Policy!Route(o)
  <1>1. tier[o] = None
    BY DEF RouteAndPreCommit, ReviewsFollowRouting
  <1>2. Requested' = Requested /\ UNCHANGED <<commitLog, supersededBy>>
    BY DEF RouteAndPreCommit, Requested
  <1> QED
    BY <1>1, <1>2
    DEF RouteAndPreCommit, Policy!Route, Policy!PreReviewStatus, PreReviewStatus, Requested

(***************************************************************************)
(* A review is written for an obligation that was routed to people.        *)
(***************************************************************************)
LEMMA ReviewIsPolicy ==
  ASSUME Strong, ReviewsFollowRouting, NEW q \in Requests, WriteReview(q)
  PROVE  \E o \in Obligations : Policy!Review(o)
  <1>1. req[q] \in RequestRecords /\ req[q] # None /\ Ob(q) = req[q].obligation
    BY SlotAssumption, ConstantsAssumption
    DEF Strong, Basis, WellFormed, Shape, WriteReview, Ob
  <1>2. PICK o \in Obligations : o = Ob(q)
    BY <1>1 DEF RequestRecords
  <1>3. pc[o] # "unrouted" /\ tier[o] # "A"
    BY <1>1, <1>2 DEF Strong, Basis, DecisionBasis, NothingBeforeRouting, ReviewsFollowRouting
  <1>4. tier[o] \in Tiers \ {"A"}
    BY <1>3 DEF Strong, Basis, WellFormed, TypeOK, ReviewsFollowRouting
  <1>5. Requested' = [Requested EXCEPT ![o] = @ \cup {req[q]}]
    <2>1. reviews' = [reviews EXCEPT ![o] = @ \cup {NewReview(q)}]
      BY <1>2 DEF WriteReview
    <2>2. NewReview(q).request = req[q]
      BY DEF NewReview
    <2>3. /\ reviews'[o] = reviews[o] \cup {NewReview(q)}
          /\ \A p \in Obligations : p # o => reviews'[p] = reviews[p]
      BY <2>1 DEF Strong, Basis, WellFormed, TypeOK
    <2>4. {rev.request : rev \in reviews'[o]} = {rev.request : rev \in reviews[o]} \cup {req[q]}
      BY <2>2, <2>3
    <2> QED
      BY <2>3, <2>4 DEF Requested
  <1>6. UNCHANGED <<tier, status, commitLog, supersededBy>>
    BY DEF WriteReview
  <1> QED
    BY <1>1, <1>2, <1>4, <1>5, <1>6 DEF Policy!Review, Policy!Tiers, Tiers, Requested

(***************************************************************************)
(* What the reviews agree on, seen through their requests.                 *)
(***************************************************************************)
LEMMA AgreementIsPolicy ==
  ASSUME NEW o \in Obligations, NEW d
  PROVE  /\ AgreedOn(o, d) => Policy!Unanimous(o, d)
         /\ DisagreedOn(o) => Policy!IndependentPair(o, "approve", "reject")
  BY DEF AgreedOn, DisagreedOn, Policy!Unanimous, Policy!IndependentPair,
         Policy!RequiresSecondReview, RequiresSecondReview

LEMMA FinalIsJustified ==
  ASSUME Strong, ReviewsFollowRouting, NEW a \in Actors, pc[a] = "apply",
         NEW o \in Obligations, o = Ob(a)
  PROVE  Policy!Justified(o, FinalOf(a)) /\ FinalOf(a) \in FinalOutcomes
  <1>1. CASE a \in Obligations
    BY <1>1 DEF ReviewsFollowRouting, InFinalize, Ob, FinalOf, FinalOutcomes, Policy!Justified
  <1>2. CASE a \notin Obligations
    <2>1. /\ a \in Requests /\ outcome[a] \in Final /\ req[a] \in RequestRecords
          /\ req[a] # None /\ o = req[a].obligation
      BY <1>2, SlotAssumption
      DEF Actors, Strong, Basis, WellFormed, Shape, InFinalize, Ob
    <2>2. Supports(o, outcome[a])
      BY <2>1 DEF Strong, Basis, DecisionBasis, OutcomesAreJustified, InFinalize
    <2>3. tier[o] \in Tiers \ {"A"}
      BY <2>1
      DEF Strong, Basis, WellFormed, TypeOK, DecisionBasis, NothingBeforeRouting,
          ReviewsFollowRouting
    <2>4. FinalOf(a) = FinalOutcomeOf(outcome[a])
      BY <1>2 DEF FinalOf
    <2>5. CASE outcome[a] = "APPROVED"
      BY <2>2, <2>4, <2>5, AgreementIsPolicy
      DEF Supports, FinalOutcomeOf, FinalOutcomes, Policy!Justified
    <2>6. CASE outcome[a] = "REJECTED"
      BY <2>2, <2>4, <2>6, AgreementIsPolicy
      DEF Supports, FinalOutcomeOf, FinalOutcomes, Policy!Justified
    <2>7. CASE outcome[a] = "ESCALATED_DISAGREEMENT"
      <3>1. FinalOf(a) = "disagreement" /\ DisagreedOn(o)
        BY <2>2, <2>4, <2>7 DEF Supports, FinalOutcomeOf
      <3>2. RequiresSecondReview(tier[o])
        BY <2>3, <3>1 DEF DisagreedOn, RequiresSecondReview, Tiers
      <3> QED
        BY <3>1, <3>2, AgreementIsPolicy
        DEF FinalOutcomes, Policy!Justified, Policy!RequiresSecondReview, RequiresSecondReview
    <2> QED
      BY <2>1, <2>5, <2>6, <2>7 DEF Final, ReviewOutcomes
  <1> QED
    BY <1>1, <1>2

LEMMA CommitIsPolicy ==
  ASSUME Strong, ReviewsFollowRouting, NEW a \in Actors, ApplyCommit(a)
  PROVE  \E o \in Obligations : Policy!Decide(o)
  <1>1. Carries(a) /\ pc[a] = "apply" /\ Progress(a) /\ WellFormed
    BY RunByParts
    DEF ApplyCommit, Carries, Carrying, InFinalize, Strong, RunParts, ActorFits, Basis
  <1>2. PICK o \in Obligations : o = Ob(a)
    BY <1>1, CarrierHasObligation
  <1>3. commitLog[o] = None
    BY <1>1, <1>2 DEF Progress, Undecided
  <1>4. tier[o] # None
    <2>1. CASE a \in Obligations
      BY <1>1, <1>2, <2>1 DEF ReviewsFollowRouting, Ob
    <2>2. CASE a \notin Obligations
      BY <1>1, <1>2, <2>2, SlotAssumption
      DEF Actors, WellFormed, Shape, InFinalize, Ob, Strong, Basis, DecisionBasis,
          NothingBeforeRouting, ReviewsFollowRouting
    <2> QED
      BY <2>1, <2>2
  <1>5. Policy!Justified(o, FinalOf(a)) /\ FinalOf(a) \in FinalOutcomes
    BY <1>1, <1>2, FinalIsJustified
  <1>6. /\ commitLog' = [commitLog EXCEPT ![o] = FinalOf(a)]
        /\ status' = [status EXCEPT ![o] = FinalStatus(FinalOf(a))]
        /\ UNCHANGED <<tier, reviews>>
    BY <1>1, <1>2, <1>3 DEF ApplyCommit, TypeOK, WellFormed
  <1>7. IF Binding(FinalOf(a)) /\ Overwrites[o] # None
        THEN /\ supersededBy[Overwrites[o]] = None
             /\ supersededBy' = [supersededBy EXCEPT ![Overwrites[o]] = o]
        ELSE UNCHANGED supersededBy
    BY <1>2 DEF ApplyCommit, Closes, StillLive
  <1> QED
    BY <1>3, <1>4, <1>5, <1>6, <1>7
    DEF Policy!Decide, Policy!FinalOutcomes, FinalOutcomes, Policy!FinalStatus, FinalStatus,
        Policy!Binding, Binding

LEMMA NextIsPolicy ==
  ASSUME Strong, ReviewsFollowRouting, [Next]_vars
  PROVE  [Policy!Next]_(Policy!policyVars)
  <1>1. CASE /\ \A o \in Obligations : ~RouteAndPreCommit(o)
             /\ \A q \in Requests : ~WriteReview(q)
             /\ \A a \in Actors : ~ApplyCommit(a)
    BY <1>1, OnlyTheseDecide DEF graphVars, Policy!policyVars
  <1>2. ASSUME NEW o \in Obligations, RouteAndPreCommit(o)
        PROVE  Policy!Next
    BY <1>2, RouteIsPolicy DEF Policy!Next
  <1>3. ASSUME NEW q \in Requests, WriteReview(q)
        PROVE  Policy!Next
    BY <1>3, ReviewIsPolicy DEF Policy!Next
  <1>4. ASSUME NEW a \in Actors, ApplyCommit(a)
        PROVE  Policy!Next
    BY <1>4, CommitIsPolicy DEF Policy!Next
  <1> QED
    BY <1>1, <1>2, <1>3, <1>4

(***************************************************************************)
(* The gate implements the policy: every decision is one step, taken once, *)
(* on reviews that justify it, and closes the old obligation with it,      *)
(* although a handler takes nine awaits and anything may fail in between.  *)
(***************************************************************************)
THEOREM GateImplementsPolicy == ASSUME StrictEngine PROVE Spec => ImplementsPolicy
  BY InitIsPolicy, NextIsPolicy, AlwaysStrong, AlwaysFollows, PTL
  DEF Spec, ImplementsPolicy, Policy!Spec

(***************************************************************************)
(* One maker and one checker.  As long as no event is delivered twice and  *)
(* no reviewer submits twice at once, the claims that a handler looks at   *)
(* before it reads the reviews are enough, under either engine and with    *)
(* any other disturbance.  And as long as no port fails, the index agrees  *)
(* with the engine whenever nobody is at work on an obligation.            *)
(***************************************************************************)
Routed == Basis /\ ReviewsFollowRouting

\* What the surfaces must see to: one submission at a time, and each once.
OneSubmission == ~ConcurrentSubmits /\ ~Disturbed("redeliver")

ReviewsFinite == \A o \in Obligations : IsFiniteSet(reviews[o])

Ordered == Routed /\ ClaimsBasis /\ ReviewsFinite

-----------------------------------------------------------------------------
(* Fewer than two reviews, as the count of FR-23 says it and as it is used.*)

LEMMA FewAreOne ==
  ASSUME NEW S, IsFiniteSet(S), Cardinality(S) < 2, NEW x \in S, NEW y \in S
  PROVE  x = y
  <1> SUFFICES ASSUME x # y PROVE FALSE
    OBVIOUS
  <1> DEFINE T == S \ {x}
  <1>1. Cardinality(S) \in Nat
    BY FS_CardinalityType
  <1>2. IsFiniteSet(T) /\ Cardinality(T) = Cardinality(S) - 1
    BY FS_RemoveElement
  <1>3. IsFiniteSet(T \ {y}) /\ Cardinality(T \ {y}) = Cardinality(T) - 1
    BY <1>2, FS_RemoveElement
  <1>4. Cardinality(T \ {y}) \in Nat
    BY <1>3, FS_CardinalityType
  <1> QED
    BY <1>1, <1>2, <1>3, <1>4

LEMMA MayReviewMeansFew ==
  ASSUME Ordered, NEW q \in Requests, NEW o \in Obligations, o = Ob(q),
         MayReview(q), RequiresSecondReview(tier[o])
  PROVE  ~TwoReviews(o)
  <1>1. Cardinality(reviews[o]) < 2
    BY DEF MayReview, RequiredReviewCount, WireTier
  <1> QED
    BY <1>1, FewAreOne DEF TwoReviews, Ordered, ReviewsFinite

-----------------------------------------------------------------------------
(* Steps that write no review.                                             *)

LEMMA BusyHandler ==
  ASSUME WellFormed, NEW q \in Requests, pc[q] # "idle"
  PROVE  /\ req[q] \in RequestRecords /\ req[q] # None
         /\ Ob(q) = req[q].obligation /\ Ob(q) \in Obligations
         /\ req[q].step \in Steps /\ req[q].reviewer \in Reviewers /\ req[q].reviewer # None
  BY SlotAssumption, ConstantsAssumption DEF WellFormed, Shape, Ob, RequestRecords

(***************************************************************************)
(* Two handlers at work on one obligation are of two people.               *)
(***************************************************************************)
Apart ==
  \A p, q \in Requests :
    p # q /\ req[p] # None /\ req[q] # None /\ req[p].obligation = req[q].obligation
      => req[p].reviewer # req[q].reviewer

(***************************************************************************)
(* A handler is admitted only while it holds its slot and writes only when *)
(* it has seen that it may; those who are in hand keep their slots.        *)
(***************************************************************************)
LEMMA OrderKeeps ==
  ASSUME Ordered, UNCHANGED <<tier, reviews>>, Apart',
         \A o \in Obligations : RequiresSecondReview(tier[o]) /\ InHand(o)' /\ ~TwoReviews(o) =>
           /\ InHand(o)
           /\ \A step \in Steps : SlotOf(o, step) # None => SlotOf(o, step)' = SlotOf(o, step),
         \A q \in Requests : Admitted(q)' =>
           /\ pc[q] # "idle" /\ req'[q] = req[q]
           /\ Admitted(q) \/ (RequiresSecondReview(tier[Ob(q)]) => HoldsSlot(q)),
         \A q \in Requests : pc'[q] = "writeReview" => pc[q] = "writeReview" \/ MayReview(q),
         \A o \in Obligations : pc'[o] \in {"unrouted", "suspend"} =>
           pc[o] \in {"unrouted", "suspend"} /\ (InHand(o)' => InHand(o))
  PROVE  ClaimsBasis' /\ ReviewsFinite'
  <1> USE DEF Ordered, Routed, Basis
  <1>1. ASSUME NEW q \in Requests, Admitted(q)'
        PROVE  /\ req'[q] = req[q] /\ Ob(q)' = Ob(q) /\ Ob(q) \in Obligations
               /\ req[q].step \in Steps /\ req[q].reviewer # None
               /\ Ob(q) = req[q].obligation /\ req[q] # None
    BY <1>1, BusyHandler DEF Ob
  <1>2. \A o \in Obligations : TwoReviews(o)' <=> TwoReviews(o)
    BY DEF TwoReviews
  <1>3. WritersAreNew'
    <2>1. ASSUME NEW q \in Requests, pc'[q] = "writeReview", NEW rev \in reviews'[Ob(q)']
          PROVE  rev.request.reviewer # req'[q].reviewer
      <3>1. Ob(q)' = Ob(q) /\ req'[q] = req[q]
        BY <1>1, <2>1 DEF Admitted
      <3> QED
        BY <2>1, <3>1 DEF ClaimsBasis, WritersAreNew, MayReview
    <2> QED
      BY <2>1 DEF WritersAreNew, Apart
  <1>4. ASSUME NEW o \in Obligations, RequiresSecondReview(tier[o])
        PROVE  SlotsStand(o)'
    <2>0. SlotsStand(o)
      BY <1>4 DEF ClaimsBasis
    <2>1. ASSUME InHand(o)', ~TwoReviews(o)'
          PROVE  /\ \A rev \in reviews'[o] : rev.request.reviewer = SlotOf(o, rev.request.step)'
                 /\ \A q \in Requests : Admitted(q)' /\ Ob(q)' = o => HoldsSlot(q)'
      <3>1. /\ InHand(o) /\ ~TwoReviews(o)
            /\ \A step \in Steps : SlotOf(o, step) # None => SlotOf(o, step)' = SlotOf(o, step)
        BY <1>2, <1>4, <2>1
      <3>2. ASSUME NEW rev \in reviews'[o]
            PROVE  rev.request.reviewer = SlotOf(o, rev.request.step)'
        <4>1. rev \in ReviewRecords /\ rev.request.reviewer = SlotOf(o, rev.request.step)
          BY <2>0, <3>1 DEF WellFormed, TypeOK, SlotsStand
        <4>2. rev.request.step \in Steps /\ rev.request.reviewer # None
          BY <4>1, ConstantsAssumption DEF ReviewRecords, RequestRecords
        <4> QED
          BY <3>1, <4>1, <4>2 DEF SlotOf
      <3>3. ASSUME NEW q \in Requests, Admitted(q)', Ob(q)' = o
            PROVE  HoldsSlot(q)'
        <4>1. /\ req'[q] = req[q] /\ Ob(q) = o
              /\ req[q].step \in Steps /\ req[q].reviewer # None
          BY <1>1, <3>3
        <4>2. req[q].reviewer = SlotOf(o, req[q].step)
          BY <1>4, <2>0, <3>1, <3>3, <4>1 DEF SlotsStand, HoldsSlot
        <4>3. SlotOf(o, req[q].step)' = SlotOf(o, req[q].step)
          BY <3>1, <4>1, <4>2
        <4> QED
          BY <3>3, <4>1, <4>2, <4>3 DEF HoldsSlot, SlotOf
      <3> QED
        BY <3>2, <3>3
    <2>2. ASSUME TwoReviews(o)', NEW q \in Requests, pc'[q] = "writeReview"
          PROVE  Ob(q)' # o
      <3>1. Ob(q)' = Ob(q) /\ TwoReviews(o)
        BY <1>1, <1>2, <2>2 DEF Admitted
      <3>2. CASE pc[q] = "writeReview"
        BY <2>0, <3>1, <3>2 DEF SlotsStand
      <3>3. CASE MayReview(q)
        BY <1>4, <3>1, <3>3, MayReviewMeansFew
      <3> QED
        BY <2>2, <3>2, <3>3
    <2> QED
      BY <2>1, <2>2 DEF SlotsStand
  <1>5. ASSUME NEW o \in Obligations, pc'[o] \in {"unrouted", "suspend"}
        PROVE  ~InHand(o)' /\ reviews'[o] = {}
    BY <1>5 DEF ClaimsBasis
  <1>6. MakerThenChecker' /\ ReviewsFinite'
    BY DEF ClaimsBasis, MakerThenChecker, ReviewsFinite
  <1> QED
    BY <1>3, <1>4, <1>5, <1>6 DEF ClaimsBasis

(***************************************************************************)
(* Most steps deliver nothing, and tell the index of an obligation only    *)
(* what somebody with a submission on it has to say.                       *)
(***************************************************************************)
LEMMA HandsOnly ==
  ASSUME Ordered,
         \A q \in Requests : req'[q] # None => req'[q] = req[q],
         \A o \in Obligations : index'[o] # None => InHand(o)
  PROVE  Apart' /\ \A o \in Obligations : InHand(o)' => InHand(o)
  <1>1. Apart
    BY DEF Ordered, ClaimsBasis, WritersAreNew, Apart
  <1>2. Apart'
    BY <1>1 DEF Apart
  <1> QED
    BY <1>2 DEF InHand

(***************************************************************************)
(* Nobody forgets the claims of an obligation that can still be reviewed:  *)
(* who clears the index carries a final outcome, and that takes two        *)
(* reviews at a dual-review tier.                                          *)
(***************************************************************************)
LEMMA FinalMeansTwo ==
  ASSUME Ordered, NEW a \in Actors, pc[a] \in InFinalize,
         NEW o \in Obligations, o = Ob(a), RequiresSecondReview(tier[o])
  PROVE  TwoReviews(o)
  <1>1. CASE a \in Obligations
    BY <1>1 DEF Ordered, Routed, ReviewsFollowRouting, Ob, RequiresSecondReview
  <1>2. CASE a \notin Obligations
    <2>1. a \in Requests /\ outcome[a] \in Final
      BY <1>2 DEF Actors, Ordered, Routed, Basis, WellFormed, Shape, InFinalize
    <2>2. Supports(o, outcome[a])
      BY <2>1 DEF Ordered, Routed, Basis, DecisionBasis, OutcomesAreJustified
    <2>3. AgreedOn(o, "approve") \/ AgreedOn(o, "reject") \/ DisagreedOn(o)
      BY <2>1, <2>2 DEF Supports, Final, ReviewOutcomes
    <2> QED
      BY <2>3 DEF AgreedOn, DisagreedOn, TwoReviews
  <1> QED
    BY <1>1, <1>2

-----------------------------------------------------------------------------
(* One lemma per group of actions.                                         *)

LEMMA InitOrder == Init => ClaimsBasis /\ ReviewsFinite
  <1> SUFFICES ASSUME Init PROVE ClaimsBasis /\ ReviewsFinite
    OBVIOUS
  <1> USE ConstantsAssumption, NoneAssumption DEF Init
  <1>1. WritersAreNew
    BY DEF WritersAreNew, Actors
  <1>2. \A o \in Obligations : reviews[o] = {} /\ ~InHand(o) /\ ~TwoReviews(o)
    BY DEF InHand, TwoReviews
  <1>3. ReviewsFinite /\ MakerThenChecker
    BY <1>2, FS_EmptySet DEF ReviewsFinite, MakerThenChecker
  <1> QED
    BY <1>1, <1>2, <1>3 DEF ClaimsBasis, SlotsStand

LEMMA RouteOrder ==
  ASSUME Ordered, NEW o \in Obligations, RouteAndPreCommit(o)
  PROVE  ClaimsBasis' /\ ReviewsFinite'
  <1> USE DEF Ordered, Routed, Basis
  <1>1. UNCHANGED <<reviews, index, claims, req>>
    BY DEF RouteAndPreCommit, indexVars, localVars
  <1>2. \A a \in Actors : a # o => pc'[a] = pc[a]
    BY DEF RouteAndPreCommit, Goto, WellFormed, TypeOK
  <1>3. \A p \in Obligations : p # o => tier'[p] = tier[p]
    BY DEF RouteAndPreCommit, WellFormed, TypeOK
  <1>4. ~InHand(o) /\ reviews[o] = {}
    BY DEF RouteAndPreCommit, ClaimsBasis
  <1>5. \A q \in Requests : pc'[q] = pc[q] /\ Ob(q)' = Ob(q)
    BY <1>1, <1>2, ConstantsAssumption DEF Actors, Ob
  <1>6. \A p \in Obligations : (InHand(p)' <=> InHand(p)) /\ (TwoReviews(p)' <=> TwoReviews(p))
    BY <1>1 DEF InHand, TwoReviews
  <1>7. WritersAreNew'
    BY <1>1, <1>5 DEF ClaimsBasis, WritersAreNew
  <1>8. ASSUME NEW p \in Obligations, RequiresSecondReview(tier'[p])
        PROVE  SlotsStand(p)'
    <2>1. CASE p = o
      <3>1. ~TwoReviews(p)' /\ ~InHand(p)'
        BY <1>4, <1>6, <2>1 DEF TwoReviews
      <3> QED
        BY <3>1 DEF SlotsStand
    <2>2. CASE p # o
      <3>1. SlotsStand(p)
        BY <1>3, <1>8, <2>2 DEF ClaimsBasis
      <3>2. \A q \in Requests : (Admitted(q)' <=> Admitted(q)) /\ (HoldsSlot(q)' <=> HoldsSlot(q))
        BY <1>1, <1>5 DEF Admitted, HoldsSlot, SlotOf
      <3>3. \A step : SlotOf(p, step)' = SlotOf(p, step)
        BY <1>1 DEF SlotOf
      <3> QED
        BY <1>1, <1>5, <1>6, <3>1, <3>2, <3>3 DEF SlotsStand
    <2> QED
      BY <2>1, <2>2
  <1>9. ASSUME NEW p \in Obligations, pc'[p] \in {"unrouted", "suspend"}
        PROVE  ~InHand(p)' /\ reviews'[p] = {}
    BY <1>1, <1>2, <1>4, <1>6, <1>9 DEF ClaimsBasis, Actors
  <1>10. MakerThenChecker'
    BY <1>1, <1>3, <1>4 DEF ClaimsBasis, MakerThenChecker
  <1>11. ReviewsFinite'
    BY <1>1 DEF ReviewsFinite
  <1> QED
    BY <1>7, <1>8, <1>9, <1>10, <1>11 DEF ClaimsBasis

(***************************************************************************)
(* From here on the obligation is in hand, and nobody has come yet.        *)
(***************************************************************************)
LEMMA SuspensionOrder ==
  ASSUME Ordered, NEW o \in Obligations, RecordSuspension(o)
  PROVE  ClaimsBasis' /\ ReviewsFinite'
  <1> USE DEF Ordered, Routed, Basis
  <1>1. UNCHANGED <<tier, reviews, claims, req>>
    BY DEF RecordSuspension, graphVars, localVars
  <1>2. pc'[o] = "suspending" /\ \A a \in Actors : a # o => pc'[a] = pc[a]
    BY DEF RecordSuspension, Goto, WellFormed, TypeOK, Actors
  <1>3. \A p \in Obligations : p # o => index'[p] = index[p]
    BY DEF RecordSuspension, WellFormed, TypeOK
  <1>4. ~InHand(o) /\ reviews[o] = {}
    BY DEF RecordSuspension, ClaimsBasis
  <1>5. \A q \in Requests : pc'[q] = pc[q] /\ Ob(q)' = Ob(q) /\ (HoldsSlot(q)' <=> HoldsSlot(q))
    BY <1>1, <1>2, ConstantsAssumption DEF Actors, Ob, HoldsSlot, SlotOf
  <1>6. \A p \in Obligations : p # o => (InHand(p)' <=> InHand(p))
    BY <1>1, <1>3 DEF InHand
  <1>7. WritersAreNew'
    BY <1>1, <1>5 DEF ClaimsBasis, WritersAreNew
  <1>8. ASSUME NEW p \in Obligations, RequiresSecondReview(tier'[p])
        PROVE  SlotsStand(p)'
    <2>1. CASE p = o
      <3>1. ~TwoReviews(p)' /\ reviews'[p] = {}
        BY <1>1, <1>4, <2>1 DEF TwoReviews
      <3>2. ASSUME NEW q \in Requests, Admitted(q)'
            PROVE  Ob(q)' # o
        BY <1>4, <1>5, <3>2, BusyHandler DEF InHand, Admitted
      <3> QED
        BY <2>1, <3>1, <3>2 DEF SlotsStand
    <2>2. CASE p # o
      <3>1. SlotsStand(p)
        BY <1>1, <1>8 DEF ClaimsBasis
      <3>2. \A step : SlotOf(p, step)' = SlotOf(p, step)
        BY <1>1 DEF SlotOf
      <3> QED
        BY <1>1, <1>5, <1>6, <2>2, <3>1, <3>2 DEF SlotsStand, TwoReviews, Admitted
    <2> QED
      BY <2>1, <2>2
  <1>9. ASSUME NEW p \in Obligations, pc'[p] \in {"unrouted", "suspend"}
        PROVE  ~InHand(p)' /\ reviews'[p] = {}
    BY <1>1, <1>2, <1>6, <1>9 DEF ClaimsBasis, Actors
  <1>10. MakerThenChecker' /\ ReviewsFinite'
    BY <1>1 DEF ClaimsBasis, MakerThenChecker, ReviewsFinite
  <1> QED
    BY <1>7, <1>8, <1>9, <1>10 DEF ClaimsBasis

(***************************************************************************)
(* The review is written at last.  There are two slots, so of the one who  *)
(* writes, one who has written and one who is about to, all of them on one *)
(* obligation, two would be the same person.                               *)
(***************************************************************************)
LEMMA WriteOrder ==
  ASSUME Ordered, NEW q \in Requests, WriteReview(q)
  PROVE  ClaimsBasis' /\ ReviewsFinite'
  <1> USE DEF Ordered, Routed, Basis
  <1>0. pc[q] = "writeReview" /\ q \in Actors /\ Admitted(q)
    BY DEF WriteReview, Actors, Admitted
  <1>1. PICK o \in Obligations :
          o = Ob(q) /\ req[q] # None /\ req[q].obligation = o /\ req[q].step \in Steps
    BY <1>0, BusyHandler
  <1> DEFINE new == NewReview(q)
  <1>2. new.request = req[q]
    BY DEF NewReview
  <1>3. /\ reviews'[o] = reviews[o] \cup {new}
        /\ \A p \in Obligations : p # o => reviews'[p] = reviews[p]
    BY <1>1 DEF WriteReview, WellFormed, TypeOK
  <1>4. UNCHANGED <<tier, index, claims>>
    BY DEF WriteReview, indexVars
  <1>5. /\ pc'[q] # "writeReview" /\ ~Admitted(q)'
        /\ \A a \in Actors : a # q => pc'[a] = pc[a]
        /\ \A p \in Requests : p # q => req'[p] = req[p]
        /\ req'[q] # None => req'[q] = req[q]
    BY DEF WriteReview, Goto, Answer, WellFormed, TypeOK, localVars, Actors, Admitted
  <1>6. \A p \in Requests : p # q =>
          pc'[p] = pc[p] /\ Ob(p)' = Ob(p) /\ (HoldsSlot(p)' <=> HoldsSlot(p))
    BY <1>4, <1>5, ConstantsAssumption DEF Actors, Ob, HoldsSlot, SlotOf
  <1>7. \A p \in Obligations : InHand(p)' => InHand(p)
    BY <1>4, <1>5 DEF InHand
  <1>8. ASSUME NEW p \in Requests, p # q, pc[p] = "writeReview", Ob(p) = o
        PROVE  req[p].reviewer # req[q].reviewer /\ req[p].step \in Steps
    <2>1. req[p] # None /\ req[p].obligation = o /\ req[p].step \in Steps
      BY <1>8, BusyHandler
    <2> QED
      BY <1>1, <1>8, <2>1 DEF ClaimsBasis, WritersAreNew
  <1>9. \A rev \in reviews[o] : rev.request.reviewer # req[q].reviewer
    BY <1>0, <1>1 DEF ClaimsBasis, WritersAreNew
  <1>10. ASSUME RequiresSecondReview(tier[o])
         PROVE  /\ ~TwoReviews(o) /\ req[q].reviewer = SlotOf(o, req[q].step)
                /\ \A rev \in reviews[o] :
                     rev.request.reviewer = SlotOf(o, rev.request.step)
                /\ \A p \in Requests : Admitted(p) /\ Ob(p) = o => HoldsSlot(p)
    <2>1. SlotsStand(o) /\ InHand(o)
      BY <1>1, <1>10 DEF ClaimsBasis, InHand
    <2>2. ~TwoReviews(o)
      BY <1>0, <1>1, <2>1 DEF SlotsStand
    <2> QED
      BY <1>0, <1>1, <2>1, <2>2 DEF SlotsStand, HoldsSlot
  <1>11. WritersAreNew'
    <2>1. ASSUME NEW p \in Requests, pc'[p] = "writeReview", NEW rev \in reviews'[Ob(p)']
          PROVE  rev.request.reviewer # req'[p].reviewer
      <3>1. p # q /\ pc[p] = "writeReview" /\ Ob(p)' = Ob(p) /\ req'[p] = req[p]
        BY <1>5, <1>6, <2>1
      <3>2. \A r \in reviews[Ob(p)] : r.request.reviewer # req[p].reviewer
        BY <3>1 DEF ClaimsBasis, WritersAreNew
      <3>3. Ob(p) \in Obligations
        BY <3>1, BusyHandler
      <3>4. CASE Ob(p) = o
        BY <1>2, <1>3, <1>8, <2>1, <3>1, <3>2, <3>4
      <3>5. CASE Ob(p) # o
        BY <1>3, <2>1, <3>1, <3>2, <3>3, <3>5
      <3> QED
        BY <3>4, <3>5
    <2>2. \A p, r \in Requests :
            p # r /\ req'[p] # None /\ req'[r] # None
            /\ req'[p].obligation = req'[r].obligation => req'[p].reviewer # req'[r].reviewer
      BY <1>5 DEF ClaimsBasis, WritersAreNew
    <2> QED
      BY <2>1, <2>2 DEF WritersAreNew
  <1>12. ASSUME NEW p \in Obligations, RequiresSecondReview(tier'[p])
         PROVE  SlotsStand(p)'
    <2>0. \A step : SlotOf(p, step)' = SlotOf(p, step)
      BY <1>4 DEF SlotOf
    <2>1. CASE p = o
      <3>1. RequiresSecondReview(tier[o])
        BY <1>4, <1>12, <2>1
      <3>2. \A rev \in reviews'[o] : rev.request.reviewer = SlotOf(o, rev.request.step)'
        BY <1>2, <1>3, <1>10, <2>0, <2>1, <3>1
      <3>3. \A r \in Requests : Admitted(r)' /\ Ob(r)' = o => HoldsSlot(r)'
        BY <1>5, <1>6, <1>10, <3>1 DEF Admitted
      <3>4. ASSUME TwoReviews(o)', NEW r \in Requests, pc'[r] = "writeReview", Ob(r)' = o
            PROVE  FALSE
        <4>1. r # q /\ pc[r] = "writeReview" /\ Ob(r) = o /\ Admitted(r)
          BY <1>5, <1>6, <3>4 DEF Admitted
        <4>2. PICK rev \in reviews[o] : TRUE
          BY <1>3, <3>4 DEF TwoReviews
        <4>3. rev \in ReviewRecords
          BY DEF WellFormed, TypeOK
        <4>4. rev.request.step \in Steps
          BY <4>3 DEF ReviewRecords, RequestRecords
        <4>5. /\ rev.request.reviewer # req[r].reviewer
              /\ rev.request.reviewer # req[q].reviewer
              /\ req[r].reviewer # req[q].reviewer /\ req[r].step \in Steps
          BY <1>8, <1>9, <4>1 DEF ClaimsBasis, WritersAreNew
        <4>6. /\ rev.request.reviewer = SlotOf(o, rev.request.step)
              /\ req[q].reviewer = SlotOf(o, req[q].step)
              /\ req[r].reviewer = SlotOf(o, req[r].step)
          BY <1>10, <3>1, <4>1 DEF HoldsSlot
        <4> QED
          BY <1>1, <4>4, <4>5, <4>6 DEF SlotOf, Steps
      <3> QED
        BY <2>1, <3>2, <3>3, <3>4 DEF SlotsStand
    <2>2. CASE p # o
      <3>1. SlotsStand(p) /\ reviews'[p] = reviews[p]
        BY <1>3, <1>4, <1>12, <2>2 DEF ClaimsBasis
      <3>2. \A r \in Requests : Admitted(r)' => r # q /\ Admitted(r)
        BY <1>5, <1>6 DEF Admitted
      <3> QED
        BY <1>5, <1>6, <1>7, <2>0, <3>1, <3>2 DEF SlotsStand, TwoReviews
    <2> QED
      BY <2>1, <2>2
  <1>13. ASSUME NEW p \in Obligations, pc'[p] \in {"unrouted", "suspend"}
         PROVE  ~InHand(p)' /\ reviews'[p] = {}
    <2>1. pc[p] \in {"unrouted", "suspend"}
      BY <1>5, <1>13, ConstantsAssumption DEF Actors
    <2>2. ~InHand(p) /\ reviews[p] = {}
      BY <2>1 DEF ClaimsBasis
    <2>3. p # o
      BY <1>1, <2>2 DEF InHand
    <2> QED
      BY <1>3, <1>7, <2>2, <2>3
  <1>14. MakerThenChecker'
    <2> SUFFICES ASSUME NEW p \in Obligations, RequiresSecondReview(tier[p]),
                        NEW r1 \in reviews'[p], NEW r2 \in reviews'[p], r1 # r2
                 PROVE  /\ r1.request.reviewer # r2.request.reviewer
                        /\ r1.request.step # r2.request.step
      BY <1>4 DEF MakerThenChecker
    <2>1. CASE p = o
      <3>1. ~TwoReviews(o)
        BY <1>10, <2>1
      <3>2. (r1 = new /\ r2 \in reviews[o]) \/ (r2 = new /\ r1 \in reviews[o])
        BY <1>3, <2>1, <3>1 DEF TwoReviews
      <3>3. \A rev \in reviews[o] : rev.request.reviewer # req[q].reviewer
                                    /\ rev.request.step # req[q].step
        BY <1>9, <1>10, <2>1
      <3> HIDE DEF new
      <3> QED
        BY <1>2, <3>2, <3>3
    <2>2. CASE p # o
      BY <1>3, <2>2 DEF ClaimsBasis, MakerThenChecker
    <2> QED
      BY <2>1, <2>2
  <1>15. ReviewsFinite'
    <2>1. ASSUME NEW p \in Obligations
          PROVE  IsFiniteSet(reviews'[p])
      BY <1>3, FS_AddElement DEF ReviewsFinite
    <2> QED
      BY <2>1 DEF ReviewsFinite
  <1> QED
    BY <1>11, <1>12, <1>13, <1>14, <1>15 DEF ClaimsBasis

LEMMA BranchOrder ==
  ASSUME Ordered, NEW o \in Obligations, Branch(o)
  PROVE  ClaimsBasis' /\ ReviewsFinite'
  <1>1. CASE Suspend(o)
    <2>1. UNCHANGED <<tier, reviews, index, claims, req>>
      BY <1>1 DEF Suspend, graphVars, indexVars, localVars
    <2>2. pc'[o] = "done" /\ \A a \in Actors : a # o => pc'[a] = pc[a]
      BY <1>1 DEF Suspend, Goto, Ordered, Routed, Basis, WellFormed, TypeOK, Actors
    <2>3. \A q \in Requests : pc'[q] = pc[q]
      BY <2>2, ConstantsAssumption DEF Actors
    <2>4. Apart' /\ \A p \in Obligations : InHand(p)' => InHand(p)
      BY <2>1, HandsOnly DEF InHand
    <2>5. \A q \in Requests : Admitted(q)' => Admitted(q) /\ pc[q] # "idle"
      BY <2>3 DEF Admitted
    <2>6. \A p \in Obligations, step \in Steps : SlotOf(p, step)' = SlotOf(p, step)
      BY <2>1 DEF SlotOf
    <2>7. \A p \in Obligations : pc'[p] \in {"unrouted", "suspend"} => pc'[p] = pc[p]
      BY <2>2 DEF Actors
    <2> QED
      BY <2>1, <2>3, <2>4, <2>5, <2>6, <2>7, OrderKeeps
  <1> QED
    BY <1>1, RouteOrder, SuspensionOrder DEF Branch

LEMMA SurfaceOrder ==
  ASSUME Ordered, OneSubmission, NEW o \in Obligations, NEW r \in Reviewers, Surface(o, r)
  PROVE  ClaimsBasis' /\ ReviewsFinite'
  <1> USE DEF Ordered, Routed, Basis
  <1>1. CASE Claim(o, r)
    <2>1. UNCHANGED <<tier, reviews, index, req, pc>>
      BY <1>1 DEF Claim, graphVars, localVars
    <2>2. \A p \in Obligations, step \in Steps :
            SlotOf(p, step) # None => SlotOf(p, step)' = SlotOf(p, step)
      <3>1. \A p \in Obligations : p # o => claims'[p] = claims[p]
        BY <1>1 DEF Claim, WellFormed, TypeOK
      <3>2. claims[o] \in [maker : Reviewers \cup {None}, checker : Reviewers \cup {None}]
        BY DEF WellFormed, TypeOK
      <3>3. \/ claims[o].maker = None /\ claims'[o] = [claims[o] EXCEPT !.maker = r]
            \/ claims[o].checker = None /\ claims'[o] = [claims[o] EXCEPT !.checker = r]
        BY <1>1 DEF Claim, WellFormed, TypeOK
      <3>4. /\ claims[o].maker # None => claims'[o].maker = claims[o].maker
            /\ claims[o].checker # None => claims'[o].checker = claims[o].checker
        BY <3>2, <3>3
      <3> QED
        BY <3>1, <3>4 DEF SlotOf
    <2>3. Apart' /\ \A p \in Obligations : InHand(p)' => InHand(p)
      BY <2>1, HandsOnly DEF InHand
    <2>4. \A q \in Requests : Admitted(q)' => Admitted(q) /\ pc[q] # "idle"
      BY <2>1 DEF Admitted
    <2> QED
      BY <2>1, <2>2, <2>3, <2>4, OrderKeeps
  <1>2. ASSUME NEW q \in Requests, Submit(q, o, r)
        PROVE  ClaimsBasis' /\ ReviewsFinite'
    <2>1. PICK request :
            /\ Deliver(q, request)
            /\ request.obligation = o /\ request.reviewer = r
      BY <1>2 DEF Submit
    <2>2. UNCHANGED <<tier, reviews, index, claims>>
      BY <2>1 DEF Deliver, graphVars, indexVars
    <2>3. /\ req'[q] = request /\ \A p \in Requests : p # q => req'[p] = req[p]
          /\ pc'[q] = "validate" /\ \A a \in Actors : a # q => pc'[a] = pc[a]
      BY <2>1 DEF Deliver, Goto, WellFormed, TypeOK, Actors
    <2>4. \A p \in Requests : p # q => pc'[p] = pc[p]
      BY <2>3 DEF Actors
    <2>5. Apart'
      <3>1. \A p \in Requests :
              req[p] # None /\ req[p].obligation = o => req[p].reviewer # r
        BY <1>2 DEF Submit, InFlight, OneSubmission
      <3>2. Apart
        BY DEF ClaimsBasis, WritersAreNew, Apart
      <3> QED
        BY <2>1, <2>3, <3>1, <3>2 DEF Apart
    <2>6. \A p \in Obligations : InHand(p)' => InHand(p)
      BY <1>2, <2>1, <2>2, <2>3 DEF InHand, Submit
    <2>7. \A p \in Requests : Admitted(p)' => Admitted(p) /\ pc[p] # "idle" /\ p # q
      BY <2>3, <2>4 DEF Admitted
    <2>8. \A p \in Obligations, step \in Steps : SlotOf(p, step)' = SlotOf(p, step)
      BY <2>2 DEF SlotOf
    <2>9. \A p \in Obligations : pc'[p] \in {"unrouted", "suspend"} => pc'[p] = pc[p]
      BY <2>3, ConstantsAssumption DEF Actors
    <2>10. \A p \in Requests : pc'[p] = "writeReview" => pc[p] = "writeReview"
      BY <2>3, <2>4
    <2> QED
      BY <2>2, <2>3, <2>5, <2>6, <2>7, <2>8, <2>9, <2>10, OrderKeeps
  <1> QED
    BY <1>1, <1>2 DEF Surface

(***************************************************************************)
(* An actor leaves or goes on, and forgets no claims that are needed.      *)
(***************************************************************************)
LEMMA GoingOrder ==
  ASSUME Ordered, UNCHANGED <<tier, reviews>>, NEW a \in Actors,
         pc[a] \notin {"idle", "unrouted", "suspend"},
         pc'[a] \notin {"unrouted", "suspend"},
         \A b \in Actors : b # a => Same(b),
         a \in Requests => req'[a] \in {None, req[a]},
         a \in Requests /\ Admitted(a)' =>
           /\ req'[a] = req[a]
           /\ Admitted(a) \/ (RequiresSecondReview(tier[Ob(a)]) => HoldsSlot(a)),
         a \in Requests /\ pc'[a] = "writeReview" => pc[a] = "writeReview" \/ MayReview(a),
         \A o \in Obligations : index'[o] # None => InHand(o),
         \A o \in Obligations : claims'[o] = claims[o] \/ ~RequiresSecondReview(tier[o]) \/ TwoReviews(o)
  PROVE  ClaimsBasis' /\ ReviewsFinite'
  <1>1. \A q \in Requests : req'[q] # None => req'[q] = req[q]
    BY DEF Same, Actors
  <1>2. Apart' /\ \A o \in Obligations : InHand(o)' => InHand(o)
    BY <1>1, HandsOnly
  <1>3. ASSUME NEW q \in Requests, Admitted(q)'
        PROVE  /\ pc[q] # "idle" /\ req'[q] = req[q]
               /\ Admitted(q) \/ (RequiresSecondReview(tier[Ob(q)]) => HoldsSlot(q))
    BY <1>3 DEF Same, Actors, Admitted
  <1>4. \A q \in Requests : pc'[q] = "writeReview" => pc[q] = "writeReview" \/ MayReview(q)
    BY DEF Same, Actors
  <1>5. ASSUME NEW o \in Obligations, pc'[o] \in {"unrouted", "suspend"}
        PROVE  pc[o] \in {"unrouted", "suspend"}
    BY <1>5 DEF Same, Actors
  <1>6. ASSUME NEW o \in Obligations, RequiresSecondReview(tier[o]), ~TwoReviews(o),
               NEW step \in Steps
        PROVE  SlotOf(o, step)' = SlotOf(o, step)
    BY <1>6 DEF SlotOf
  <1> QED
    BY <1>2, <1>3, <1>4, <1>5, <1>6, OrderKeeps

LEMMA HandleOrder ==
  ASSUME Ordered, NEW q \in Requests, Handle(q)
  PROVE  ClaimsBasis' /\ ReviewsFinite'
  <1> USE DEF graphVars, indexVars, engineVars, localVars, outVars, Unchanged_Reading
  <1>1. CASE WriteReview(q)
    BY <1>1, WriteOrder
  <1>2. CASE ~WriteReview(q)
    <2>0. /\ WellFormed /\ q \in Actors
          /\ pc[q] \notin {"idle", "unrouted", "suspend"}
      BY DEF Ordered, Routed, Basis, Actors, Handle, Validate, CheckStep, CheckAssignment,
             QueryLedger, ReadReviews, WriteReview, AppendLedger, Resume, Resuspend
    <2>1. PICK o \in Obligations : o = Ob(q) /\ req[q] # None /\ req[q].obligation = o
      BY <2>0, BusyHandler
    <2>2. UNCHANGED <<tier, reviews, claims>>
      BY <1>2 DEF Handle, Validate, CheckStep, CheckAssignment, QueryLedger, ReadReviews,
                  AppendLedger, Resume, Resuspend, Refuse
    <2>3. \A p \in Obligations : index'[p] # None => InHand(p)
      <3>1. index' = index \/ index' = [index EXCEPT ![o] = "awaitSecondHumanReview"]
        BY <1>2, <2>1 DEF Handle, Validate, CheckStep, CheckAssignment, QueryLedger,
               ReadReviews, AppendLedger, Resume, Resuspend, Refuse
      <3>2. InHand(o) /\ \A p \in Obligations : index[p] # None => InHand(p)
        BY <2>1 DEF InHand
      <3> QED
        BY <2>0, <3>1, <3>2 DEF WellFormed, TypeOK
    <2>4. CASE Answer(q)
      <3>1. pc'[q] = "idle" /\ req'[q] = None /\ \A b \in Actors : b # q => Same(b)
        BY <2>0, <2>4, AnswerSame DEF Answer, WellFormed, TypeOK
      <3> QED
        BY <2>0, <2>2, <2>3, <3>1, GoingOrder DEF Admitted
    <2>5. CASE ~Answer(q)
      <3>1. PICK label : Goto(q, label) /\ req' = req /\
                         label \notin {"unrouted", "suspend"}
        BY <1>2, <2>5 DEF Handle, Validate, CheckStep, CheckAssignment, QueryLedger,
               ReadReviews, AppendLedger, Resume, Resuspend, Refuse
      <3>2. pc'[q] = label /\ \A b \in Actors : b # q => pc'[b] = pc[b]
        BY <2>0, <3>1 DEF Goto, WellFormed, TypeOK
      <3>3. \A b \in Actors : b # q => Same(b)
        <4>1. \A b \in Requests : b # q => outcome'[b] = outcome[b]
          BY <1>2, <2>0, <2>5 DEF Handle, Validate, CheckStep, CheckAssignment, QueryLedger,
               ReadReviews, AppendLedger, Resume, Resuspend, Refuse, WellFormed, TypeOK
        <4> QED
          BY <3>1, <3>2, <4>1 DEF Same
      <3>4. Admitted(q)' => Admitted(q) \/ (RequiresSecondReview(tier[Ob(q)]) => HoldsSlot(q))
        BY <1>2, <2>0, <2>5, <3>2
        DEF Handle, Validate, CheckStep, CheckAssignment, QueryLedger,
            ReadReviews, AppendLedger, Resume, Resuspend, Refuse, Admitted, Goto,
            WellFormed, TypeOK, Assigned, WireTier
      <3>5. pc'[q] = "writeReview" => MayReview(q)
        BY <1>2, <2>0, <2>5, <3>2
        DEF Handle, Validate, CheckStep, CheckAssignment, QueryLedger,
            ReadReviews, AppendLedger, Resume, Resuspend, Refuse, Goto, WellFormed, TypeOK
      <3> QED
        BY <2>0, <2>2, <2>3, <3>1, <3>2, <3>3, <3>4, <3>5, GoingOrder
    <2> QED
      BY <2>4, <2>5
  <1> QED
    BY <1>1, <1>2

LEMMA FinalizeOrder ==
  ASSUME Ordered, NEW a \in Actors, Finalize(a)
  PROVE  ClaimsBasis' /\ ReviewsFinite'
  <1> USE DEF graphVars, indexVars, engineVars, localVars, outVars
  <1>0. WellFormed /\ pc[a] \in InFinalize
    BY DEF Ordered, Routed, Basis, InFinalize, Finalize, CheckCommitLog, ApplyCommit,
           ConflictCommit, AnnounceWin, AnnounceLoss, FireTicket, Settle
  <1>1. PICK o \in Obligations : o = Ob(a)
    BY <1>0, CarrierHasObligation DEF Carries, Carrying
  <1>2. UNCHANGED <<tier, reviews>>
    BY DEF Finalize, CheckCommitLog, ApplyCommit, ConflictCommit, AnnounceWin, AnnounceLoss,
           FireTicket, Settle
  <1>3. UNCHANGED indexVars \/ ClearIndex(o)
    BY <1>1 DEF Finalize, CheckCommitLog, ApplyCommit, ConflictCommit, AnnounceWin,
                AnnounceLoss, FireTicket, Settle
  <1>4. \A p \in Obligations :
          /\ index'[p] # None => InHand(p)
          /\ claims'[p] = claims[p] \/ ~RequiresSecondReview(tier[p]) \/ TwoReviews(p)
    <2>1. RequiresSecondReview(tier[o]) => TwoReviews(o)
      BY <1>0, <1>1, FinalMeansTwo
    <2> QED
      BY <1>0, <1>3, <2>1 DEF ClearIndex, InHand, WellFormed, TypeOK
  <1>5. Leave(a) \/ (UNCHANGED <<req, outcome>> /\ \E label \in InFinalize : Goto(a, label))
    BY DEF Finalize, CheckCommitLog, ApplyCommit, ConflictCommit, AnnounceWin, AnnounceLoss,
           FireTicket, Settle, InFinalize
  <1>6. /\ pc'[a] \in {"idle", "done"} \cup InFinalize /\ \A b \in Actors : b # a => Same(b)
        /\ a \in Requests => req'[a] \in {None, req[a]}
    <2>1. CASE Leave(a)
      BY <1>0, <2>1, LeaveSame DEF Leave, Answer, WellFormed, TypeOK
    <2>2. CASE ~Leave(a)
      BY <1>0, <1>5, <2>2, GotoSame
    <2> QED
      BY <2>1, <2>2
  <1> QED
    BY <1>0, <1>2, <1>4, <1>6, GoingOrder DEF Admitted, InFinalize

LEMMA EnvironmentOrder ==
  ASSUME Ordered,
         (\E a \in Actors : Throw(a)) \/ FindGap \/ FillGap \/ Restart \/ UNCHANGED vars
  PROVE  ClaimsBasis' /\ ReviewsFinite'
  <1> USE DEF graphVars, indexVars, engineVars, localVars, outVars, Ordered, Routed, Basis
  <1>1. ASSUME NEW a \in Actors, Throw(a)
        PROVE  ClaimsBasis' /\ ReviewsFinite'
    <2>1. pc'[a] \in {"idle", "done"} /\ \A b \in Actors : b # a => Same(b)
      BY <1>1, LeaveSame DEF Throw
    <2>2. a \in Requests => req'[a] \in {None, req[a]}
      BY <1>1 DEF Throw, Leave, Answer, WellFormed, TypeOK
    <2>3. \A o \in Obligations : index'[o] # None => InHand(o)
      BY <1>1 DEF Throw, InHand
    <2> QED
      BY <1>1, <2>1, <2>2, <2>3, GoingOrder DEF Throw, PortCalls, Admitted
  <1>2. CASE FindGap \/ FillGap \/ UNCHANGED vars
    <2>1. UNCHANGED <<tier, reviews, index, claims, req, pc>>
      BY <1>2 DEF FindGap, FillGap, vars
    <2>2. Apart' /\ \A o \in Obligations : InHand(o)' => InHand(o)
      BY <2>1, HandsOnly DEF InHand
    <2>3. \A o \in Obligations, step \in Steps : SlotOf(o, step)' = SlotOf(o, step)
      BY <2>1 DEF SlotOf
    <2>4. \A q \in Requests : Admitted(q)' => Admitted(q) /\ pc[q] # "idle"
      BY <2>1 DEF Admitted
    <2> QED
      BY <2>1, <2>2, <2>3, <2>4, OrderKeeps
  <1>3. CASE Restart
    <2>1. UNCHANGED <<tier, reviews>>
      BY <1>3 DEF Restart
    <2>2. \A q \in Requests : req'[q] = None /\ pc'[q] = "idle"
      BY <1>3 DEF Restart, Actors
    <2>3. \A o \in Obligations :
            pc'[o] = IF pc[o] = "unrouted" THEN "unrouted" ELSE "done"
      BY <1>3, ConstantsAssumption DEF Restart, Actors
    <2>4. Apart' /\ \A o \in Obligations : ~InHand(o)'
      BY <1>3, <2>2 DEF Restart, Apart, InHand
    <2>5. \A q \in Requests : ~Admitted(q)' /\ pc'[q] # "writeReview"
      BY <2>2 DEF Admitted
    <2> QED
      BY <2>1, <2>3, <2>4, <2>5, OrderKeeps
  <1> QED
    BY <1>1, <1>2, <1>3

LEMMA NextOrder ==
  ASSUME OneSubmission
  PROVE  Ordered /\ [Next]_vars => ClaimsBasis' /\ ReviewsFinite'
  BY BranchOrder, SurfaceOrder, HandleOrder, FinalizeOrder, EnvironmentOrder
  DEF Next, Redeliver, OneSubmission

LEMMA AlwaysOrdered == ASSUME OneSubmission PROVE Spec => []Ordered
  <1>1. Init => Ordered
    BY InitWellFormed, InitBasis, InitFollows, InitOrder DEF Ordered, Routed, Basis
  <1>2. Ordered /\ [Next]_vars => Ordered'
    BY NextBasis, NextFollows, NextOrder DEF Ordered, Routed
  <1> QED
    BY <1>1, <1>2, PTL DEF Spec

(***************************************************************************)
(* A dual-review obligation has one maker and one checker review, by two   *)
(* people, as long as no event comes twice and nobody submits twice at     *)
(* once: under either engine, whatever fails, restarts or is swept.        *)
(***************************************************************************)
THEOREM MakerThenCheckerAlways == ASSUME OneSubmission PROVE Spec => []MakerThenChecker
  BY AlwaysOrdered, PTL DEF Ordered, ClaimsBasis

(***************************************************************************)
(* The reasons for it: who can still review, or has reviewed, holds the    *)
(* slot of the step, and a second review leaves no writer behind.          *)
(***************************************************************************)
THEOREM ClaimsBasisAlways == ASSUME OneSubmission PROVE Spec => []ClaimsBasis
  BY AlwaysOrdered, PTL DEF Ordered

-----------------------------------------------------------------------------
(* The index and the engine.                                               *)

\* No port fails and the process keeps running.
NoFailure == Disturbances \subseteq {"redeliver", "sweep"}

InOneHand == Strong /\ ReviewsFollowRouting /\ IndexBasis

(***************************************************************************)
(* What IndexBasis asks of an actor.                                       *)
(***************************************************************************)
Told(a) ==
  /\ pc[a] = "suspending" => index[Ob(a)] = "awaitHumanReview"
  /\ pc[a] = "resuspend" => index[Ob(a)] = "awaitSecondHumanReview"
  /\ pc[a] \in {"ticket", "settle"} => index[Ob(a)] = None

Unattended(o) == \A a \in Actors : Carries(a) => Ob(a) # o

IndexParts ==
  /\ \A o \in Obligations : Unattended(o) => index[o] = engineStep[o]
  /\ \A a \in Actors : Told(a)

LEMMA IndexByActor == ASSUME WellFormed PROVE IndexBasis <=> IndexParts
  <1>1. \A q \in Requests : pc[q] # "suspending"
    BY DEF WellFormed, Shape, InHandler, InFinalize
  <1>2. \A o \in Obligations : Ob(o) = o /\ o \in Actors
    BY DEF Ob, Actors
  <1> QED
    BY <1>1, <1>2 DEF IndexBasis, IndexParts, Told, Unattended, Actors

LEMMA BystandersTold ==
  ASSUME InOneHand, WellFormed', UNCHANGED <<index, engineStep>>,
         \A a \in Actors : Same(a) \/ (~Carries(a) /\ ~Carries(a)')
  PROVE  IndexBasis'
  <1>1. /\ \A o \in Obligations : Unattended(o) => index[o] = engineStep[o]
        /\ \A a \in Actors : Told(a)
    BY IndexByActor DEF InOneHand, Strong, Basis, IndexParts
  <1>2. \A o \in Obligations : Unattended(o)' => Unattended(o)
    BY SameObligation DEF Unattended
  <1>3. ASSUME NEW a \in Actors
        PROVE  Told(a)'
    <2>1. CASE Same(a)
      BY <1>1, <2>1, SameObligation DEF Told, Same
    <2>2. CASE ~Carries(a)'
      BY <2>2 DEF Told, Carries, Carrying, InFinalize
    <2> QED
      BY <2>1, <2>2
  <1>4. IndexParts'
    BY <1>1, <1>2, <1>3 DEF IndexParts
  <1>5. WellFormed' /\ IndexParts' => IndexBasis'
    BY IndexByActor, PTL
  <1> QED
    BY <1>4, <1>5

(***************************************************************************)
(* The actor that carries a run, or takes it from the engine, moves.       *)
(***************************************************************************)
LEMMA CarrierTells ==
  ASSUME InOneHand, WellFormed', NEW a \in Actors, NEW o \in Obligations, Ob(a) = o,
         Carries(a) \/ engineStep[o] # None,
         \A b \in Actors : b # a => Same(b),
         \A p \in Obligations : p # o => index'[p] = index[p] /\ engineStep'[p] = engineStep[p],
         Carries(a)' => Ob(a)' = o,
         ~Carries(a)' => index'[o] = engineStep'[o],
         Told(a)'
  PROVE  IndexBasis'
  <1>1. /\ \A p \in Obligations : Unattended(p) => index[p] = engineStep[p]
        /\ \A b \in Actors : Told(b)
    BY IndexByActor DEF InOneHand, Strong, Basis, IndexParts
  <1>2. ASSUME NEW b \in Actors, b # a, Carries(b)
        PROVE  Ob(b) \in Obligations \ {o}
    <2>1. Ob(b) \in Obligations
      BY <1>2, CarrierHasObligation DEF InOneHand, Strong, Basis
    <2>2. Ob(b) # o
      BY <1>2, RunByParts DEF InOneHand, Strong, RunParts, OneCarrier, ActorFits
    <2> QED
      BY <2>1, <2>2
  <1>3. \A b \in Actors : b # a => (Carries(b)' <=> Carries(b)) /\ Ob(b)' = Ob(b)
    BY SameObligation
  <1>4. ASSUME NEW b \in Actors, b # a
        PROVE  Told(b)'
    <2>1. CASE Carries(b)
      <3>1. PICK p \in Obligations : p = Ob(b) /\ p # o
        BY <1>2, <1>4, <2>1
      <3>2. Told(b) /\ pc'[b] = pc[b] /\ Ob(b)' = p /\ index'[p] = index[p]
        BY <1>1, <1>3, <1>4, <3>1 DEF Same
      <3> QED
        BY <3>1, <3>2 DEF Told
    <2>2. CASE ~Carries(b)
      BY <1>3, <1>4, <2>2 DEF Told, Carries, Carrying, InFinalize
    <2> QED
      BY <2>1, <2>2
  <1>5. ASSUME NEW p \in Obligations, Unattended(p)'
        PROVE  index'[p] = engineStep'[p]
    <2>1. CASE p = o
      BY <1>5, <2>1 DEF Unattended
    <2>2. CASE p # o
      <3>1. Unattended(p)
        BY <1>3, <1>5, <2>2 DEF Unattended
      <3> QED
        BY <1>1, <2>2, <3>1
    <2> QED
      BY <2>1, <2>2
  <1>6. IndexParts'
    BY <1>4, <1>5 DEF IndexParts
  <1>7. WellFormed' /\ IndexParts' => IndexBasis'
    BY IndexByActor, PTL
  <1> QED
    BY <1>6, <1>7

LEMMA InitTold == Init => IndexBasis
  <1> SUFFICES ASSUME Init PROVE IndexBasis
    OBVIOUS
  <1>1. \A a \in Actors : pc[a] \in {"idle", "unrouted"}
    BY DEF Init
  <1>2. \A o \in Obligations : o \in Actors /\ index[o] = None /\ engineStep[o] = None
    BY DEF Init, Actors
  <1> QED
    BY <1>1, <1>2 DEF IndexBasis

LEMMA BranchTold ==
  ASSUME InOneHand, NoFailure, WellFormed', NEW o \in Obligations, Branch(o)
  PROVE  IndexBasis'
  <1> USE DEF InOneHand, Strong, Basis
  <1>0. Ob(o) = o /\ Ob(o)' = o /\ o \in Actors /\ o \notin Requests
    BY BranchObligation
  <1>1. CASE RouteAndPreCommit(o)
    <2>1. PICK label \in {"commit", "suspend"} : Goto(o, label)
      BY <1>1 DEF RouteAndPreCommit, Disturbed, NoFailure
    <2>2. UNCHANGED <<index, engineStep, req, outcome>>
      BY <1>1 DEF RouteAndPreCommit, indexVars, engineVars, localVars
    <2>3. pc'[o] = label /\ \A b \in Actors : b # o => Same(b)
      BY <1>0, <2>1, <2>2, GotoSame
    <2>4. Carries(o) /\ Carries(o)' /\ Told(o)'
      BY <1>1, <2>1, <2>3 DEF RouteAndPreCommit, Carries, Carrying, InFinalize, Told
    <2> QED
      BY <1>0, <2>2, <2>3, <2>4, CarrierTells
  <1>2. CASE RecordSuspension(o)
    <2>1. UNCHANGED <<engineStep, req, outcome>>
      BY <1>2 DEF RecordSuspension, engineVars, localVars
    <2>2. pc'[o] = "suspending" /\ \A b \in Actors : b # o => Same(b)
      BY <1>0, <1>2, <2>1, GotoSame DEF RecordSuspension
    <2>3. /\ index'[o] = "awaitHumanReview"
          /\ \A p \in Obligations : p # o => index'[p] = index[p]
      BY <1>2 DEF RecordSuspension, WellFormed, TypeOK
    <2>4. Carries(o) /\ Carries(o)' /\ Told(o)'
      BY <1>0, <1>2, <2>2, <2>3 DEF RecordSuspension, Carries, Carrying, Told
    <2> QED
      BY <1>0, <2>1, <2>2, <2>3, <2>4, CarrierTells
  <1>3. CASE Suspend(o)
    <2>1. UNCHANGED <<index, req, outcome>>
      BY <1>3 DEF Suspend, indexVars, localVars
    <2>2. pc'[o] = "done" /\ \A b \in Actors : b # o => Same(b)
      BY <1>0, <1>3, <2>1, GotoSame DEF Suspend
    <2>3. /\ engineStep'[o] = "awaitHumanReview"
          /\ \A p \in Obligations : p # o => engineStep'[p] = engineStep[p]
      BY <1>3 DEF Suspend, WellFormed, TypeOK
    <2>4. index[o] = "awaitHumanReview"
      BY <1>3 DEF Suspend, IndexBasis
    <2>5. Carries(o) /\ ~Carries(o)' /\ Told(o)'
      BY <1>3, <2>2 DEF Suspend, Carries, Carrying, InFinalize, Told
    <2> QED
      BY <1>0, <2>1, <2>2, <2>3, <2>4, <2>5, CarrierTells
  <1> QED
    BY <1>1, <1>2, <1>3 DEF Branch

LEMMA DeliverTold ==
  ASSUME InOneHand, WellFormed', NEW q \in Requests, NEW r, Deliver(q, r)
  PROVE  IndexBasis'
  <1>1. pc[q] = "idle" /\ pc'[q] = "validate" /\ \A b \in Actors : b # q => Same(b)
    BY DEF Deliver, Goto, Same, InOneHand, Strong, Basis, WellFormed, TypeOK, Actors
  <1>2. ~Carries(q) /\ ~Carries(q)'
    BY <1>1 DEF Carries, Carrying, InFinalize
  <1> QED
    BY <1>1, <1>2, BystandersTold DEF Deliver, indexVars, engineVars

LEMMA SurfaceTold ==
  ASSUME InOneHand, WellFormed', NEW o \in Obligations, NEW r \in Reviewers, Surface(o, r)
  PROVE  IndexBasis'
  <1>1. CASE Claim(o, r)
    BY <1>1, BystandersTold DEF Claim, Same, engineVars, localVars
  <1>2. ASSUME NEW q \in Requests, Submit(q, o, r)
        PROVE  IndexBasis'
    BY <1>2, DeliverTold DEF Submit
  <1> QED
    BY <1>1, <1>2 DEF Surface

LEMMA HandleTold ==
  ASSUME InOneHand, StrictEngine, NoFailure, WellFormed', NEW q \in Requests, Handle(q)
  PROVE  IndexBasis'
  <1> USE DEF graphVars, indexVars, engineVars, localVars, outVars, Unchanged_Reading
  <1>0. WellFormed /\ q \in Actors /\ pc[q] # "idle"
    BY DEF InOneHand, Strong, Basis, Actors, Handle, Validate, CheckStep, CheckAssignment,
           QueryLedger, ReadReviews, WriteReview, AppendLedger, Resume, Resuspend
  <1>1. PICK o \in Obligations : o = Ob(q)
    BY <1>0, BusyHandler
  <1>2. CASE Answer(q) /\ ~Resuspend(q)
    <2>1. UNCHANGED <<index, engineStep>> /\ pc[q] \in InHandler \ {"resuspend"}
      <3>1. ~Goto(q, "resuspend") /\ ~Goto(q, "commit")
        BY <1>0, <1>2 DEF Answer, Goto, WellFormed, TypeOK
      <3>2. Refuse(q) \/ ~Resume(q)
        BY <3>1 DEF Resume
      <3>3. pc[q] \in InHandler \ {"resuspend"}
        BY <1>2 DEF Handle, Validate, CheckStep, CheckAssignment, QueryLedger, ReadReviews,
               WriteReview, AppendLedger, Resume, InHandler
      <3>4. UNCHANGED <<index, engineStep>>
        BY <1>2, <3>2 DEF Handle, Validate, CheckStep, CheckAssignment, QueryLedger,
               ReadReviews, WriteReview, AppendLedger, Refuse
      <3> QED
        BY <3>3, <3>4
    <2>2. pc'[q] = "idle" /\ \A b \in Actors : b # q => Same(b)
      BY <1>0, <1>2, AnswerSame
    <2>3. ~Carries(q) /\ ~Carries(q)'
      BY <2>1, <2>2 DEF Carries, Carrying, InFinalize, InHandler
    <2> QED
      BY <2>1, <2>2, <2>3, BystandersTold
  <1>3. CASE Prepares(q) /\ ~Answer(q)
    <2>1. PICK label \in {"checkStep", "checkAssignment", "queryLedger", "readReviews",
                          "writeReview", "appendLedger", "resume"} :
            Goto(q, label) /\ UNCHANGED <<index, engineStep, req>>
      BY <1>3 DEF Prepares, Validate, CheckStep, CheckAssignment, QueryLedger, ReadReviews,
             WriteReview, AppendLedger, Refuse
    <2>2. \A b \in Requests : b # q => outcome'[b] = outcome[b]
      BY <1>0, <1>3 DEF Prepares, Validate, CheckStep, CheckAssignment, QueryLedger,
             ReadReviews, WriteReview, AppendLedger, Refuse, WellFormed, TypeOK
    <2>3. pc'[q] = label /\ \A b \in Actors : b # q => Same(b)
      BY <1>0, <2>1, <2>2 DEF Goto, Same, WellFormed, TypeOK
    <2>4. ~Carries(q) /\ ~Carries(q)'
      BY <1>3, <2>3 DEF Prepares, Validate, CheckStep, CheckAssignment, QueryLedger,
             ReadReviews, WriteReview, AppendLedger, Carries, Carrying, InFinalize
    <2> QED
      BY <2>1, <2>3, <2>4, BystandersTold
  <1>4. CASE Resume(q) /\ ~Answer(q)
    <2>1. /\ engineStep[o] = req[q].step /\ req[q].step # None
          /\ engineStep' = [engineStep EXCEPT ![o] = None]
          /\ UNCHANGED <<req, outcome>>
          /\ \/ Goto(q, "resuspend") /\ index' = [index EXCEPT ![o] = "awaitSecondHumanReview"]
             \/ Goto(q, "commit") /\ index' = index
      BY <1>0, <1>1, <1>4, BusyHandler, NoneAssumption DEF Resume, Refuse, EngineRefuses
    <2>2. PICK label \in {"resuspend", "commit"} :
            /\ Goto(q, label)
            /\ label = "resuspend" => index' = [index EXCEPT ![o] = "awaitSecondHumanReview"]
      BY <2>1
    <2>3. pc'[q] = label /\ (\A b \in Actors : b # q => Same(b)) /\ Ob(q)' = o
      BY <1>0, <1>1, <2>1, <2>2, GotoSame DEF Ob
    <2>4. \A p \in Obligations : p # o =>
            index'[p] = index[p] /\ engineStep'[p] = engineStep[p]
      BY <1>0, <2>1 DEF WellFormed, TypeOK
    <2>5. Carries(q)' /\ Told(q)'
      BY <1>0, <2>2, <2>3 DEF Carries, Carrying, InFinalize, Told, WellFormed, TypeOK
    <2> QED
      BY <1>0, <1>1, <2>1, <2>3, <2>4, <2>5, CarrierTells
  <1>5. CASE Resuspend(q)
    <2>1. UNCHANGED index /\ engineStep' = [engineStep EXCEPT ![o] = "awaitSecondHumanReview"]
      BY <1>1, <1>5 DEF Resuspend
    <2>2. pc'[q] = "idle" /\ \A b \in Actors : b # q => Same(b)
      BY <1>0, <1>5, AnswerSame DEF Resuspend
    <2>3. Carries(q) /\ ~Carries(q)' /\ Told(q)' /\ index[o] = "awaitSecondHumanReview"
      BY <1>0, <1>1, <1>5, <2>2
      DEF Resuspend, Carries, Carrying, InFinalize, Told, InOneHand, IndexBasis
    <2>4. /\ index'[o] = engineStep'[o]
          /\ \A p \in Obligations : p # o =>
               index'[p] = index[p] /\ engineStep'[p] = engineStep[p]
      BY <1>0, <2>1, <2>3 DEF WellFormed, TypeOK
    <2> QED
      BY <1>0, <1>1, <2>2, <2>3, <2>4, CarrierTells
  <1> QED
    BY <1>2, <1>3, <1>4, <1>5 DEF Handle, Prepares

(***************************************************************************)
(* Whoever finalizes clears the index before the engine hears the end; a   *)
(* branch with nothing to commit never told the index anything.            *)
(***************************************************************************)
LEMMA FinalizeTold ==
  ASSUME InOneHand, NoFailure, WellFormed', NEW a \in Actors, Finalize(a)
  PROVE  IndexBasis'
  <1> USE DEF graphVars, indexVars, engineVars, localVars, outVars
  <1>0. /\ WellFormed /\ Carries(a) /\ pc[a] \in InFinalize
    BY DEF InOneHand, Strong, Basis, Carries, Carrying, InFinalize, Finalize, CheckCommitLog,
           ApplyCommit, ConflictCommit, AnnounceWin, AnnounceLoss, FireTicket, Settle
  <1>1. PICK o \in Obligations : o = Ob(a)
    BY <1>0, CarrierHasObligation
  <1>2. NothingToCommit(a) => index[o] = None
    BY <1>0, <1>1 DEF NothingToCommit, InOneHand, ReviewsFollowRouting, Ob
  <1>3. pc[a] \in {"ticket", "settle"} => index[o] = None
    BY <1>1 DEF InOneHand, IndexBasis
  <1>4. CASE ~Settle(a)
    <2>1. PICK label \in InFinalize :
            /\ Goto(a, label) /\ UNCHANGED <<engineStep, req, outcome>>
            /\ UNCHANGED index \/ ClearIndex(o)
            /\ label = "settle" \/ label = "ticket" =>
                 \/ pc[a] = "ticket" /\ UNCHANGED index
                 \/ ClearIndex(o)
                 \/ NothingToCommit(a) /\ UNCHANGED index
      BY <1>1, <1>4 DEF Finalize, CheckCommitLog, ApplyCommit, ConflictCommit, AnnounceWin,
             AnnounceLoss, FireTicket, InFinalize, Disturbed, NoFailure
    <2>2. pc'[a] = label /\ \A b \in Actors : b # a => Same(b)
      BY <1>0, <2>1, GotoSame
    <2>3. Ob(a)' = o
      BY <1>1, <2>1 DEF Ob
    <2>4. \A p \in Obligations : p # o => index'[p] = index[p] /\ engineStep'[p] = engineStep[p]
      BY <1>0, <2>1 DEF ClearIndex, WellFormed, TypeOK
    <2>5. label = "settle" \/ label = "ticket" => index'[o] = None
      BY <1>0, <1>2, <1>3, <2>1 DEF ClearIndex, WellFormed, TypeOK
    <2>6. Carries(a)' /\ Told(a)'
      BY <2>2, <2>3, <2>5 DEF Carries, Carrying, InFinalize, Told
    <2> QED
      BY <1>0, <1>1, <2>2, <2>3, <2>4, <2>6, CarrierTells
  <1>5. CASE Settle(a)
    <2>1. UNCHANGED index /\ index[o] = None
          /\ engineStep' = [engineStep EXCEPT ![o] = None]
      BY <1>1, <1>3, <1>5 DEF Settle
    <2>2. pc'[a] \in {"idle", "done"} /\ \A b \in Actors : b # a => Same(b)
      BY <1>0, <1>5, LeaveSame DEF Settle
    <2>3. ~Carries(a)' /\ Told(a)'
      BY <2>2 DEF Carries, Carrying, InFinalize, Told
    <2>4. /\ index'[o] = engineStep'[o]
          /\ \A p \in Obligations : p # o =>
               index'[p] = index[p] /\ engineStep'[p] = engineStep[p]
      BY <1>0, <2>1 DEF WellFormed, TypeOK
    <2> QED
      BY <1>0, <1>1, <2>2, <2>3, <2>4, CarrierTells
  <1> QED
    BY <1>4, <1>5

LEMMA SweepTold ==
  ASSUME InOneHand, WellFormed', FindGap \/ FillGap \/ UNCHANGED vars
  PROVE  IndexBasis'
  BY BystandersTold
  DEF FindGap, FillGap, vars, Same, graphVars, indexVars, engineVars, localVars, outVars

LEMMA NextTold ==
  ASSUME StrictEngine, NoFailure
  PROVE  InOneHand /\ WellFormed' /\ [Next]_vars => IndexBasis'
  BY BranchTold, SurfaceTold, HandleTold, FinalizeTold, SweepTold, DeliverTold
  DEF Next, Redeliver, Throw, Restart, Disturbed, NoFailure

LEMMA AlwaysInOneHand ==
  ASSUME StrictEngine, NoFailure
  PROVE  Spec => []InOneHand
  <1>1. Init => InOneHand
    BY InitWellFormed, InitBasis, InitFits, InitFollows, InitTold
    DEF InOneHand, Strong, Basis
  <1>2. InOneHand /\ [Next]_vars => InOneHand'
    <2>1. InOneHand /\ [Next]_vars => Strong' /\ ReviewsFollowRouting'
      BY NextBasis, NextFits, NextFollows DEF InOneHand, Strong
    <2>2. Strong' => WellFormed'
      BY DEF Strong, Basis
    <2>3. InOneHand /\ [Next]_vars => IndexBasis'
      BY <2>1, <2>2, NextTold
    <2> QED
      BY <2>1, <2>3 DEF InOneHand
  <1> QED
    BY <1>1, <1>2, PTL DEF Spec

(***************************************************************************)
(* Once nobody works on an obligation the index and the engine agree on    *)
(* where it waits, if the engine is strict and no port fails.              *)
(***************************************************************************)
THEOREM IndexAlwaysAgrees ==
  ASSUME StrictEngine, NoFailure
  PROVE  Spec => []IndexAgreesWithEngine
  <1>1. InOneHand => IndexAgreesWithEngine
    <2> SUFFICES ASSUME InOneHand, NEW o \in Obligations, Quiet(o)
                 PROVE  index[o] = engineStep[o]
      BY DEF IndexAgreesWithEngine
    <2>1. ASSUME NEW a \in Actors, Carries(a)
          PROVE  Ob(a) # o
      <3>1. CASE a \in Requests
        <4>1. pc[a] # "idle"
          BY <2>1 DEF Carries, Carrying, InFinalize
        <4> QED
          BY <3>1, <4>1, BusyHandler DEF Quiet, InOneHand, Strong, Basis
      <3>2. CASE a \in Obligations
        BY <2>1, <3>2, BranchObligation DEF Quiet, Carries, Carrying, InFinalize
      <3> QED
        BY <3>1, <3>2 DEF Actors
    <2> QED
      BY <2>1 DEF InOneHand, IndexBasis
  <1> QED
    BY <1>1, AlwaysInOneHand, PTL

(***************************************************************************)
(* Whoever is between the engine and the index owes the index what it does *)
(* not say yet, if the engine is strict and no port fails.                 *)
(***************************************************************************)
THEOREM IndexBasisAlways == ASSUME StrictEngine, NoFailure PROVE Spec => []IndexBasis
  BY AlwaysInOneHand, PTL DEF InOneHand

(***************************************************************************)
(* Reviews are taken from the right people, and wanted where they are      *)
(* taken: what both need of the engine, the ports and the surfaces.        *)
(***************************************************************************)
THEOREM ReviewsAlwaysOrderly ==
  ASSUME StrictEngine, NoFailure, OneSubmission
  PROVE  Spec => []ReviewsAreOrderly
  BY IndexAlwaysAgrees, MakerThenCheckerAlways, PTL DEF ReviewsAreOrderly

=============================================================================
