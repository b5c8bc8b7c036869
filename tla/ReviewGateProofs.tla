-------------------------- MODULE ReviewGateProofs --------------------------
(***************************************************************************)
(* Theorems about ReviewGate, for any number of obligations, reviewers and *)
(* handlers, for either engine and under every disturbance.                *)
(***************************************************************************)
EXTENDS ReviewGate, TLAPS

(***************************************************************************)
(* Where an actor can be, and what a handler carries there.                *)
(***************************************************************************)
Final == ReviewOutcomes \ {"AWAITING_SECOND_REVIEWER"}

Shape ==
  /\ \A o \in Obligations : pc[o] \in InBranch \cup InFinalize
  /\ \A q \in Requests :
       /\ pc[q] \in {"idle"} \cup InHandler \cup InFinalize
       /\ pc[q] # "idle" => req[q] \in RequestRecords
       /\ pc[q] = "resume" => outcome[q] \in ReviewOutcomes
       /\ pc[q] \in InFinalize => outcome[q] \in Final

WellFormed == TypeOK /\ Shape

(***************************************************************************)
(* computeReviewOutcome always yields one of the four outcomes.            *)
(***************************************************************************)
LEMMA OutcomeTyping ==
  ASSUME NEW t, NEW existing, NEW d \in Decisions
  PROVE  ComputeReviewOutcome(t, existing, d) \in ReviewOutcomes
  BY DEF ComputeReviewOutcome, Verdict, ReviewOutcomes, Decisions

LEMMA FinalTyping ==
  ASSUME NEW out \in Final
  PROVE  FinalOutcomeOf(out) \in FinalOutcomes
  BY DEF FinalOutcomeOf, Final, ReviewOutcomes, FinalOutcomes

LEMMA StatusTyping ==
  /\ \A t \in Tiers : PreReviewStatus(t) \in Statuses
  /\ \A f \in FinalOutcomes : FinalStatus(f) \in Statuses
  BY DEF PreReviewStatus, FinalStatus, Tiers, Statuses, FinalOutcomes

LEMMA InitWellFormed == Init => WellFormed
  <1> SUFFICES ASSUME Init PROVE WellFormed
    OBVIOUS
  <1> USE ConstantsAssumption DEF Init
  <1>1. TypeOK
    BY DEF TypeOK, Actors, NoClaims, InBranch
  <1>2. Shape
    BY DEF Shape, Actors, InBranch, InFinalize
  <1> QED
    BY <1>1, <1>2 DEF WellFormed

(***************************************************************************)
(* An actor that leaves frees its slot or ends its branch, and an actor    *)
(* that goes on keeps what it carries.                                     *)
(***************************************************************************)
LEMMA AnswerWellFormed ==
  ASSUME WellFormed, NEW q \in Requests, Answer(q)
  PROVE  /\ req' \in [Requests -> RequestRecords \cup {None}]
         /\ pc' \in [Actors -> InHandler \cup InFinalize \cup InBranch \cup {"idle"}]
         /\ seen' \in [Requests -> SUBSET ReviewRecords]
         /\ outcome' \in [Requests -> ReviewOutcomes \cup {None}]
         /\ Shape'
  <1> USE ConstantsAssumption DEF WellFormed, TypeOK, Answer, Actors
  <1>1. /\ req' \in [Requests -> RequestRecords \cup {None}]
        /\ seen' \in [Requests -> SUBSET ReviewRecords]
        /\ outcome' \in [Requests -> ReviewOutcomes \cup {None}]
    OBVIOUS
  <1>2. pc' \in [Actors -> InHandler \cup InFinalize \cup InBranch \cup {"idle"}]
    OBVIOUS
  <1>3. Shape'
    BY DEF Shape, InHandler, InFinalize
  <1> QED
    BY <1>1, <1>2, <1>3

LEMMA LeaveWellFormed ==
  ASSUME WellFormed, NEW a \in Actors, Leave(a)
  PROVE  /\ req' \in [Requests -> RequestRecords \cup {None}]
         /\ pc' \in [Actors -> InHandler \cup InFinalize \cup InBranch \cup {"idle"}]
         /\ seen' \in [Requests -> SUBSET ReviewRecords]
         /\ outcome' \in [Requests -> ReviewOutcomes \cup {None}]
         /\ Shape'
  <1>1. CASE a \in Requests
    BY <1>1, AnswerWellFormed DEF Leave
  <1>2. CASE a \notin Requests
    <2> USE ConstantsAssumption DEF Actors
    <2>1. a \in Obligations /\ pc' = [pc EXCEPT ![a] = "done"]
      BY <1>2 DEF Leave, Goto
    <2>2. req' = req /\ seen' = seen /\ outcome' = outcome
      BY <1>2 DEF Leave, localVars
    <2>3. pc' \in [Actors -> InHandler \cup InFinalize \cup InBranch \cup {"idle"}]
      BY <2>1 DEF WellFormed, TypeOK, InBranch
    <2>4. \A q \in Requests : pc'[q] = pc[q]
      BY <1>2, <2>1 DEF WellFormed, TypeOK
    <2>5. \A o \in Obligations : pc'[o] \in InBranch \cup InFinalize
      BY <2>1 DEF WellFormed, TypeOK, Shape, InBranch
    <2>6. Shape'
      BY <2>2, <2>4, <2>5 DEF WellFormed, Shape
    <2> QED
      BY <2>2, <2>3, <2>6 DEF WellFormed, TypeOK
  <1> QED
    BY <1>1, <1>2

(***************************************************************************)
(* A handler goes on, possibly with a new outcome.                         *)
(***************************************************************************)
LEMMA HandlerGoes ==
  ASSUME WellFormed, NEW q \in Requests, NEW label \in InHandler \cup InFinalize,
         pc[q] # "idle", Goto(q, label), req' = req,
         outcome' \in [Requests -> ReviewOutcomes \cup {None}],
         \A p \in Requests : p # q => outcome'[p] = outcome[p],
         label = "resume" => outcome'[q] \in ReviewOutcomes,
         label \in InFinalize => outcome'[q] \in Final
  PROVE  /\ pc' \in [Actors -> InHandler \cup InFinalize \cup InBranch \cup {"idle"}]
         /\ Shape'
  <1> USE ConstantsAssumption DEF Actors, Goto
  <1>1. pc' \in [Actors -> InHandler \cup InFinalize \cup InBranch \cup {"idle"}]
    BY DEF WellFormed, TypeOK
  <1>2. \A o \in Obligations : pc'[o] = pc[o]
    BY DEF WellFormed, TypeOK
  <1>3. \A p \in Requests : p # q => pc'[p] = pc[p]
    BY DEF WellFormed, TypeOK
  <1>4. pc'[q] = label
    BY DEF WellFormed, TypeOK
  <1>5. req[q] \in RequestRecords
    BY DEF WellFormed, Shape
  <1>6. Shape'
    BY <1>2, <1>3, <1>4, <1>5 DEF WellFormed, Shape
  <1> QED
    BY <1>1, <1>6

(***************************************************************************)
(* An actor moves within finalizeCommit, or a branch moves on.             *)
(***************************************************************************)
LEMMA FinalizeGoes ==
  ASSUME WellFormed, NEW a \in Actors, NEW label \in InFinalize,
         pc[a] \in InFinalize, Goto(a, label), UNCHANGED localVars
  PROVE  /\ pc' \in [Actors -> InHandler \cup InFinalize \cup InBranch \cup {"idle"}]
         /\ Shape'
  <1> USE ConstantsAssumption DEF Actors, Goto, localVars
  <1>1. pc' \in [Actors -> InHandler \cup InFinalize \cup InBranch \cup {"idle"}]
    BY DEF WellFormed, TypeOK
  <1>2. \A b \in Actors : b # a => pc'[b] = pc[b]
    BY DEF WellFormed, TypeOK
  <1>3. pc'[a] = label
    BY DEF WellFormed, TypeOK
  <1>4. pc[a] # "idle" /\ label # "idle" /\ label # "resume"
    BY DEF InFinalize
  <1>5. Shape'
    BY <1>2, <1>3, <1>4 DEF WellFormed, Shape
  <1> QED
    BY <1>1, <1>5

LEMMA BranchGoes ==
  ASSUME WellFormed, NEW o \in Obligations, NEW label \in InBranch \cup InFinalize,
         Goto(o, label), UNCHANGED localVars
  PROVE  /\ pc' \in [Actors -> InHandler \cup InFinalize \cup InBranch \cup {"idle"}]
         /\ Shape'
  <1> USE ConstantsAssumption DEF Actors, Goto, localVars
  <1>1. pc' \in [Actors -> InHandler \cup InFinalize \cup InBranch \cup {"idle"}]
    BY DEF WellFormed, TypeOK
  <1>2. \A b \in Actors : b # o => pc'[b] = pc[b]
    BY DEF WellFormed, TypeOK
  <1>3. pc'[o] = label
    BY DEF WellFormed, TypeOK
  <1>4. \A q \in Requests : q # o
    OBVIOUS
  <1>5. Shape'
    BY <1>2, <1>3, <1>4 DEF WellFormed, Shape
  <1> QED
    BY <1>1, <1>5

-----------------------------------------------------------------------------
(* One lemma per group of actions.                                         *)

LEMMA BranchWellFormed ==
  ASSUME WellFormed, NEW o \in Obligations, Branch(o)
  PROVE  WellFormed'
  <1> USE DEF graphVars, indexVars, engineVars, localVars, outVars
  <1>1. CASE RouteAndPreCommit(o)
    <2>1. PICK t \in RoutedTiers[o] :
            /\ tier' = [tier EXCEPT ![o] = t]
            /\ status' = [status EXCEPT ![o] = PreReviewStatus(t)]
            /\ Goto(o, IF t = "A" THEN "commit" ELSE "suspend") \/ Goto(o, "done")
      BY <1>1 DEF RouteAndPreCommit
    <2>2. t \in Tiers
      BY ConstantsAssumption
    <2>3. PreReviewStatus(t) \in Statuses
      BY <2>2, StatusTyping
    <2>4. /\ (IF t = "A" THEN "commit" ELSE "suspend") \in InBranch \cup InFinalize
          /\ "done" \in InBranch \cup InFinalize
      BY DEF InBranch, InFinalize
    <2>5. /\ pc' \in [Actors -> InHandler \cup InFinalize \cup InBranch \cup {"idle"}]
          /\ Shape'
      BY <1>1, <2>1, <2>4, BranchGoes DEF RouteAndPreCommit
    <2> QED
      BY <1>1, <2>1, <2>2, <2>3, <2>5 DEF RouteAndPreCommit, WellFormed, TypeOK
  <1>2. CASE RecordSuspension(o)
    <2>1. /\ pc' \in [Actors -> InHandler \cup InFinalize \cup InBranch \cup {"idle"}]
          /\ Shape'
      BY <1>2, BranchGoes DEF RecordSuspension, InBranch
    <2> QED
      BY <1>2, <2>1 DEF RecordSuspension, WellFormed, TypeOK, Steps
  <1>3. CASE Suspend(o)
    <2>1. /\ pc' \in [Actors -> InHandler \cup InFinalize \cup InBranch \cup {"idle"}]
          /\ Shape'
      BY <1>3, BranchGoes DEF Suspend, InBranch
    <2> QED
      BY <1>3, <2>1 DEF Suspend, WellFormed, TypeOK, Steps
  <1> QED
    BY <1>1, <1>2, <1>3 DEF Branch

LEMMA DeliverWellFormed ==
  ASSUME WellFormed, NEW q \in Requests, NEW r \in RequestRecords, Deliver(q, r)
  PROVE  WellFormed'
  <1> USE ConstantsAssumption DEF graphVars, indexVars, engineVars, outVars, Actors
  <1>1. /\ req' = [req EXCEPT ![q] = r]
        /\ pc' = [pc EXCEPT ![q] = "validate"]
        /\ outcome' = outcome /\ seen' = seen
    BY DEF Deliver, Goto
  <1>2. TypeOK'
    BY <1>1 DEF Deliver, WellFormed, TypeOK, InHandler
  <1>3. \A o \in Obligations : pc'[o] = pc[o]
    BY <1>1 DEF WellFormed, TypeOK
  <1>4. \A p \in Requests : p # q => pc'[p] = pc[p] /\ req'[p] = req[p]
    BY <1>1 DEF WellFormed, TypeOK
  <1>5. pc'[q] = "validate" /\ req'[q] = r
    BY <1>1 DEF WellFormed, TypeOK
  <1>6. Shape'
    BY <1>1, <1>3, <1>4, <1>5 DEF WellFormed, Shape, InHandler, InFinalize
  <1> QED
    BY <1>2, <1>6 DEF WellFormed

LEMMA SurfaceWellFormed ==
  ASSUME WellFormed, NEW o \in Obligations, NEW r \in Reviewers, Surface(o, r)
  PROVE  WellFormed'
  <1>1. CASE Claim(o, r)
    <2> DEFINE Slots == [maker : Reviewers \cup {None}, checker : Reviewers \cup {None}]
    <2>a. claims \in [Obligations -> Slots]
      BY DEF WellFormed, TypeOK
    <2>b. \A c \in Slots : /\ [c EXCEPT !.maker = r] \in Slots
                          /\ [c EXCEPT !.checker = r] \in Slots
      OBVIOUS
    <2>c. \/ claims' = [claims EXCEPT ![o] = [@ EXCEPT !.maker = r]]
          \/ claims' = [claims EXCEPT ![o] = [@ EXCEPT !.checker = r]]
      BY <1>1 DEF Claim
    <2>1. claims' \in [Obligations -> Slots]
      <3> HIDE DEF Slots
      <3> QED
        BY <2>a, <2>b, <2>c
    <2> QED
      BY <1>1, <2>1
      DEF Claim, graphVars, engineVars, localVars, outVars, WellFormed, TypeOK, Shape
  <1>2. ASSUME NEW q \in Requests, Submit(q, o, r)
        PROVE  WellFormed'
    <2>1. PICK e \in Events, d \in AllowedDecisions(tier[o]) :
            Deliver(q, [event |-> e, obligation |-> o, reviewer |-> r,
                        decision |-> d, step |-> index[o]])
      BY <1>2 DEF Submit
    <2>2. d \in Decisions /\ index[o] \in Steps
      BY <1>2 DEF AllowedDecisions, Decisions, Submit, WellFormed, TypeOK
    <2>3. [event |-> e, obligation |-> o, reviewer |-> r,
           decision |-> d, step |-> index[o]] \in RequestRecords
      BY <2>2 DEF RequestRecords
    <2> QED
      BY <2>1, <2>3, DeliverWellFormed
  <1> QED
    BY <1>1, <1>2 DEF Surface

LEMMA RedeliverWellFormed ==
  ASSUME WellFormed, NEW q \in Requests, Redeliver(q)
  PROVE  WellFormed'
  <1>1. ASSUME NEW p \in Requests, req[p] # None, Deliver(q, req[p])
        PROVE  WellFormed'
    <2>1. req[p] \in RequestRecords
      BY <1>1 DEF WellFormed, TypeOK
    <2> QED
      BY <1>1, <2>1, DeliverWellFormed
  <1>2. ASSUME NEW o \in Obligations, NEW rev \in reviews[o], Deliver(q, rev.request)
        PROVE  WellFormed'
    <2>1. rev \in ReviewRecords
      BY DEF WellFormed, TypeOK
    <2>2. rev.request \in RequestRecords
      BY <2>1 DEF ReviewRecords
    <2> QED
      BY <1>2, <2>2, DeliverWellFormed
  <1> QED
    BY <1>1, <1>2 DEF Redeliver

LEMMA RefuseWellFormed ==
  ASSUME WellFormed, NEW q \in Requests, Refuse(q)
  PROVE  WellFormed'
  BY AnswerWellFormed
  DEF Refuse, graphVars, indexVars, engineVars, outVars, WellFormed, TypeOK

LEMMA HandleWellFormed ==
  ASSUME WellFormed, NEW q \in Requests, Handle(q)
  PROVE  WellFormed'
  <1> USE DEF graphVars, indexVars, engineVars, localVars, outVars, Unchanged_Reading
  <1> DEFINE Located == /\ pc' \in [Actors -> InHandler \cup InFinalize \cup InBranch \cup {"idle"}]
                        /\ Shape'
  <1>a. pc[q] # "idle" /\ req[q] \in RequestRecords /\ Ob(q) \in Obligations
    <2>1. pc[q] # "idle"
      BY DEF Handle, Validate, CheckStep, CheckAssignment, QueryLedger, ReadReviews,
             WriteReview, AppendLedger, Resume, Resuspend
    <2>2. req[q] \in RequestRecords
      BY <2>1 DEF WellFormed, Shape
    <2>3. Ob(q) \in Obligations
      BY <2>2, ConstantsAssumption DEF Ob, RequestRecords
    <2> QED
      BY <2>1, <2>2, <2>3
  <1>b. outcome \in [Requests -> ReviewOutcomes \cup {None}]
    BY DEF WellFormed, TypeOK
  <1>c. NewReview(q) \in ReviewRecords
    BY <1>a DEF NewReview, ReviewRecords
  <1>1. CASE Validate(q)
    <2>1. CASE Refuse(q)
      BY <2>1, RefuseWellFormed
    <2>2. CASE ~Refuse(q)
      <3>1. Located
        BY <1>1, <2>2, <1>a, <1>b, HandlerGoes DEF Validate, InHandler, InFinalize
      <3> QED
        BY <1>1, <2>2, <3>1 DEF Validate, WellFormed, TypeOK
    <2> QED
      BY <2>1, <2>2
  <1>2. CASE CheckStep(q)
    <2>1. CASE Refuse(q)
      BY <2>1, RefuseWellFormed
    <2>2. CASE ~Refuse(q)
      <3>1. Located
        BY <1>2, <2>2, <1>a, <1>b, HandlerGoes DEF CheckStep, InHandler, InFinalize
      <3> QED
        BY <1>2, <2>2, <3>1 DEF CheckStep, WellFormed, TypeOK
    <2> QED
      BY <2>1, <2>2
  <1>3. CASE CheckAssignment(q)
    <2>1. CASE Refuse(q)
      BY <2>1, RefuseWellFormed
    <2>2. CASE ~Refuse(q)
      <3>1. Located
        BY <1>3, <2>2, <1>a, <1>b, HandlerGoes DEF CheckAssignment, InHandler, InFinalize
      <3> QED
        BY <1>3, <2>2, <3>1 DEF CheckAssignment, WellFormed, TypeOK
    <2> QED
      BY <2>1, <2>2
  <1>4. CASE QueryLedger(q)
    <2>1. CASE EntriesOf(Ob(q), req[q].event) = {}
      <3>1. Located
        BY <1>4, <2>1, <1>a, <1>b, HandlerGoes DEF QueryLedger, InHandler, InFinalize
      <3> QED
        BY <1>4, <2>1, <3>1 DEF QueryLedger, WellFormed, TypeOK
    <2>2. CASE EntriesOf(Ob(q), req[q].event) # {}
      <3>1. PICK entry \in EntriesOf(Ob(q), req[q].event) :
              outcome' = [outcome EXCEPT ![q] = entry.outcome]
        BY <1>4, <2>2 DEF QueryLedger
      <3>2. entry \in EntryRecords /\ entry.outcome # None
        BY <3>1, <1>a DEF EntriesOf, WellFormed, TypeOK
      <3>3. entry.outcome \in ReviewOutcomes
        BY <3>2 DEF EntryRecords
      <3>4. outcome' \in [Requests -> ReviewOutcomes \cup {None}]
        BY <3>1, <3>3, <1>b
      <3>5. outcome'[q] \in ReviewOutcomes /\ \A p \in Requests : p # q => outcome'[p] = outcome[p]
        BY <3>1, <3>3, <1>b
      <3>6. Goto(q, "resume") /\ req' = req
        BY <1>4, <2>2 DEF QueryLedger
      <3>7. Located
        BY <3>4, <3>5, <3>6, <1>a, HandlerGoes DEF InHandler, InFinalize
      <3> QED
        BY <1>4, <3>4, <3>7 DEF QueryLedger, WellFormed, TypeOK
    <2> QED
      BY <2>1, <2>2
  <1>5. CASE ReadReviews(q)
    <2>1. CASE Refuse(q)
      BY <2>1, RefuseWellFormed
    <2>2. CASE ~Refuse(q)
      <3>1. Located
        BY <1>5, <2>2, <1>a, <1>b, HandlerGoes DEF ReadReviews, InHandler, InFinalize
      <3>2. seen' \in [Requests -> SUBSET ReviewRecords]
        BY <1>5, <2>2, <1>a DEF ReadReviews, WellFormed, TypeOK
      <3> QED
        BY <1>5, <2>2, <3>1, <3>2 DEF ReadReviews, WellFormed, TypeOK
    <2> QED
      BY <2>1, <2>2
  <1>6. CASE WriteReview(q)
    <2>1. reviews' \in [Obligations -> SUBSET ReviewRecords]
      BY <1>6, <1>a, <1>c DEF WriteReview, WellFormed, TypeOK
    <2>2. CASE Answer(q)
      BY <1>6, <2>1, <2>2, AnswerWellFormed DEF WriteReview, WellFormed, TypeOK
    <2>3. CASE ~Answer(q)
      <3>1. Located
        BY <1>6, <2>3, <1>a, <1>b, HandlerGoes DEF WriteReview, InHandler, InFinalize
      <3> QED
        BY <1>6, <2>1, <2>3, <3>1 DEF WriteReview, WellFormed, TypeOK
    <2> QED
      BY <2>2, <2>3
  <1>7. CASE AppendLedger(q)
    <2>1. OutcomeOf(q) \in ReviewOutcomes
      BY <1>a, OutcomeTyping DEF OutcomeOf, RequestRecords
    <2>2. [review |-> NewReview(q), outcome |-> OutcomeOf(q)] \in EntryRecords
      BY <2>1, <1>c DEF EntryRecords
    <2>3. ledger' \in [Obligations -> SUBSET EntryRecords]
      BY <1>7, <2>2, <1>a DEF AppendLedger, WellFormed, TypeOK
    <2>4. CASE Answer(q)
      BY <1>7, <2>3, <2>4, AnswerWellFormed DEF AppendLedger, WellFormed, TypeOK
    <2>5. CASE ~Answer(q)
      <3>1. outcome' = [outcome EXCEPT ![q] = OutcomeOf(q)] /\ Goto(q, "resume")
            /\ req' = req /\ seen' = seen
        BY <1>7, <2>5 DEF AppendLedger
      <3>2. outcome' \in [Requests -> ReviewOutcomes \cup {None}]
        BY <3>1, <2>1, <1>b
      <3>3. outcome'[q] \in ReviewOutcomes /\ \A p \in Requests : p # q => outcome'[p] = outcome[p]
        BY <3>1, <2>1, <1>b
      <3>4. Located
        BY <3>1, <3>2, <3>3, <1>a, HandlerGoes DEF InHandler, InFinalize
      <3> QED
        BY <1>7, <2>3, <3>1, <3>2, <3>4 DEF AppendLedger, WellFormed, TypeOK
    <2> QED
      BY <2>4, <2>5
  <1>8. CASE Resume(q)
    <2>1. CASE Refuse(q)
      BY <2>1, RefuseWellFormed
    <2>2. CASE ~Refuse(q)
      <3>1. engineStep' \in [Obligations -> Steps \cup {None}]
        BY <1>8, <2>2, <1>a DEF Resume, WellFormed, TypeOK
      <3>2. outcome[q] \in ReviewOutcomes /\ UNCHANGED localVars
        BY <1>8, <2>2 DEF Resume, WellFormed, Shape
      <3>3. CASE outcome[q] = "AWAITING_SECOND_REVIEWER"
        <4>1. Located
          BY <1>8, <2>2, <3>2, <3>3, <1>a, <1>b, HandlerGoes DEF Resume, InHandler, InFinalize
        <4>2. /\ makerOf' = [makerOf EXCEPT ![Ob(q)] = req[q].reviewer]
              /\ index' = [index EXCEPT ![Ob(q)] = "awaitSecondHumanReview"]
          BY <1>8, <2>2, <3>3 DEF Resume
        <4>3. req[q].reviewer \in Reviewers
          BY <1>a DEF RequestRecords
        <4>4. makerOf' \in [Obligations -> Reviewers \cup {None}]
          BY <4>2, <4>3 DEF WellFormed, TypeOK
        <4>5. index' \in [Obligations -> Steps \cup {None}]
          BY <4>2 DEF WellFormed, TypeOK, Steps
        <4> QED
          BY <1>8, <2>2, <3>1, <4>1, <4>4, <4>5 DEF Resume, WellFormed, TypeOK
      <3>4. CASE outcome[q] # "AWAITING_SECOND_REVIEWER"
        <4>1. Goto(q, "commit") /\ makerOf' = makerOf /\ index' = index
          BY <1>8, <2>2, <3>4 DEF Resume
        <4>2. outcome[q] \in Final
          BY <3>2, <3>4 DEF Final
        <4>3. Located
          BY <4>1, <4>2, <3>2, <1>a, <1>b, HandlerGoes DEF InHandler, InFinalize
        <4> QED
          BY <1>8, <2>2, <3>1, <4>1, <4>3 DEF Resume, WellFormed, TypeOK
      <3> QED
        BY <3>3, <3>4
    <2> QED
      BY <2>1, <2>2
  <1>9. CASE Resuspend(q)
    <2>1. engineStep' \in [Obligations -> Steps \cup {None}]
      BY <1>9, <1>a DEF Resuspend, WellFormed, TypeOK, Steps
    <2> QED
      BY <1>9, <2>1, AnswerWellFormed DEF Resuspend, WellFormed, TypeOK
  <1> QED
    BY <1>1, <1>2, <1>3, <1>4, <1>5, <1>6, <1>7, <1>8, <1>9 DEF Handle

LEMMA FinalizeWellFormed ==
  ASSUME WellFormed, NEW a \in Actors, Finalize(a)
  PROVE  WellFormed'
  <1> USE DEF graphVars, indexVars, engineVars, localVars, outVars
  <1> DEFINE Located == /\ pc' \in [Actors -> InHandler \cup InFinalize \cup InBranch \cup {"idle"}]
                        /\ Shape'
  <1>a. /\ pc[a] \in InFinalize
        /\ a \in Requests => req[a] \in RequestRecords /\ outcome[a] \in Final
    <2>1. pc[a] \in InFinalize
      BY DEF Finalize, CheckCommitLog, ApplyCommit, ConflictCommit, AnnounceWin,
             AnnounceLoss, FireTicket, Settle, InFinalize
    <2>2. pc[a] # "idle"
      BY <2>1 DEF InFinalize
    <2> QED
      BY <2>1, <2>2 DEF WellFormed, Shape
  <1>b. Ob(a) \in Obligations
    BY <1>a DEF Ob, Actors, RequestRecords
  <1>c. FinalOf(a) \in FinalOutcomes
    <2>1. CASE a \in Obligations
      BY <2>1 DEF FinalOf, FinalOutcomes
    <2>2. CASE a \notin Obligations
      BY <2>2, <1>a, FinalTyping DEF FinalOf, Actors
    <2> QED
      BY <2>1, <2>2
  <1>d. FinalStatus(FinalOf(a)) \in Statuses
    BY <1>c, StatusTyping
  <1>1. CASE CheckCommitLog(a)
    <2>1. Located
      BY <1>1, <1>a, FinalizeGoes DEF CheckCommitLog, InFinalize
    <2> QED
      BY <1>1, <2>1 DEF CheckCommitLog, WellFormed, TypeOK
  <1>2. CASE ApplyCommit(a)
    <2>1. /\ commitLog' \in [Obligations -> FinalOutcomes \cup {None}]
          /\ status' \in [Obligations -> Statuses \cup {None}]
      BY <1>2, <1>b, <1>c, <1>d DEF ApplyCommit, WellFormed, TypeOK
    <2>2. supersededBy' \in [OldObligations -> Obligations \cup {None}]
      BY <1>2, <1>b DEF ApplyCommit, WellFormed, TypeOK
    <2>3. CASE Goto(a, "won") /\ UNCHANGED localVars
      <3>1. Located
        BY <2>3, <1>a, FinalizeGoes DEF InFinalize
      <3> QED
        BY <1>2, <2>1, <2>2, <2>3, <3>1 DEF ApplyCommit, WellFormed, TypeOK
    <2>4. CASE Leave(a)
      BY <1>2, <2>1, <2>2, <2>4, LeaveWellFormed DEF ApplyCommit, WellFormed, TypeOK
    <2> QED
      BY <1>2, <2>3, <2>4 DEF ApplyCommit
  <1>3. CASE ConflictCommit(a)
    <2>1. Located
      BY <1>3, <1>a, FinalizeGoes DEF ConflictCommit, InFinalize
    <2> QED
      BY <1>3, <2>1 DEF ConflictCommit, WellFormed, TypeOK
  <1>4. CASE AnnounceWin(a)
    <2>1. Located
      BY <1>4, <1>a, FinalizeGoes DEF AnnounceWin, InFinalize
    <2>2. finalAudits' \in [Obligations -> SUBSET FinalOutcomes]
      BY <1>4, <1>b, <1>c DEF AnnounceWin, WellFormed, TypeOK
    <2>3. CASE NothingToCommit(a)
      BY <1>4, <2>1, <2>2, <2>3 DEF AnnounceWin, WellFormed, TypeOK
    <2>4. CASE ~NothingToCommit(a)
      <3>1. index' \in [Obligations -> Steps \cup {None}]
        BY <1>4, <2>4, <1>b DEF AnnounceWin, ClearIndex, WellFormed, TypeOK
      <3>2. claims' \in [Obligations -> [maker : Reviewers \cup {None},
                                         checker : Reviewers \cup {None}]]
        BY <1>4, <2>4, <1>b, SMTT(30) DEF AnnounceWin, ClearIndex, NoClaims, WellFormed, TypeOK
      <3> QED
        BY <1>4, <2>1, <2>2, <3>1, <3>2 DEF AnnounceWin, WellFormed, TypeOK
    <2> QED
      BY <2>3, <2>4
  <1>5. CASE AnnounceLoss(a)
    <2>1. Located
      BY <1>5, <1>a, FinalizeGoes DEF AnnounceLoss, InFinalize
    <2>2. index' \in [Obligations -> Steps \cup {None}]
      BY <1>5, <1>b DEF AnnounceLoss, ClearIndex, WellFormed, TypeOK
    <2>3. claims' \in [Obligations -> [maker : Reviewers \cup {None},
                                       checker : Reviewers \cup {None}]]
      BY <1>5, <1>b DEF AnnounceLoss, ClearIndex, NoClaims, WellFormed, TypeOK
    <2> QED
      BY <1>5, <2>1, <2>2, <2>3 DEF AnnounceLoss, WellFormed, TypeOK
  <1>6. CASE FireTicket(a)
    <2>1. Located
      BY <1>6, <1>a, FinalizeGoes DEF FireTicket, InFinalize
    <2>2. tickets' = [tickets EXCEPT ![Ob(a)] = tickets[Ob(a)] + 1] \/ tickets' = tickets
      BY <1>6 DEF FireTicket
    <2>3. tickets \in [Obligations -> Nat] /\ tickets[Ob(a)] + 1 \in Nat
      BY <1>b DEF WellFormed, TypeOK
    <2>4. tickets' \in [Obligations -> Nat]
      BY <2>2, <2>3
    <2> QED
      BY <1>6, <2>1, <2>4 DEF FireTicket, WellFormed, TypeOK
  <1>7. CASE Settle(a)
    <2>1. engineStep' \in [Obligations -> Steps \cup {None}]
      BY <1>7, <1>b DEF Settle, WellFormed, TypeOK
    <2> QED
      BY <1>7, <2>1, LeaveWellFormed DEF Settle, WellFormed, TypeOK
  <1> QED
    BY <1>1, <1>2, <1>3, <1>4, <1>5, <1>6, <1>7 DEF Finalize

LEMMA EnvironmentWellFormed ==
  ASSUME WellFormed,
         (\E a \in Actors : Throw(a)) \/ FindGap \/ FillGap \/ Restart \/ UNCHANGED vars
  PROVE  WellFormed'
  <1> USE DEF graphVars, indexVars, engineVars, localVars, outVars
  <1>1. ASSUME NEW a \in Actors, Throw(a)
        PROVE  WellFormed'
    BY <1>1, LeaveWellFormed DEF Throw, WellFormed, TypeOK
  <1>2. CASE FindGap
    <2>0. PICK o \in Obligations : \E rev \in reviews[o] : sweep' = <<o, rev>>
      BY <1>2 DEF FindGap
    <2>1. PICK rev \in reviews[o] : sweep' = <<o, rev>>
      BY <2>0
    <2>2. sweep' \in (Obligations \X ReviewRecords) \cup {None}
      BY <2>1 DEF WellFormed, TypeOK
    <2> QED
      BY <1>2, <2>2 DEF FindGap, WellFormed, TypeOK, Shape
  <1>3. CASE FillGap
    <2>1. sweep[1] \in Obligations /\ sweep[2] \in ReviewRecords
      BY <1>3 DEF FillGap, WellFormed, TypeOK
    <2>2. [review |-> sweep[2], outcome |-> None] \in EntryRecords
      BY <2>1 DEF EntryRecords
    <2>3. ledger' \in [Obligations -> SUBSET EntryRecords]
      BY <1>3, <2>1, <2>2 DEF FillGap, WellFormed, TypeOK
    <2> QED
      BY <1>3, <2>3 DEF FillGap, WellFormed, TypeOK, Shape
  <1>4. CASE Restart
    <2>1. /\ index' \in [Obligations -> Steps \cup {None}]
          /\ claims' \in [Obligations -> [maker : Reviewers \cup {None},
                                          checker : Reviewers \cup {None}]]
          /\ req' \in [Requests -> RequestRecords \cup {None}]
          /\ seen' \in [Requests -> SUBSET ReviewRecords]
          /\ outcome' \in [Requests -> ReviewOutcomes \cup {None}]
          /\ sweep' \in (Obligations \X ReviewRecords) \cup {None}
      BY <1>4 DEF Restart, NoClaims
    <2>2. pc' \in [Actors -> InHandler \cup InFinalize \cup InBranch \cup {"idle"}]
      BY <1>4 DEF Restart, InBranch
    <2>3. Shape'
      BY <1>4, ConstantsAssumption DEF Restart, Shape, InBranch, InHandler, InFinalize, Actors
    <2> QED
      BY <1>4, <2>1, <2>2, <2>3 DEF Restart, WellFormed, TypeOK
  <1>5. CASE UNCHANGED vars
    BY <1>5 DEF vars, WellFormed, TypeOK, Shape
  <1> QED
    BY <1>1, <1>2, <1>3, <1>4, <1>5

-----------------------------------------------------------------------------

LEMMA NextWellFormed == WellFormed /\ [Next]_vars => WellFormed'
  BY BranchWellFormed, SurfaceWellFormed, RedeliverWellFormed, HandleWellFormed,
     FinalizeWellFormed, EnvironmentWellFormed
  DEF Next

LEMMA AlwaysWellFormed == Spec => []WellFormed
  BY InitWellFormed, NextWellFormed, PTL DEF Spec

(***************************************************************************)
(* Every variable keeps its type, in every instance: a handler never      *)
(* carries an outcome into finalizeCommit that has no final outcome, and   *)
(* no status but those of the pre-review and finalize plans is written.    *)
(***************************************************************************)
THEOREM TypeCorrect == Spec => []TypeOK
  BY AlwaysWellFormed, PTL DEF WellFormed

(***************************************************************************)
(* No decision without the agreement its tier asks for, and none the audit *)
(* ledger does not explain: DecisionBasis is inductive.  The argument goes *)
(* handler by handler and obligation by obligation, since a step moves one *)
(* of each at most and the stores only grow under the others.              *)
(***************************************************************************)
Basis == WellFormed /\ DecisionBasis

(***************************************************************************)
(* DecisionBasis, cut by handler and by obligation.                        *)
(***************************************************************************)
HandlerBasis(q) ==
  /\ pc[q] \in {"writeReview", "appendLedger"} =>
       \A rev \in seen[q] : /\ rev \in reviews[Ob(q)]
                            /\ rev.request.reviewer # req[q].reviewer
  /\ pc[q] = "appendLedger" => NewReview(q) \in reviews[Ob(q)]
  /\ pc[q] \in {"resume"} \cup InFinalize =>
       /\ Supports(Ob(q), outcome[q])
       /\ \E e \in ledger[Ob(q)] : e.outcome = outcome[q]
  /\ req[q] # None => pc[req[q].obligation] # "unrouted"

StoreBasis(o) ==
  /\ \A e \in ledger[o] : e.review \in reviews[o] /\ Supports(o, e.outcome)
  /\ \A rev \in reviews[o] : rev.request.obligation = o
  /\ pc[o] = "unrouted" => /\ status[o] = None /\ index[o] = None
                           /\ reviews[o] = {} /\ ledger[o] = {}
  /\ status[o] = "committed" => /\ AgreedOn(o, "approve")
                                /\ \E e \in ledger[o] : e.outcome = "APPROVED"
  /\ status[o] = "rejected"  => /\ AgreedOn(o, "reject")
                                /\ \E e \in ledger[o] : e.outcome = "REJECTED"

BasisParts ==
  /\ \A q \in Requests : HandlerBasis(q)
  /\ \A o \in Obligations : StoreBasis(o)
  /\ GapIsReal

LEMMA BasisByParts == TypeOK => (DecisionBasis <=> BasisParts)
  <1> SUFFICES ASSUME TypeOK PROVE DecisionBasis <=> BasisParts
    OBVIOUS
  <1> USE DEF BasisParts
  <1>1. ASSUME DecisionBasis, NEW q \in Requests
        PROVE  HandlerBasis(q)
    <2>1. req[q] # None => req[q].obligation \in Obligations
      BY DEF TypeOK, RequestRecords
    <2> QED
      BY <1>1, <2>1 DEF DecisionBasis, HandlerBasis, ReadsStand, WritesStand,
                        OutcomesAreJustified, NothingBeforeRouting
  <1>2. ASSUME DecisionBasis, NEW o \in Obligations
        PROVE  StoreBasis(o)
    BY <1>2 DEF DecisionBasis, StoreBasis, EntriesAreJustified, ReviewsBelong,
                NothingBeforeRouting, DecisionsAreAgreed, LedgerExplainsGraph
  <1>3. ASSUME \A q \in Requests : HandlerBasis(q)
        PROVE  /\ ReadsStand /\ WritesStand /\ OutcomesAreJustified
               /\ \A o \in Obligations : pc[o] = "unrouted" =>
                    \A q \in Requests : req[q] # None => req[q].obligation # o
    BY <1>3 DEF HandlerBasis, ReadsStand, WritesStand, OutcomesAreJustified
  <1>4. ASSUME \A o \in Obligations : StoreBasis(o)
        PROVE  /\ EntriesAreJustified /\ ReviewsBelong
               /\ DecisionsAreAgreed /\ LedgerExplainsGraph
               /\ \A o \in Obligations : pc[o] = "unrouted" =>
                    status[o] = None /\ index[o] = None /\ reviews[o] = {} /\ ledger[o] = {}
    BY <1>4 DEF StoreBasis, EntriesAreJustified, ReviewsBelong,
                DecisionsAreAgreed, LedgerExplainsGraph
  <1> QED
    BY <1>1, <1>2, <1>3, <1>4 DEF DecisionBasis, NothingBeforeRouting

-----------------------------------------------------------------------------
(* What the other actors may do to the stores under a handler.             *)

Grows ==
  \A o \in Obligations :
    /\ pc[o] # "unrouted" => pc'[o] # "unrouted" /\ tier'[o] = tier[o]
    /\ reviews[o] \subseteq reviews'[o]
    /\ ledger[o] \subseteq ledger'[o]

(***************************************************************************)
(* An agreement stays: reviews are never taken back.                       *)
(***************************************************************************)
LEMMA AgreementLasts ==
  ASSUME NEW o, NEW d, AgreedOn(o, d),
         tier'[o] = tier[o], reviews[o] \subseteq reviews'[o]
  PROVE  AgreedOn(o, d)'
  BY DEF AgreedOn

LEMMA SupportLasts ==
  ASSUME NEW o, NEW out, Supports(o, out),
         tier'[o] = tier[o], reviews[o] \subseteq reviews'[o]
  PROVE  Supports(o, out)'
  BY AgreementLasts DEF Supports, DisagreedOn

(***************************************************************************)
(* A handler that leaves, stays, or moves to where it needs no new reason  *)
(* keeps the reasons it has.                                               *)
(***************************************************************************)
LEMMA HandlerKeeps ==
  ASSUME Basis, Grows, NEW q \in Requests,
         \/ /\ req'[q] = req[q] /\ seen'[q] = seen[q] /\ outcome'[q] = outcome[q]
            /\ pc'[q] \in {"writeReview", "appendLedger"} => pc[q] = pc'[q]
            /\ pc'[q] \in {"resume"} \cup InFinalize => pc[q] \in {"resume"} \cup InFinalize
         \/ pc'[q] = "idle" /\ req'[q] = None
  PROVE  HandlerBasis(q)'
  <1>1. CASE pc'[q] = "idle" /\ req'[q] = None
    BY <1>1 DEF HandlerBasis, InFinalize
  <1>2. CASE /\ req'[q] = req[q] /\ seen'[q] = seen[q] /\ outcome'[q] = outcome[q]
             /\ pc'[q] \in {"writeReview", "appendLedger"} => pc[q] = pc'[q]
             /\ pc'[q] \in {"resume"} \cup InFinalize => pc[q] \in {"resume"} \cup InFinalize
    <2>1. HandlerBasis(q)
      BY BasisByParts DEF BasisParts, Basis, WellFormed
    <2>2. req[q] # None => /\ req[q].obligation \in Obligations
                           /\ pc'[req[q].obligation] # "unrouted"
                           /\ tier'[req[q].obligation] = tier[req[q].obligation]
                           /\ reviews[req[q].obligation] \subseteq reviews'[req[q].obligation]
                           /\ ledger[req[q].obligation] \subseteq ledger'[req[q].obligation]
      <3>1. req[q] # None => req[q].obligation \in Obligations
        BY DEF Basis, WellFormed, TypeOK, RequestRecords
      <3> QED
        BY <2>1, <3>1 DEF HandlerBasis, Grows
    <2>3. pc[q] # "idle" => req[q] \in RequestRecords /\ req[q] # None
      BY SlotAssumption DEF Basis, WellFormed, Shape
    <2>4. Ob(q)' = Ob(q) /\ NewReview(q)' = NewReview(q)
      BY <1>2 DEF Ob, NewReview
    <2>5. pc[q] # "idle" => Ob(q) = req[q].obligation
      BY ConstantsAssumption DEF Ob
    <2>6. CASE pc[q] = "idle"
      BY <1>2, <2>2, <2>6 DEF HandlerBasis, InFinalize
    <2>7. CASE pc[q] # "idle"
      <3>0. PICK o \in Obligations : o = req[q].obligation
        BY <2>2, <2>3, <2>7
      <3>1. /\ pc'[o] # "unrouted" /\ tier'[o] = tier[o]
            /\ reviews[o] \subseteq reviews'[o] /\ ledger[o] \subseteq ledger'[o]
        BY <2>2, <2>3, <2>7, <3>0
      <3>3. \A out : Supports(o, out) => Supports(o, out)'
        BY <3>1, SupportLasts
      <3>4. Ob(q) = o /\ Ob(q)' = o
        BY <2>4, <2>5, <2>7, <3>0
      <3>5. /\ pc[q] \in {"resume"} \cup InFinalize =>
                 Supports(o, outcome[q]) /\ \E e \in ledger[o] : e.outcome = outcome[q]
        BY <2>1, <3>4 DEF HandlerBasis
      <3>6. pc'[q] \in {"resume"} \cup InFinalize =>
              (Supports(o, outcome[q]) /\ \E e \in ledger[o] : e.outcome = outcome[q])'
        BY <1>2, <3>1, <3>3, <3>5
      <3> QED
        BY <1>2, <2>1, <2>4, <2>7, <3>0, <3>1, <3>4, <3>6 DEF HandlerBasis
    <2> QED
      BY <2>6, <2>7
  <1> QED
    BY <1>1, <1>2

(***************************************************************************)
(* An obligation whose status does not move keeps its reasons, if what is  *)
(* added to its reviews and entries has reasons of its own.                *)
(***************************************************************************)
LEMMA StoreKeeps ==
  ASSUME Basis, Grows, NEW o \in Obligations,
         tier'[o] = tier[o], status'[o] = status[o],
         \A rev \in reviews'[o] : rev \in reviews[o] \/ rev.request.obligation = o,
         \A e \in ledger'[o] : \/ e \in ledger[o]
                               \/ e.review \in reviews'[o] /\ Supports(o, e.outcome)',
         pc'[o] = "unrouted" => /\ pc[o] = "unrouted"
                                /\ index'[o] \in {index[o], None}
                                /\ reviews'[o] = reviews[o] /\ ledger'[o] = ledger[o]
  PROVE  StoreBasis(o)'
  <1>1. StoreBasis(o)
    BY BasisByParts DEF BasisParts, Basis, WellFormed
  <1>2. reviews[o] \subseteq reviews'[o] /\ ledger[o] \subseteq ledger'[o]
    BY DEF Grows
  <1>3. \A d : AgreedOn(o, d) => AgreedOn(o, d)'
    BY <1>2, AgreementLasts
  <1>4. \A out : Supports(o, out) => Supports(o, out)'
    BY <1>2, SupportLasts
  <1>5. \A e \in ledger'[o] : e.review \in reviews'[o] /\ Supports(o, e.outcome)'
    BY <1>1, <1>2, <1>4 DEF StoreBasis
  <1>6. \A rev \in reviews'[o] : rev.request.obligation = o
    BY <1>1 DEF StoreBasis
  <1>7. pc'[o] = "unrouted" => /\ status'[o] = None /\ index'[o] = None
                               /\ reviews'[o] = {} /\ ledger'[o] = {}
    BY <1>1 DEF StoreBasis
  <1>8. /\ status'[o] = "committed" => /\ AgreedOn(o, "approve")'
                                       /\ \E e \in ledger'[o] : e.outcome = "APPROVED"
        /\ status'[o] = "rejected"  => /\ AgreedOn(o, "reject")'
                                       /\ \E e \in ledger'[o] : e.outcome = "REJECTED"
    BY <1>1, <1>2, <1>3 DEF StoreBasis
  <1> QED
    BY <1>5, <1>6, <1>7, <1>8 DEF StoreBasis

(***************************************************************************)
(* Most steps touch none of the stores the basis speaks of.                *)
(***************************************************************************)
LEMMA StoresUntouched ==
  ASSUME Basis, UNCHANGED <<tier, status, reviews, ledger>>,
         \A o \in Obligations : pc'[o] = "unrouted" <=> pc[o] = "unrouted",
         \A o \in Obligations : pc[o] = "unrouted" => index'[o] \in {index[o], None}
  PROVE  Grows /\ \A o \in Obligations : StoreBasis(o)'
  <1>1. Grows
    BY DEF Grows
  <1>2. ASSUME NEW o \in Obligations
        PROVE  StoreBasis(o)'
    BY <1>1, StoreKeeps
  <1> QED
    BY <1>1, <1>2

(***************************************************************************)
(* Where everybody is after one actor has moved.                           *)
(***************************************************************************)
LEMMA OneMoves ==
  ASSUME WellFormed, NEW a \in Actors, NEW label, pc' = [pc EXCEPT ![a] = label]
  PROVE  /\ pc'[a] = label
         /\ \A b \in Actors : b # a => pc'[b] = pc[b]
         /\ a \in Requests => \A o \in Obligations : pc'[o] = pc[o]
         /\ a \in Obligations => \A q \in Requests : pc'[q] = pc[q]
  BY ConstantsAssumption DEF WellFormed, TypeOK, Actors

(***************************************************************************)
(* The handlers, when one actor leaves.                                    *)
(***************************************************************************)
LEMMA LeaveKeeps ==
  ASSUME Basis, Grows, NEW a \in Actors, Leave(a)
  PROVE  \A q \in Requests : HandlerBasis(q)'
  <1> USE DEF Basis
  <1>1. CASE a \in Requests
    <2>1. Answer(a)
      BY <1>1 DEF Leave
    <2>2. /\ pc'[a] = "idle" /\ req'[a] = None
          /\ \A q \in Requests : q # a => /\ pc'[q] = pc[q] /\ req'[q] = req[q]
                                          /\ seen'[q] = seen[q] /\ outcome'[q] = outcome[q]
      BY <1>1, <2>1 DEF Answer, WellFormed, TypeOK, Actors
    <2> QED
      BY <2>2, HandlerKeeps
  <1>2. CASE a \notin Requests
    <2>1. a \in Obligations /\ Goto(a, "done") /\ UNCHANGED localVars
      BY <1>2 DEF Leave, Actors
    <2>2. \A q \in Requests : pc'[q] = pc[q]
      BY <2>1, OneMoves DEF Goto
    <2> QED
      BY <2>1, <2>2, HandlerKeeps DEF localVars
  <1> QED
    BY <1>1, <1>2

LEMMA LeaveStays ==
  ASSUME WellFormed, NEW a \in Actors, Leave(a), pc[a] # "unrouted"
  PROVE  \A o \in Obligations : pc'[o] = "unrouted" <=> pc[o] = "unrouted"
  <1>1. CASE a \in Requests
    BY <1>1, OneMoves DEF Leave, Answer
  <1>2. CASE a \notin Requests
    BY <1>2, OneMoves DEF Leave, Goto, Actors
  <1> QED
    BY <1>1, <1>2

LEMMA GapKeeps ==
  ASSUME Basis, Grows, sweep' = sweep
  PROVE  GapIsReal'
  <1>1. sweep # None => sweep[1] \in Obligations
    BY DEF Basis, WellFormed, TypeOK
  <1> QED
    BY <1>1 DEF Basis, DecisionBasis, GapIsReal, Grows

-----------------------------------------------------------------------------
(* One lemma per group of actions.                                         *)

LEMMA InitBasis == Init => DecisionBasis
  <1> SUFFICES ASSUME Init PROVE DecisionBasis
    OBVIOUS
  <1> USE ConstantsAssumption DEF Init
  <1>1. TypeOK
    BY InitWellFormed DEF WellFormed
  <1>2. ASSUME NEW q \in Requests
        PROVE  HandlerBasis(q)
    BY DEF HandlerBasis, Actors, InFinalize
  <1>3. ASSUME NEW o \in Obligations
        PROVE  StoreBasis(o)
    BY NoneAssumption DEF StoreBasis, Statuses
  <1>4. GapIsReal
    BY DEF GapIsReal
  <1> QED
    BY <1>1, <1>2, <1>3, <1>4, BasisByParts DEF BasisParts

LEMMA RefuseBasis ==
  ASSUME Basis, NEW q \in Requests, Refuse(q)
  PROVE  /\ \A p \in Requests : HandlerBasis(p)'
         /\ \A o \in Obligations : StoreBasis(o)'
         /\ GapIsReal'
  <1> USE DEF Basis, graphVars, indexVars
  <1>1. Leave(q) /\ q \in Actors
    BY DEF Refuse, Leave, Actors
  <1>2. \A o \in Obligations : pc'[o] = pc[o]
    BY <1>1, OneMoves DEF Refuse, Answer
  <1>3. Grows /\ \A o \in Obligations : StoreBasis(o)'
    BY <1>2, StoresUntouched DEF Refuse
  <1>4. GapIsReal'
    BY DEF Refuse, DecisionBasis, GapIsReal
  <1> QED
    BY <1>1, <1>3, <1>4, LeaveKeeps

LEMMA BranchBasis ==
  ASSUME Basis, NEW o \in Obligations, Branch(o)
  PROVE  /\ \A q \in Requests : HandlerBasis(q)'
         /\ \A p \in Obligations : StoreBasis(p)'
         /\ GapIsReal'
  <1> USE DEF Basis, graphVars, indexVars, localVars, Goto, Actors
  <1>1. GapIsReal'
    BY DEF Branch, RouteAndPreCommit, RecordSuspension, Suspend, DecisionBasis, GapIsReal
  <1>2. req' = req /\ seen' = seen /\ outcome' = outcome
    BY DEF Branch, RouteAndPreCommit, RecordSuspension, Suspend
  <1>3. ASSUME Grows, \A q \in Requests : pc'[q] = pc[q]
        PROVE  \A q \in Requests : HandlerBasis(q)'
    BY <1>2, <1>3, HandlerKeeps
  <1>4. CASE RouteAndPreCommit(o)
    <2>1. PICK t \in RoutedTiers[o], label \in {"commit", "suspend", "done"} :
            /\ tier' = [tier EXCEPT ![o] = t]
            /\ status' = [status EXCEPT ![o] = PreReviewStatus(t)]
            /\ pc' = [pc EXCEPT ![o] = label]
      BY <1>4 DEF RouteAndPreCommit
    <2>2. /\ pc'[o] # "unrouted"
          /\ \A q \in Requests : pc'[q] = pc[q]
          /\ \A p \in Obligations : p # o => pc'[p] = pc[p]
      BY <2>1, OneMoves
    <2>3. \A p \in Obligations : p # o => tier'[p] = tier[p] /\ status'[p] = status[p]
      BY <2>1 DEF WellFormed, TypeOK
    <2>4. UNCHANGED <<reviews, ledger, index>> /\ pc[o] = "unrouted"
      BY <1>4 DEF RouteAndPreCommit
    <2>5. Grows
      BY <2>2, <2>3, <2>4 DEF Grows
    <2>6. ASSUME NEW p \in Obligations, p # o
          PROVE  StoreBasis(p)'
      BY <2>2, <2>3, <2>4, <2>5, <2>6, StoreKeeps
    <2>7. StoreBasis(o)'
      <3>1. StoreBasis(o)
        BY BasisByParts DEF BasisParts, WellFormed
      <3>2. reviews'[o] = {} /\ ledger'[o] = {}
        BY <2>4, <3>1 DEF StoreBasis
      <3>3. status'[o] = PreReviewStatus(t) /\ t \in Tiers
        BY <2>1, ConstantsAssumption DEF WellFormed, TypeOK
      <3>4. status'[o] # "committed" /\ status'[o] # "rejected"
        BY <3>3 DEF PreReviewStatus, Tiers
      <3> QED
        BY <2>2, <3>2, <3>4 DEF StoreBasis
    <2> QED
      BY <1>1, <1>3, <2>2, <2>5, <2>6, <2>7
  <1>5. CASE RecordSuspension(o) \/ Suspend(o)
    <2>1. PICK label \in {"suspending", "done"} : pc' = [pc EXCEPT ![o] = label]
      BY <1>5 DEF RecordSuspension, Suspend
    <2>2. /\ pc[o] # "unrouted" /\ pc'[o] # "unrouted"
          /\ \A q \in Requests : pc'[q] = pc[q]
          /\ \A p \in Obligations : p # o => pc'[p] = pc[p]
      BY <1>5, <2>1, OneMoves DEF RecordSuspension, Suspend
    <2>3. \A p \in Obligations : p # o => index'[p] = index[p]
      BY <1>5 DEF RecordSuspension, Suspend, WellFormed, TypeOK
    <2>4. Grows /\ \A p \in Obligations : StoreBasis(p)'
      BY <1>5, <2>2, <2>3, StoresUntouched DEF RecordSuspension, Suspend
    <2> QED
      BY <1>1, <1>3, <2>2, <2>4
  <1> QED
    BY <1>4, <1>5 DEF Branch

LEMMA DeliverBasis ==
  ASSUME Basis, NEW q \in Requests, NEW r \in RequestRecords, Deliver(q, r),
         pc[r.obligation] # "unrouted"
  PROVE  /\ \A p \in Requests : HandlerBasis(p)'
         /\ \A o \in Obligations : StoreBasis(o)'
         /\ GapIsReal'
  <1> USE DEF Basis, graphVars, indexVars, Actors
  <1>1. /\ req' = [req EXCEPT ![q] = r] /\ pc' = [pc EXCEPT ![q] = "validate"]
        /\ UNCHANGED <<tier, status, reviews, ledger, index, seen, outcome, sweep>>
    BY DEF Deliver, Goto
  <1>2. /\ pc'[q] = "validate"
        /\ \A p \in Requests : p # q => pc'[p] = pc[p]
        /\ \A o \in Obligations : pc'[o] = pc[o]
    BY <1>1, OneMoves, ZenonT(60)
  <1>3. Grows /\ \A o \in Obligations : StoreBasis(o)'
    BY <1>1, <1>2, StoresUntouched
  <1>4. req'[q] = r /\ \A p \in Requests : p # q => req'[p] = req[p]
    BY <1>1 DEF WellFormed, TypeOK
  <1>5. ASSUME NEW p \in Requests, p # q
        PROVE  HandlerBasis(p)'
    BY <1>1, <1>2, <1>3, <1>4, <1>5, HandlerKeeps
  <1>6. pc'[r.obligation] = pc[r.obligation]
    BY <1>2 DEF RequestRecords
  <1>7. HandlerBasis(q)'
    BY <1>2, <1>4, <1>6 DEF HandlerBasis, InFinalize
  <1>8. GapIsReal'
    BY <1>1 DEF DecisionBasis, GapIsReal
  <1> QED
    BY <1>3, <1>5, <1>7, <1>8

LEMMA SurfaceBasis ==
  ASSUME Basis, NEW o \in Obligations, NEW r \in Reviewers, Surface(o, r)
  PROVE  /\ \A q \in Requests : HandlerBasis(q)'
         /\ \A p \in Obligations : StoreBasis(p)'
         /\ GapIsReal'
  <1> USE DEF Basis
  <1>1. CASE Claim(o, r)
    <2>1. UNCHANGED <<tier, status, reviews, ledger, index, req, seen, outcome, pc, sweep>>
      BY <1>1 DEF Claim, graphVars, localVars
    <2>2. Grows /\ \A p \in Obligations : StoreBasis(p)'
      BY <2>1, StoresUntouched
    <2>3. \A q \in Requests : HandlerBasis(q)'
      BY <2>1, <2>2, HandlerKeeps
    <2> QED
      BY <2>1, <2>2, <2>3 DEF DecisionBasis, GapIsReal
  <1>2. ASSUME NEW q \in Requests, Submit(q, o, r)
        PROVE  /\ \A p \in Requests : HandlerBasis(p)'
               /\ \A p \in Obligations : StoreBasis(p)'
               /\ GapIsReal'
    <2>1. PICK e \in Events, d \in AllowedDecisions(tier[o]) :
            Deliver(q, [event |-> e, obligation |-> o, reviewer |-> r,
                        decision |-> d, step |-> index[o]])
      BY <1>2 DEF Submit
    <2>2. index[o] # None
      BY <1>2 DEF Submit
    <2>3. d \in Decisions /\ index[o] \in Steps
      BY <2>2 DEF AllowedDecisions, Decisions, WellFormed, TypeOK
    <2>4. [event |-> e, obligation |-> o, reviewer |-> r,
           decision |-> d, step |-> index[o]] \in RequestRecords
      BY <2>3 DEF RequestRecords
    <2>5. pc[o] # "unrouted"
      BY <2>2, BasisByParts DEF BasisParts, StoreBasis, WellFormed
    <2> QED
      BY <2>1, <2>4, <2>5, DeliverBasis
  <1> QED
    BY <1>1, <1>2 DEF Surface

LEMMA RedeliverBasis ==
  ASSUME Basis, NEW q \in Requests, Redeliver(q)
  PROVE  /\ \A p \in Requests : HandlerBasis(p)'
         /\ \A o \in Obligations : StoreBasis(o)'
         /\ GapIsReal'
  <1> USE DEF Basis
  <1>1. ASSUME NEW p \in Requests, req[p] # None, Deliver(q, req[p])
        PROVE  /\ \A b \in Requests : HandlerBasis(b)'
               /\ \A o \in Obligations : StoreBasis(o)'
               /\ GapIsReal'
    <2>1. PICK r \in RequestRecords : r = req[p]
      BY <1>1 DEF WellFormed, TypeOK
    <2>2. pc[r.obligation] # "unrouted"
      BY <1>1, <2>1, BasisByParts DEF BasisParts, HandlerBasis, WellFormed
    <2>3. Deliver(q, r)
      BY <1>1, <2>1
    <2> QED
      BY <2>2, <2>3, DeliverBasis
  <1>2. ASSUME NEW o \in Obligations, NEW rev \in reviews[o], Deliver(q, rev.request)
        PROVE  /\ \A b \in Requests : HandlerBasis(b)'
               /\ \A p \in Obligations : StoreBasis(p)'
               /\ GapIsReal'
    <2>1. rev \in ReviewRecords
      BY DEF WellFormed, TypeOK
    <2>2. PICK r \in RequestRecords : r = rev.request
      BY <2>1 DEF ReviewRecords
    <2>3. r.obligation = o /\ pc[o] # "unrouted"
      BY <2>2, BasisByParts DEF BasisParts, StoreBasis, WellFormed
    <2>4. Deliver(q, r)
      BY <1>2, <2>2
    <2> QED
      BY <2>3, <2>4, DeliverBasis
  <1> QED
    BY <1>1, <1>2 DEF Redeliver

(***************************************************************************)
(* computeReviewOutcome, applied to a read that is several awaits old: it  *)
(* says approved or rejected only if the reviews of now agree.             *)
(***************************************************************************)
LEMMA OutcomeIsSupported ==
  ASSUME Basis, NEW q \in Requests, pc[q] = "appendLedger",
         NEW o \in Obligations, o = Ob(q)
  PROVE  Supports(o, OutcomeOf(q))
  <1> DEFINE d == req[q].decision
             existing == {rev.request : rev \in seen[q]}
  <1>1. /\ \A rev \in seen[q] : rev \in reviews[o] /\ rev.request.reviewer # req[q].reviewer
        /\ NewReview(q) \in reviews[o]
    BY DEF Basis, DecisionBasis, ReadsStand, WritesStand
  <1>2. NewReview(q).request = req[q]
    BY DEF NewReview
  <1>3. d \in Decisions
    BY DEF Basis, WellFormed, Shape, RequestRecords, InHandler
  <1>4. ASSUME Verdict(d) = OutcomeOf(q)
        PROVE  AgreedOn(o, d) => Supports(o, OutcomeOf(q))
    BY <1>3, <1>4 DEF Verdict, Supports, Decisions
  <1>4a. ASSUME OutcomeOf(q) = "ESCALATED_DISAGREEMENT"
        PROVE  DisagreedOn(o)
    <2>1. /\ OutcomeOf(q) # Verdict(d)
          /\ WireTier(tier[o]) # "B"
          /\ ~ \A r \in existing : r.decision = d
      BY <1>4a DEF OutcomeOf, ComputeReviewOutcome, Verdict
    <2>2. tier[o] # "B"
      BY <2>1 DEF WireTier, RequiresSecondReview
    <2>3. PICK rev \in seen[q] : rev.request.decision # d
      BY <2>1
    <2>4. rev \in ReviewRecords
      BY <1>1, <2>3 DEF Basis, WellFormed, TypeOK
    <2>5. rev.request.decision \in Decisions
      BY <2>4 DEF ReviewRecords, RequestRecords
    <2> QED
      BY <1>1, <1>2, <1>3, <2>2, <2>3, <2>5 DEF DisagreedOn, Decisions
  <1>5. CASE ~RequiresSecondReview(tier[o])
    <2>1. AgreedOn(o, d)
      BY <1>1, <1>2, <1>5 DEF AgreedOn
    <2>2. OutcomeOf(q) \in {Verdict(d), "AWAITING_SECOND_REVIEWER", "ESCALATED_DISAGREEMENT"}
      BY DEF OutcomeOf, ComputeReviewOutcome
    <2> QED
      BY <1>4, <1>4a, <2>1, <2>2 DEF Supports
  <1>6. CASE RequiresSecondReview(tier[o])
    <2>1. OutcomeOf(q) = IF existing = {} THEN "AWAITING_SECOND_REVIEWER"
                         ELSE IF \A r \in existing : r.decision = d THEN Verdict(d)
                         ELSE "ESCALATED_DISAGREEMENT"
      BY <1>6 DEF OutcomeOf, ComputeReviewOutcome, WireTier
    <2>2. CASE existing # {} /\ \A r \in existing : r.decision = d
      <3>1. PICK rev \in seen[q] : rev.request.decision = d
        BY <2>2
      <3>2. AgreedOn(o, d)
        BY <1>1, <1>2, <1>6, <3>1 DEF AgreedOn
      <3> QED
        BY <1>4, <2>1, <2>2, <3>2
    <2>3. CASE ~(existing # {} /\ \A r \in existing : r.decision = d)
      BY <1>4a, <2>1, <2>3 DEF Supports
    <2> QED
      BY <2>2, <2>3
  <1> QED
    BY <1>5, <1>6

LEMMA HandleBasis ==
  ASSUME Basis, NEW q \in Requests, Handle(q)
  PROVE  /\ \A p \in Requests : HandlerBasis(p)'
         /\ \A o \in Obligations : StoreBasis(o)'
         /\ GapIsReal'
  <1> USE DEF Basis, graphVars, indexVars, engineVars, localVars, Unchanged_Reading, Goto, Actors
  <1>0. PICK o \in Obligations : o = req[q].obligation
    <2>1. pc[q] # "idle"
      BY DEF Handle, Validate, CheckStep, CheckAssignment, QueryLedger, ReadReviews,
             WriteReview, AppendLedger, Resume, Resuspend
    <2> QED
      BY <2>1 DEF WellFormed, Shape, RequestRecords
  <1>a. Ob(q) = o /\ StoreBasis(o) /\ HandlerBasis(q)
    BY <1>0, BasisByParts, ConstantsAssumption DEF BasisParts, Ob, WellFormed
  <1>b. pc[q] # "idle" /\ req[q] # None
    <2>1. pc[q] # "idle"
      BY DEF Handle, Validate, CheckStep, CheckAssignment, QueryLedger, ReadReviews,
             WriteReview, AppendLedger, Resume, Resuspend
    <2> QED
      BY <2>1, SlotAssumption DEF WellFormed, Shape
  <1>c. pc[o] # "unrouted"
    BY <1>0, <1>a, <1>b DEF HandlerBasis
  <1>d. Grows => GapIsReal'
    <2>1. sweep' = sweep
      BY DEF Handle, Validate, CheckStep, CheckAssignment, QueryLedger, ReadReviews,
             WriteReview, AppendLedger, Resume, Resuspend, Refuse
    <2> QED
      BY <2>1, GapKeeps
  <1>e. ASSUME NEW label, pc' = [pc EXCEPT ![q] = label], req' = req, Grows,
               seen' = [seen EXCEPT ![q] = seen'[q]],
               outcome' = [outcome EXCEPT ![q] = outcome'[q]],
               HandlerBasis(q)'
        PROVE  \A p \in Requests : HandlerBasis(p)'
    <2>1. ASSUME NEW p \in Requests, p # q
          PROVE  HandlerBasis(p)'
      <3>1. pc'[p] = pc[p] /\ seen'[p] = seen[p] /\ outcome'[p] = outcome[p] /\ req'[p] = req[p]
        BY <1>e, <2>1, OneMoves DEF WellFormed, TypeOK
      <3> QED
        BY <1>e, <3>1, HandlerKeeps
    <2> QED
      BY <1>e, <2>1
  <1>1. CASE Refuse(q)
    BY <1>1, RefuseBasis
  <1>2. CASE ~Refuse(q) /\ (Validate(q) \/ CheckStep(q) \/ CheckAssignment(q))
    <2>1. PICK label \in {"checkStep", "checkAssignment", "queryLedger"} :
            pc' = [pc EXCEPT ![q] = label]
      BY <1>2 DEF Validate, CheckStep, CheckAssignment
    <2>2. UNCHANGED <<tier, status, reviews, ledger, index, req, seen, outcome>>
      BY <1>2 DEF Validate, CheckStep, CheckAssignment
    <2>3. pc'[q] = label /\ \A p \in Obligations : pc'[p] = pc[p]
      BY <2>1, OneMoves
    <2>4. Grows /\ \A p \in Obligations : StoreBasis(p)'
      BY <2>2, <2>3, StoresUntouched
    <2>5. HandlerBasis(q)'
      BY <2>2, <2>3, <2>4, HandlerKeeps DEF InFinalize
    <2>6. seen' = [seen EXCEPT ![q] = seen'[q]] /\ outcome' = [outcome EXCEPT ![q] = outcome'[q]]
      BY <2>2 DEF WellFormed, TypeOK
    <2> QED
      BY <1>d, <1>e, <2>1, <2>2, <2>4, <2>5, <2>6
  <1>3. CASE QueryLedger(q)
    <2>1. /\ UNCHANGED <<tier, status, reviews, ledger, index, req, seen>>
          /\ seen' = [seen EXCEPT ![q] = seen'[q]]
      BY <1>3 DEF QueryLedger, WellFormed, TypeOK
    <2>2. CASE EntriesOf(Ob(q), req[q].event) = {}
      <3>1. pc' = [pc EXCEPT ![q] = "readReviews"] /\ outcome' = outcome
        BY <1>3, <2>2 DEF QueryLedger
      <3>2. pc'[q] = "readReviews" /\ \A p \in Obligations : pc'[p] = pc[p]
        BY <3>1, OneMoves
      <3>3. Grows /\ \A p \in Obligations : StoreBasis(p)'
        BY <2>1, <3>2, StoresUntouched
      <3>4. HandlerBasis(q)'
        BY <2>1, <3>1, <3>2, <3>3, HandlerKeeps DEF InFinalize
      <3>5. outcome' = [outcome EXCEPT ![q] = outcome'[q]]
        BY <3>1 DEF WellFormed, TypeOK
      <3> QED
        BY <1>d, <1>e, <2>1, <3>1, <3>3, <3>4, <3>5
    <2>3. CASE EntriesOf(Ob(q), req[q].event) # {}
      <3>1. PICK entry \in ledger[o] : outcome' = [outcome EXCEPT ![q] = entry.outcome]
        BY <1>3, <2>3, <1>a DEF QueryLedger, EntriesOf
      <3>2. pc' = [pc EXCEPT ![q] = "resume"]
        BY <1>3, <2>3 DEF QueryLedger
      <3>3. pc'[q] = "resume" /\ \A p \in Obligations : pc'[p] = pc[p]
        BY <3>2, OneMoves
      <3>4. Grows /\ \A p \in Obligations : StoreBasis(p)'
        BY <2>1, <3>3, StoresUntouched
      <3>5. outcome'[q] = entry.outcome /\ outcome' = [outcome EXCEPT ![q] = outcome'[q]]
        BY <3>1 DEF WellFormed, TypeOK
      <3>6. Supports(o, entry.outcome)'
        BY <2>1, <3>4 DEF StoreBasis
      <3>7. HandlerBasis(q)'
        <4>1. Ob(q)' = o /\ req'[q].obligation = o
          BY <1>0, <1>a, <2>1 DEF Ob
        <4> QED
          BY <1>c, <2>1, <3>3, <3>5, <3>6, <4>1 DEF HandlerBasis
      <3> QED
        BY <1>d, <1>e, <2>1, <3>2, <3>4, <3>5, <3>7
    <2> QED
      BY <2>2, <2>3
  <1>4. CASE ReadReviews(q) /\ ~Refuse(q)
    <2>1. /\ MayReview(q)
          /\ seen' = [seen EXCEPT ![q] = reviews[o]]
          /\ pc' = [pc EXCEPT ![q] = "writeReview"]
          /\ UNCHANGED <<tier, status, reviews, ledger, index, req, outcome>>
      BY <1>4, <1>a DEF ReadReviews
    <2>2. pc'[q] = "writeReview" /\ \A p \in Obligations : pc'[p] = pc[p]
      BY <2>1, OneMoves
    <2>3. Grows /\ \A p \in Obligations : StoreBasis(p)'
      BY <2>1, <2>2, StoresUntouched
    <2>4. seen'[q] = reviews[o] /\ seen' = [seen EXCEPT ![q] = seen'[q]]
          /\ outcome' = [outcome EXCEPT ![q] = outcome'[q]]
      BY <2>1 DEF WellFormed, TypeOK
    <2>5. Ob(q)' = o /\ req'[q].obligation = o
      BY <1>0, <1>a, <2>1 DEF Ob
    <2>6. HandlerBasis(q)'
      BY <1>a, <1>c, <2>1, <2>2, <2>4, <2>5 DEF HandlerBasis, MayReview, InFinalize
    <2> QED
      BY <1>d, <1>e, <2>1, <2>3, <2>4, <2>6
  <1>5. CASE WriteReview(q)
    <2>1. /\ reviews' = [reviews EXCEPT ![o] = @ \cup {NewReview(q)}]
          /\ UNCHANGED <<tier, status, ledger, index>>
      BY <1>5, <1>a DEF WriteReview
    <2>2. /\ reviews'[o] = reviews[o] \cup {NewReview(q)}
          /\ \A p \in Obligations : p # o => reviews'[p] = reviews[p]
      BY <2>1 DEF WellFormed, TypeOK
    <2>3. NewReview(q).request.obligation = o
      BY <1>0 DEF NewReview
    <2>4. \A p \in Obligations : pc'[p] = pc[p]
      BY <1>5, OneMoves DEF WriteReview, Answer
    <2>5. Grows
      BY <2>1, <2>2, <2>4 DEF Grows
    <2>6. \A p \in Obligations : StoreBasis(p)'
      BY <1>c, <2>1, <2>2, <2>3, <2>4, <2>5, StoreKeeps
    <2>7. CASE Answer(q)
      BY <1>d, <2>5, <2>6, <2>7, LeaveKeeps DEF Leave
    <2>8. CASE ~Answer(q)
      <3>1. pc' = [pc EXCEPT ![q] = "appendLedger"] /\ UNCHANGED <<req, seen, outcome>>
        BY <1>5, <2>8 DEF WriteReview
      <3>2. pc'[q] = "appendLedger" /\ pc[q] = "writeReview"
        BY <1>5, <3>1, OneMoves DEF WriteReview
      <3>3. seen' = [seen EXCEPT ![q] = seen'[q]] /\ outcome' = [outcome EXCEPT ![q] = outcome'[q]]
        BY <3>1 DEF WellFormed, TypeOK
      <3>4. Ob(q)' = o /\ req'[q].obligation = o /\ NewReview(q)' = NewReview(q)
        BY <1>0, <1>a, <3>1 DEF Ob, NewReview
      <3>5. HandlerBasis(q)'
        BY <1>a, <1>c, <2>2, <2>4, <3>1, <3>2, <3>4 DEF HandlerBasis, InFinalize
      <3> QED
        BY <1>d, <1>e, <2>5, <2>6, <3>1, <3>3, <3>5
    <2> QED
      BY <2>7, <2>8
  <1>6. CASE AppendLedger(q)
    <2> DEFINE entry == [review |-> NewReview(q), outcome |-> OutcomeOf(q)]
    <2>1. /\ ledger' = [ledger EXCEPT ![o] = @ \cup {entry}]
          /\ UNCHANGED <<tier, status, reviews, index>>
      BY <1>6, <1>a DEF AppendLedger
    <2>2. /\ ledger'[o] = ledger[o] \cup {entry}
          /\ \A p \in Obligations : p # o => ledger'[p] = ledger[p]
      BY <2>1 DEF WellFormed, TypeOK
    <2>3. \A p \in Obligations : pc'[p] = pc[p]
      BY <1>6, OneMoves DEF AppendLedger, Answer
    <2>4. Grows
      BY <2>1, <2>2, <2>3 DEF Grows
    <2>5. PICK out : out = OutcomeOf(q)
      OBVIOUS
    <2>6. NewReview(q) \in reviews'[o] /\ Supports(o, out)
      BY <1>6, <1>a, <2>1, <2>5, OutcomeIsSupported DEF AppendLedger, HandlerBasis
    <2>7. Supports(o, out)'
      BY <2>1, <2>6, SupportLasts
    <2>8. \A e \in ledger'[o] : \/ e \in ledger[o]
                                \/ e.review \in reviews'[o] /\ Supports(o, e.outcome)'
      <3>1. ASSUME NEW e \in ledger'[o], e \notin ledger[o]
            PROVE  e.review = NewReview(q) /\ e.outcome = out
        BY <2>2, <2>5, <3>1
      <3> QED
        BY <2>6, <2>7, <3>1
    <2>9. \A p \in Obligations : StoreBasis(p)'
      <3>1. StoreBasis(o)'
        BY <1>c, <2>1, <2>3, <2>4, <2>8, StoreKeeps
      <3>2. ASSUME NEW p \in Obligations, p # o
            PROVE  StoreBasis(p)'
        BY <2>1, <2>2, <2>3, <2>4, <3>2, StoreKeeps
      <3> QED
        BY <3>1, <3>2
    <2>10. CASE Answer(q)
      BY <1>d, <2>4, <2>9, <2>10, LeaveKeeps DEF Leave
    <2>11. CASE ~Answer(q)
      <3>1. /\ pc' = [pc EXCEPT ![q] = "resume"] /\ UNCHANGED <<req, seen>>
            /\ outcome' = [outcome EXCEPT ![q] = out]
        BY <1>6, <2>5, <2>11 DEF AppendLedger
      <3>2. pc'[q] = "resume"
        BY <3>1, OneMoves
      <3>3. /\ seen' = [seen EXCEPT ![q] = seen'[q]]
            /\ outcome'[q] = out /\ outcome' = [outcome EXCEPT ![q] = outcome'[q]]
        BY <3>1 DEF WellFormed, TypeOK
      <3>4. Ob(q)' = o /\ req'[q].obligation = o
        BY <1>0, <1>a, <3>1 DEF Ob
      <3>5. entry \in ledger'[o] /\ entry.outcome = out
        BY <2>2, <2>5
      <3>6. HandlerBasis(q)'
        BY <1>c, <2>3, <2>7, <3>2, <3>3, <3>4, <3>5 DEF HandlerBasis
      <3> QED
        BY <1>d, <1>e, <2>4, <2>9, <3>1, <3>3, <3>6
    <2> QED
      BY <2>10, <2>11
  <1>7. CASE Resume(q) /\ ~Refuse(q)
    <2>1. PICK label \in {"resuspend", "commit"} : pc' = [pc EXCEPT ![q] = label]
      BY <1>7 DEF Resume
    <2>2. /\ UNCHANGED <<tier, status, reviews, ledger, req, seen, outcome>>
          /\ index' = index \/ index' = [index EXCEPT ![o] = "awaitSecondHumanReview"]
      BY <1>7, <1>a DEF Resume
    <2>3. pc'[q] = label /\ \A p \in Obligations : pc'[p] = pc[p]
      BY <2>1, OneMoves
    <2>4. \A p \in Obligations : pc[p] = "unrouted" => index'[p] = index[p]
      BY <1>c, <2>2 DEF WellFormed, TypeOK
    <2>5. Grows /\ \A p \in Obligations : StoreBasis(p)'
      BY <2>2, <2>3, <2>4, StoresUntouched
    <2>6. pc[q] = "resume"
      BY <1>7 DEF Resume
    <2>7. HandlerBasis(q)'
      BY <2>2, <2>3, <2>5, <2>6, HandlerKeeps DEF InFinalize
    <2>8. seen' = [seen EXCEPT ![q] = seen'[q]] /\ outcome' = [outcome EXCEPT ![q] = outcome'[q]]
      BY <2>2 DEF WellFormed, TypeOK
    <2> QED
      BY <1>d, <1>e, <2>1, <2>2, <2>5, <2>7, <2>8
  <1>8. CASE Resuspend(q)
    <2>1. Leave(q) /\ UNCHANGED <<tier, status, reviews, ledger, index>>
      BY <1>8 DEF Resuspend, Leave
    <2>2. \A p \in Obligations : pc'[p] = "unrouted" <=> pc[p] = "unrouted"
      BY <2>1, OneMoves DEF Leave, Answer
    <2>3. Grows /\ \A p \in Obligations : StoreBasis(p)'
      BY <2>1, <2>2, StoresUntouched
    <2> QED
      BY <1>d, <2>1, <2>3, LeaveKeeps
  <1> QED
    BY <1>1, <1>2, <1>3, <1>4, <1>5, <1>6, <1>7, <1>8 DEF Handle


LEMMA FinalizeBasis ==
  ASSUME Basis, NEW a \in Actors, Finalize(a)
  PROVE  /\ \A q \in Requests : HandlerBasis(q)'
         /\ \A o \in Obligations : StoreBasis(o)'
         /\ GapIsReal'
  <1> USE DEF Basis, graphVars, indexVars, engineVars, localVars, outVars, Goto
  <1>0. pc[a] \in InFinalize /\ pc[a] # "unrouted" /\ pc[a] # "idle"
    BY DEF Finalize, CheckCommitLog, ApplyCommit, ConflictCommit, AnnounceWin,
           AnnounceLoss, FireTicket, Settle, InFinalize
  <1>1. PICK o \in Obligations : o = Ob(a)
    BY <1>0 DEF Ob, Actors, WellFormed, Shape, RequestRecords
  <1>2. pc[o] # "unrouted"
    <2>1. CASE a \in Obligations
      BY <1>0, <1>1, <2>1 DEF Ob
    <2>2. CASE a \notin Obligations
      <3>1. a \in Requests /\ req[a] # None /\ req[a].obligation = o
        BY <1>0, <1>1, <2>2, SlotAssumption DEF Ob, Actors, WellFormed, Shape
      <3> QED
        BY <3>1, BasisByParts DEF BasisParts, HandlerBasis, WellFormed
    <2> QED
      BY <2>1, <2>2
  <1>3. sweep' = sweep /\ UNCHANGED <<tier, reviews, ledger>>
    BY DEF Finalize, CheckCommitLog, ApplyCommit, ConflictCommit, AnnounceWin,
           AnnounceLoss, FireTicket, Settle
  <1>4. \/ Leave(a)
        \/ /\ UNCHANGED localVars
           /\ \E label \in InFinalize : pc' = [pc EXCEPT ![a] = label]
    BY DEF Finalize, CheckCommitLog, ApplyCommit, ConflictCommit, AnnounceWin,
           AnnounceLoss, FireTicket, Settle, InFinalize
  <1>5. \A p \in Obligations : pc'[p] = "unrouted" <=> pc[p] = "unrouted"
    <2>1. CASE Leave(a)
      BY <1>0, <2>1, LeaveStays
    <2>2. CASE \E label \in InFinalize : pc' = [pc EXCEPT ![a] = label]
      <3>1. PICK label \in InFinalize : pc' = [pc EXCEPT ![a] = label]
        BY <2>2
      <3>2. label # "unrouted"
        BY DEF InFinalize
      <3> QED
        BY <1>0, <3>1, <3>2, OneMoves DEF Actors
    <2> QED
      BY <1>4, <2>1, <2>2
  <1>6. Grows
    BY <1>3, <1>5 DEF Grows
  <1>7. \A q \in Requests : HandlerBasis(q)'
    <2>1. CASE Leave(a)
      BY <1>6, <2>1, LeaveKeeps
    <2>2. CASE UNCHANGED localVars /\ \E label \in InFinalize : pc' = [pc EXCEPT ![a] = label]
      <3>1. PICK label \in InFinalize : pc' = [pc EXCEPT ![a] = label]
        BY <2>2
      <3>2. pc'[a] = label /\ \A b \in Actors : b # a => pc'[b] = pc[b]
        BY <3>1, OneMoves
      <3>3. label \notin {"writeReview", "appendLedger"}
        BY DEF InFinalize
      <3>4. ASSUME NEW q \in Requests
            PROVE  HandlerBasis(q)'
        <4>1. /\ req'[q] = req[q] /\ seen'[q] = seen[q] /\ outcome'[q] = outcome[q]
          BY <2>2
        <4>2. q # a => pc'[q] = pc[q]
          BY <3>2 DEF Actors
        <4> QED
          BY <1>0, <1>6, <3>2, <3>3, <4>1, <4>2, HandlerKeeps
      <3> QED
        BY <3>4
    <2> QED
      BY <1>4, <2>1, <2>2
  <1>8. GapIsReal'
    BY <1>3, <1>6, GapKeeps
  <1>9. \A p \in Obligations : pc[p] = "unrouted" => index'[p] \in {index[p], None}
    <2>1. index' = index \/ index' = [index EXCEPT ![o] = None]
      BY <1>1 DEF Finalize, CheckCommitLog, ApplyCommit, ConflictCommit, AnnounceWin,
                  AnnounceLoss, FireTicket, Settle, ClearIndex
    <2> QED
      BY <1>2, <2>1 DEF WellFormed, TypeOK
  <1>10. CASE status' = status
    <2>1. \A p \in Obligations : StoreBasis(p)'
      BY <1>3, <1>5, <1>9, <1>10, StoresUntouched
    <2> QED
      BY <1>7, <1>8, <2>1
  <1>11. CASE ApplyCommit(a)
    <2>1. status' = [status EXCEPT ![o] = FinalStatus(FinalOf(a))]
      BY <1>1, <1>11 DEF ApplyCommit
    <2>2. /\ status'[o] = FinalStatus(FinalOf(a))
          /\ \A p \in Obligations : p # o => status'[p] = status[p]
      BY <2>1 DEF WellFormed, TypeOK
    <2>3. ASSUME NEW p \in Obligations, p # o
          PROVE  StoreBasis(p)'
      BY <1>3, <1>5, <1>6, <1>9, <2>2, <2>3, StoreKeeps
    <2>4. StoreBasis(o)
      BY BasisByParts DEF BasisParts, WellFormed
    <2>5. /\ status'[o] = "committed" => /\ AgreedOn(o, "approve")
                                         /\ \E e \in ledger[o] : e.outcome = "APPROVED"
          /\ status'[o] = "rejected"  => /\ AgreedOn(o, "reject")
                                         /\ \E e \in ledger[o] : e.outcome = "REJECTED"
      <3>1. CASE a \in Obligations
        BY <2>2, <3>1 DEF FinalOf, FinalStatus
      <3>2. CASE a \notin Obligations
        <4>1. a \in Requests /\ outcome[a] \in Final
          BY <1>0, <3>2 DEF Actors, WellFormed, Shape
        <4>2. Supports(o, outcome[a]) /\ \E e \in ledger[o] : e.outcome = outcome[a]
          BY <1>0, <1>1, <4>1 DEF DecisionBasis, OutcomesAreJustified
        <4>3. /\ status'[o] = "committed" => outcome[a] = "APPROVED"
              /\ status'[o] = "rejected"  => outcome[a] = "REJECTED"
          BY <2>2, <3>2, <4>1 DEF FinalOf, FinalOutcomeOf, FinalStatus, Final, ReviewOutcomes
        <4> QED
          BY <4>2, <4>3 DEF Supports
      <3> QED
        BY <3>1, <3>2
    <2>6. StoreBasis(o)'
      <3>1. \A d : AgreedOn(o, d) => AgreedOn(o, d)'
        BY <1>3, AgreementLasts
      <3>2. \A out : Supports(o, out) => Supports(o, out)'
        BY <1>3, SupportLasts
      <3>3. pc'[o] # "unrouted"
        BY <1>2, <1>5
      <3> QED
        BY <1>3, <2>4, <2>5, <3>1, <3>2, <3>3 DEF StoreBasis
    <2> QED
      BY <1>7, <1>8, <2>3, <2>6
  <1> QED
    BY <1>10, <1>11 DEF Finalize, CheckCommitLog, ConflictCommit, AnnounceWin,
                        AnnounceLoss, FireTicket, Settle

LEMMA EnvironmentBasis ==
  ASSUME Basis,
         (\E a \in Actors : Throw(a)) \/ FindGap \/ FillGap \/ Restart \/ UNCHANGED vars
  PROVE  /\ \A q \in Requests : HandlerBasis(q)'
         /\ \A o \in Obligations : StoreBasis(o)'
         /\ GapIsReal'
  <1> USE DEF Basis, graphVars, indexVars, engineVars, localVars, outVars
  <1>1. ASSUME NEW a \in Actors, Throw(a)
        PROVE  /\ \A q \in Requests : HandlerBasis(q)'
               /\ \A o \in Obligations : StoreBasis(o)'
               /\ GapIsReal'
    <2>1. \A o \in Obligations : pc'[o] = "unrouted" <=> pc[o] = "unrouted"
      BY <1>1, LeaveStays DEF Throw, PortCalls
    <2>2. Grows /\ \A o \in Obligations : StoreBasis(o)'
      BY <1>1, <2>1, StoresUntouched DEF Throw
    <2> QED
      BY <1>1, <2>2, LeaveKeeps, GapKeeps DEF Throw
  <1>2. CASE FindGap \/ UNCHANGED vars
    <2>1. UNCHANGED <<tier, status, reviews, ledger, index, req, seen, outcome, pc>>
      BY <1>2 DEF FindGap, vars
    <2>2. Grows /\ \A o \in Obligations : StoreBasis(o)'
      BY <2>1, StoresUntouched
    <2>3. \A q \in Requests : HandlerBasis(q)'
      BY <2>1, <2>2, HandlerKeeps
    <2>4. GapIsReal'
      <3>1. CASE FindGap
        BY <2>1, <3>1 DEF FindGap, GapIsReal
      <3>2. CASE UNCHANGED vars
        BY <2>2, <3>2, GapKeeps DEF vars
      <3> QED
        BY <1>2, <3>1, <3>2
    <2> QED
      BY <2>2, <2>3, <2>4
  <1>3. CASE FillGap
    <2>1. PICK o \in Obligations : o = sweep[1]
      BY <1>3 DEF FillGap, WellFormed, TypeOK
    <2>2. PICK entry : entry = [review |-> sweep[2], outcome |-> None]
      OBVIOUS
    <2>3. /\ ledger'[o] = ledger[o] \cup {entry}
          /\ \A p \in Obligations : p # o => ledger'[p] = ledger[p]
      BY <1>3, <2>1, <2>2 DEF FillGap, WellFormed, TypeOK
    <2>4. UNCHANGED <<tier, status, reviews, index, req, seen, outcome, pc>> /\ sweep' = None
      BY <1>3 DEF FillGap
    <2>5. entry.review \in reviews'[o] /\ entry.outcome = None
      BY <1>3, <2>1, <2>2, <2>4 DEF FillGap, DecisionBasis, GapIsReal
    <2>6. Supports(o, None)'
      BY NoneAssumption DEF Supports, ReviewOutcomes
    <2>7. Grows
      BY <2>3, <2>4 DEF Grows
    <2>8. StoreBasis(o)'
      <3>1. StoreBasis(o) /\ reviews[o] # {}
        BY <2>4, <2>5, BasisByParts DEF BasisParts, WellFormed
      <3>2. pc[o] # "unrouted"
        BY <3>1 DEF StoreBasis
      <3>3. \A e \in ledger'[o] : \/ e \in ledger[o]
                                  \/ e.review \in reviews'[o] /\ Supports(o, e.outcome)'
        <4>1. ASSUME NEW e \in ledger'[o], e \notin ledger[o]
              PROVE  e.review \in reviews'[o] /\ e.outcome = None
          BY <2>3, <2>5, <4>1
        <4> QED
          BY <2>6, <4>1
      <3> QED
        BY <2>4, <2>7, <3>2, <3>3, StoreKeeps
    <2>9. ASSUME NEW p \in Obligations, p # o
          PROVE  StoreBasis(p)'
      BY <2>3, <2>4, <2>7, <2>9, StoreKeeps
    <2>10. \A q \in Requests : HandlerBasis(q)'
      BY <2>4, <2>7, HandlerKeeps
    <2> QED
      BY <2>4, <2>8, <2>9, <2>10 DEF GapIsReal
  <1>4. CASE Restart
    <2>1. \A q \in Requests : pc'[q] = "idle" /\ req'[q] = None
      BY <1>4 DEF Restart, Actors
    <2>2. \A o \in Obligations : pc'[o] = "unrouted" <=> pc[o] = "unrouted"
      BY <1>4, ConstantsAssumption DEF Restart, Actors
    <2>3. Grows /\ \A o \in Obligations : StoreBasis(o)'
      BY <1>4, <2>2, StoresUntouched DEF Restart
    <2> QED
      BY <1>4, <2>1, <2>3, HandlerKeeps DEF Restart, GapIsReal
  <1> QED
    BY <1>1, <1>2, <1>3, <1>4

-----------------------------------------------------------------------------

LEMMA NextBasis == Basis /\ [Next]_vars => Basis'
  <1> SUFFICES ASSUME Basis, [Next]_vars PROVE Basis'
    OBVIOUS
  <1>1. WellFormed'
    BY NextWellFormed DEF Basis
  <1>2. /\ \A q \in Requests : HandlerBasis(q)'
        /\ \A o \in Obligations : StoreBasis(o)'
        /\ GapIsReal'
    BY BranchBasis, SurfaceBasis, RedeliverBasis, HandleBasis, FinalizeBasis,
       EnvironmentBasis
    DEF Next
  <1>3. TypeOK' => (DecisionBasis' <=> BasisParts')
    BY BasisByParts, PTL
  <1> QED
    BY <1>1, <1>2, <1>3 DEF Basis, WellFormed, BasisParts

(***************************************************************************)
(* Everything between the read of the reviews and the commit rests on      *)
(* reviews and ledger entries that are there.                              *)
(***************************************************************************)
THEOREM BasisAlways == Spec => []DecisionBasis
  <1>1. Init => Basis
    BY InitWellFormed, InitBasis DEF Basis
  <1>2. Basis => DecisionBasis
    BY DEF Basis
  <1> QED
    BY <1>1, <1>2, NextBasis, PTL DEF Spec

(***************************************************************************)
(* What is committed was approved and what is rejected was rejected, by    *)
(* two different reviewers at a dual-review tier, under either engine and  *)
(* every disturbance.                                                      *)
(***************************************************************************)
THEOREM AgreementAlways == Spec => []DecisionsAreAgreed
  BY BasisAlways, PTL DEF DecisionBasis

(***************************************************************************)
(* FR-21a: a decision in the graph has a ledger entry with its outcome,    *)
(* and an entry has its review in the graph.                               *)
(***************************************************************************)
THEOREM LedgerAlwaysExplains == Spec => []LedgerExplainsGraph
  BY BasisAlways, PTL DEF DecisionBasis

=============================================================================
