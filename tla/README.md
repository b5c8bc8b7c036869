# TLA+ verification of sentinel-act

sentinel-act turns regulatory texts into proposed obligations, routes each
proposal to a review tier, collects the reviews of people, and commits the
result to a bitemporal graph with a hash-chained audit ledger beside it. This
directory models the parts of it where order, failure and concurrency decide
whether it is correct. Paths are relative to the repository root; `orchestrator/`
stands for `apps/orchestrator/src/`, `console/` for `apps/web-console/`.

## 1. The system

| Component | State it keeps | Operations | Talks to |
|---|---|---|---|
| **Regulatory watch** `…/agents/regulatory-watch.agent.ts` | the poll in progress, rows of the last polls | poll cycle: listings, circulars in batches, lookups, triggers, alerts | regulator's pages, graph, orchestrator |
| **Extraction, grounding, mapping agents** `…/agents/`, with `…/scorers/risk-score.scorer.ts` and `computeTierDecision` | none | draft, critic, contradiction and overwrite lookups, score, floors, tier, commit plan | graph, language models |
| **Change and delta** `…/agents/change-and-delta.core.ts` | none | align the clauses of an amendment with those it amends, classify, propose | graph, language model |
| **Workflow orchestrator** `orchestrator/mastra/workflows/orchestrator.{workflow,logic}.ts` | `InMemorySuspendedRunIndex`: where each obligation's run is suspended, the maker and checker slots, started event ids; the old-obligation lock map | `startOrchestratorRun`, `routeAndPreCommitStep`, `awaitHumanReviewStep`, `awaitSecondHumanReviewStep`, `resumeOrchestratorRun`, `finalizeCommit`, `index.claim` / `clear` | engine, graph, ledger, ticketing trigger, over ports that are awaited |
| **Monitoring and audit agent** `…/agents/monitoring-and-audit.agent.ts` | none of its own | `recordHumanReview`, `reconcileLedgerGaps`, evidence ingestion, SLA scan | graph, ledger |
| **Graph writer and repositories** `packages/graph-db/src/{commit,repositories}/` | obligations, reviews, `valid_to`, `CommitLog` | `executePlan` (nodes, closings, transitions, supersessions, edges, marker), plan validation, `supersede`, lookups by date | Neo4j transactions |
| **Migrations** `packages/*/src/migrations/runner.ts` | what has been applied | apply, record | Neo4j, Postgres |
| **Audit ledger** `packages/audit-ledger/src/` | the chain of entries, verification runs | `append`, `query`, `verifyChainIntegrity` | Postgres, an advisory lock |
| **Slack** `orchestrator/slack/` | dedupe cache, cards sent, open modals | click, submit, refresh the cards, redelivery | orchestrator over HTTP |
| **SLA feed and reminders** `…/workflows/orchestrator.sla-feed.ts`, `orchestrator/slack/sla-reminder-scheduler.ts` | reminders already given | due-soon feed, poll | index, Slack |
| **Console, item and queue** `console/app/api/console/`, `orchestrator/server/` | none | load, claim, decide; pages of the queue | graph, orchestrator over HTTP |
| **Audit exports** `console/app/api/audit/export/`, `packages/graph-db/src/queries/export-job-store.ts` | job records, files | create, generate, poll, download, expire | graph, disk |
| **Audit search and registers** `packages/graph-db/src/queries/audit-query.ts`, `packages/report-generation/src/` | none | search and count, register as of a date, rows, digest | graph |
| **Assistant** `packages/assistant-core/src/`, `console/app/api/assistant/` | the rate limiter's windows | classify, retrieve, enrich, answer, check citations | graph (read-only), language models |
| **Ticketing outbox** `packages/ticketing-adapter/src/`, `…/integrations/grc-ticketing.ts` | outbox rows, task-to-ticket mappings | enqueue, claim batch, process, back off, reset, sweep | Postgres, ticket provider, ledger |
| **Console pages and components** | — | rendering | — |

How one obligation goes through it:

1. The orchestrator routes the proposal to tier A, B, C or ESCALATE and commits
   it with its pre-review status. Tier A goes on to `finalizeCommit`; the others
   are recorded in the in-memory index and suspend in the engine.
2. Reviewers claim slots (Tier C) and decide, from the console or from Slack.
   A decision is an event with a fresh id and the step it was made for.
3. `resumeOrchestratorRun` checks the envelope against the index, the engine and
   the slots, calls `recordHumanReview` (look for the event id in the ledger,
   read the reviews, write one, append the ledger entry) and resumes the engine:
   into the second suspension after a maker's decision, into `finalizeCommit`
   otherwise.
4. `finalizeCommit` runs one graph transaction (CommitLog marker, status,
   closing of the overwritten obligation), announces it, clears the index and
   fires the ticketing trigger for a binding outcome.

What is hard. The handlers of one process interleave at every `await`, and each
check is several awaits older than the act it guards. There is no transaction
over graph, ledger, index and engine: any call can fail, or take effect and
report an error. Submissions are retried and redelivered. The index does not
survive a restart. Two proposals may overwrite the same old obligation.
`PROJECT.json` lists these hazards one by one, at the line where each bites.

What makes each component correct:

* **orchestrator + monitoring agent + graph writer** (the review gate): a
  decision in the graph rests on the agreement its tier asks for, is in the
  ledger, is taken once, closes the old obligation exactly when it is binding;
  no ticket for anything else; every suspension ends.
* **audit ledger**: the chain never forks or has a gap under concurrent appends;
  verification reports an intact chain as intact while it grows, and a damaged
  one as damaged.
* **ticketing outbox**: at most one ticket per process task, every committed
  task gets one unless it fails permanently, a stopped worker loses nothing.
* **SLA feed, monitoring**: a reviewer is reminded once; entries tell of
  transitions that happened, and every upload the agent answered for is recorded.
* **surfaces**: what a reviewer is told happened did happen; a second reviewer
  does not see the first review; a walk through the queue misses nothing that
  did not move.
* **search, registers, assistant**: what is shown is in the graph, nobody reads
  the first of two reviews before the second is made, and no citation is made up.
* **watch, change and delta, pipeline**: every item of news has one outcome,
  every obligation an amendment touches one fate; doubt and failure raise a tier
  and never lower it.
* **graph writer, migrations**: a commit is one step, whole or not at all, and a
  record of a migration is a record of what was executed.

## 2. Plan

| # | Module | What | State |
|---|---|---|---|
| 1 | `ReviewDomain` | vocabulary and pure functions of review | done |
| 2 | `ReviewGate`, `MCReviewGate` | the gate, await by await | done |
| 3 | `ReviewPolicy` | what the gate promises, one step per decision; refined by 2 | done |
| 4 | `ReviewGateProofs`, `ReviewGateFinality` | theorems about 2, and that it implements 3 | every safety property of the runs is proved, with the hypotheses it needs |
| 5 | `AuditLedger`, `MCAuditLedger`, `AppendOnlyLog`, `AuditLedgerProofs` | appends, paging verification and its own entry, failing transactions, damage; proofs that the chain stays linear, that the abstract log is implemented and that the verifier tells the truth over altered rows | done |
| 6 | `TicketingOutbox`, `MCTicketingOutbox`, `TicketingOutboxProofs` | trigger, workers, claims, ambiguous ticket creation, crash, reset, sweep | model, runs and the proofs of every safety property they check done |
| 7 | `SlackGateway`, `SlaReminders`, `ConsoleGateway`, `ReviewQueue`, `ReviewSurface`, `SlackProofs`, `ConsoleProofs` | the surfaces of a review | models and runs done, the two gateways, the reminders and the queue proved |
| 8 | `ExportJobs`, `AuditRegister`, `Assistant`, `RateLimit`, `MCSurfaces` | what an auditor and an asker see; composed by `MCSurfaces` with 7 | models and runs done; the export jobs, the assistant and its limiter proved in `ConsoleProofs` |
| 9 | `RegulatoryWatch`, `ObligationPipeline`, `ChangeAndDelta`, `SlaMonitor`, `NoValue`, `MCAgents`, `AgentsProofs`, `ChangeProofs` | the agents before and after the gate | models, runs and proofs done |
| 10 | `GraphStore`, `Migrations`, `ChangeProofs` | the stores; composed by `MCAgents` with 9 | models and runs done, the migrations proved; that `GraphStore` implements one step per commit would be next |
| 11 | `RunStart`, `SupersessionLock` | idempotent starts, `withOldObligationLock` | not done: nothing but tests starts a run, and the graph's own guard is what keeps supersessions apart |

Composition: 2 takes the ledger as a set of entries per obligation and a ticket
as a counter of triggers, which is where 6 begins. 5 states, as an abstract
specification, what 2 assumes of it: 2 appends in one step, under one outcome, what 5 does in up to three attempts of
six round trips. 10 states the same of the graph: 2 takes the transaction of a
commit for one step, and `CommitsAreSerial` in `GraphStore` says that this is what
its statements come to. 7 and 8 reduce the gate to what they see of it.
`MCSurfaces` and `MCAgents` choose one component at the start and run it on its
own instance: their components share no state while they run. They extend the components that are
proved about (whose `Init`, `Next` and so on have names of their own for it, `SlackInit`)
and instantiate the others, so the runs check the very definitions and assumptions that
the theorems name.

## 3. The review gate

### Modules

`ReviewDomain` has no state: tiers, statuses, `RequiresSecondReview`,
`PreReviewStatus`, `ComputeReviewOutcome`, `FinalOutcomeOf`, `FinalStatus`.

`ReviewGate` is the state machine. One action is what the code does between two
awaits; `pc` names the await an actor is at.

| Code | Variables |
|---|---|
| graph: `Obligation.status`, `HumanReview` nodes, `valid_to` of old obligations, `CommitLog` | `status`, `reviews`, `supersededBy`, `commitLog` |
| tier in the run's state | `tier` |
| ledger entries `HUMAN_REVIEW_SUBMITTED` | `ledger` |
| `InMemorySuspendedRunIndex` | `index`, `claims` |
| the engine's suspended step, and the maker in the suspend payload | `engineStep`, `makerOf` |
| locals of a handler in flight | `req`, `seen`, `outcome`, `pc` |
| local of the sweep | `sweep` |
| final audit events, calls of the ticketing trigger | `finalAudits`, `tickets` |

| Action | Code |
|---|---|
| `RouteAndPreCommit`, `RecordSuspension`, `Suspend` | `routeAndPreCommitStep`, `awaitHumanReviewStep` |
| `Claim`, `Submit`, `Redeliver` | `index.claim` behind the claim route and the Slack button; the decisions route; `resumeReviewStep`'s retries |
| `Validate`, `CheckStep`, `CheckAssignment` | the checks of `resumeOrchestratorRun` in their order |
| `QueryLedger`, `ReadReviews`, `WriteReview`, `AppendLedger` | `recordHumanReview` |
| `Resume`, `Resuspend` | `engine.resume` and the body of the step it enters |
| `CheckCommitLog`, `ApplyCommit`, `ConflictCommit` | `executePlan`: the marker lookup, then the writing transaction or its rollback with `ConflictError` |
| `AnnounceWin`, `AnnounceLoss`, `FireTicket`, `Settle` | the rest of `finalizeCommit`, `commitWithConflictReconciliation`, `fireTicketingTrigger`, the engine ending the run |
| `Throw`, `FindGap`, `FillGap`, `Restart` | a failing port, `reconcileLedgerGaps`, the process stopping |

A Tier A branch runs `finalizeCommit` itself, so branches and requests are both
`Actors`. A request slot is reused once its handler has answered.

Abstractions. A review is the submission that wrote it; texts, timestamps and
evidence are left out. The ledger is a set here: hashes belong to `AuditLedger`.
The maker a second step knows is taken from what the engine was resumed with, though
`orchestrator.workflow.ts:524` and `:562-563` suspend with `makerReviewerId: null`, so that the
check may know no maker; the check of the slot stands behind it (`ConsoleGateway`
has both). The wire tier is the routed one, though the caller names it
(`:284`); `SlackGateway` has the caller that names another.
The check of the maker's identity and the check of the slot are one step, since
the maker's identity does not change while the step lasts. `CommitLog` is read
and written in two steps because the graph has no uniqueness constraint on
`proposal_id`: two transactions may both miss the marker.

`ReviewPolicy` is the abstract specification: route once, collect reviews,
decide at most once on the strength of reviews that are there, and close the
overwritten obligation in the same step. The refinement mapping takes
`commitLog` for the decision and the submissions behind the `HumanReview` nodes
for the reviews.

### The engine

`engine.resume` is an external service behind `WorkflowEnginePort`. Its comment
(`orchestrator.workflow.ts:141-143`) has it refuse a resume of a step that is not
suspended: `StrictEngine = TRUE`. The engine double of the integration tests
keeps a step suspended until the resume is over and accepts a second one
meanwhile: `StrictEngine = FALSE`. `gate_faults` and `gate_live` are checked
under the strict one, a theorem says which engine it is about (section 8), and
`gate_late_ticket.cfg` shows what depends on it.

### Runs

All runs bound requests in flight to two (every race of the gate is between
two handlers; a Tier A branch is a third actor), event ids to one more than the
reviews a tier takes, and obligations to two that overwrite one old obligation.
Reviewers, requests and events are symmetric; the runs with liveness use no
symmetry. `CHECK_DEADLOCK FALSE` everywhere: a gate with nothing left to review
stops. `Disturbances` names what the environment does wrong in a run.

| Run | Instance | Shows |
|---|---|---|
| `gate_faults` | Tier B or C; throwing and ambiguous calls, redelivery, a reviewer twice at once; 253k states | `DecisionsAreAgreed`, `LedgerExplainsGraph`, `EffectsAreJustified` (tickets and final audits), `DecisionIsFinal`, `TypeOK` |
| `gate_crash` | Tier C; restarts anywhere, ambiguous writes, the sweep; 107k states | the inductive invariant `DecisionBasis` |
| `gate_live` | tiers A, B, C, two reviewers, no faults; two proposals for one old obligation, one of which may be Tier A | `ReviewsAreOrderly` (maker then checker; the index agrees with the engine), `SupersessionIsExact`, `SupersededOnce`, `SuspensionsEnd`, and `ImplementsPolicy` |
| `gate_escalate` | ESCALATE, no faults | `SuspensionsEnd` is violated |

Three more configurations are kept to be run by hand; each shows TLC a behaviour
described under "What does not hold": `gate_double_submit.cfg` (one reviewer
twice at once violates `OneReviewPerReviewer`), `gate_retry.cfg` (an ambiguous
write and a retry violate `RetryIsNotASecondReview`) and `gate_late_ticket.cfg`
(the loose engine violates `TicketsAreJustified`, a part of `EffectsAreJustified`).

What a run shows depends on what it is allowed to do. Of `ReviewsAreOrderly`, that
a maker's review precedes a checker's holds only while no reviewer has two
submissions in flight (`ConcurrentSubmits`), and `gate_double_submit` is the
counterpart; that the index agrees with the engine holds without faults only: a
finalize that throws leaves the index behind.

### Fairness

`FairSpec` assumes weak fairness of everything the event loop runs (branches,
handlers, finalize commits) and of a possible claim, and strong fairness of a
reviewer's submission, which other submissions may enable and disable: a person
with an open item decides at last. Nothing is assumed about the decision.
Nothing is assumed about claims that the surfaces refuse, which is why ESCALATE
stays stuck, nor about a retry after an error, so the live run has no faults.

### What does not hold

Each of these is a disagreement of the code with its own comments or texts;
`PROJECT.json` quotes the lines for the first.

* **An ESCALATE item cannot be decided.** The surfaces let nobody claim a slot
  unless the item is Tier C, and the orchestrator refuses a dual-review decision
  without a slot. The console's message asks for a rejection that is refused too.
* **One reviewer can have two reviews** (against
  `monitoring-and-audit.errors.ts:36-41`). The same-reviewer check and the write
  are awaits apart. The decision stays sound: `DecisionsAreAgreed` asks for two
  different people, and it holds. Nothing is decided on one person's word.
* **A retry can be refused as a second review**, when the review was written and
  the ledger entry was not (against `monitoring-and-audit.agent.ts:650-652`). The
  sweep's entry has no event id, so it does not
  help.
* **A rejected obligation can get a ticket** under the loose engine (against
  `orchestrator.workflow.ts:634-637`), because a commit answered from `CommitLog` counts as success whatever it asked for.

## 4. The audit ledger

### Modules

`AppendOnlyLog` says what callers rely on: entries appear one at a time behind
all others, none changes or goes, an acknowledgement names the entry just added.

`AuditLedger` is the Postgres implementation, one action per round trip, with
`appendLedgerEntry` (the agents' wrapper that tries three times) in front of it
and `verifyChainIntegrity` beside it. Callers and walks are separate processes
or requests; both append.

| Code | Variables |
|---|---|
| `audit_ledger` by `sequence_number` | `table` |
| `pg_advisory_xact_lock` | `lock` |
| the server's clock, `now()` of a transaction | `clock`, `began` |
| locals of an append; the wrapper's loop | `job`, `head`, `pending`, `attempt`, `pc` |
| locals of a walk | `walk` |
| what was returned; verification results; `ledger_verification_runs` | `answered`, `verdicts`, `sideRuns` |
| rows the store has damaged (for the properties) | `damaged` |

| Action | Code |
|---|---|
| `Call`, `AfterError` | `appendLedgerEntry`: the call, its bounded retry |
| `Begin` (time may have passed since the last one), `Lock`, `ReadHead`, `Insert`, `Commit` | `appendWithinTransaction`, one statement each; the row's number, link and digests are computed in `NewRow` |
| `Fail` | a statement fails, `ROLLBACK`; a `Commit` may also take effect and report an error |
| `StartWalk`, `ReadPrior`, `ReadPage`, `Conclude` | `verifyChainIntegrity`: the row before the range, page after page, the `CHAIN_VERIFICATION_RUN` entry |
| `RecordFailure`, `FailWalk` | the side channel, which swallows its own failure; a query that throws |
| `Alter`, `Lose` | the environment: a stored column changes, a row is lost |

Abstractions. A digest is what it digests, so two differ when their inputs do:
this is the assumption under which a hash chain means anything. `content` stands
for the event type and the payload together. `SELECT now()` takes no step of
its own, since its answer is fixed by `BEGIN`. The table is a function of
sequence numbers and not a sequence, since a lost row leaves a hole.

### Runs

| Run | Instance | Shows |
|---|---|---|
| `ledger_appends` | two callers and a walk, three calls, two attempts each, every round trip may fail; 34k states | `ChainIsLinear`, `AnsweredIsStored`, `ImplementsLog`, `TypeOK`, `EveryAppendEnds` |
| `ledger_altered` | four calls, pages of two rows, ranges that begin and end inside the chain; one column of one row changes at any moment; 1.6M states | `VerifierIsRight`: intact means undamaged, alarms are real, runs claim what they saw |
| `ledger_lost_row` | one row that is not the last is lost | `IntactMeansUndamaged` is violated |

`ledger_early_walk.cfg`, to be run by hand, has a walk over a range that begins
beyond the end and violates `AlarmsNameABreak`.

Bounds: `MaxCalls` calls and walks, `MaxTime` instants, `MaxDamaged` rows. Two
appenders are enough for each race on the lock; pages of two rows make a chain
of three or four span two pages and end on and off a page boundary. Two attempts
show what three do: a retry after a lost answer, and giving up.

Fairness (`FairSpec`): a round trip that was sent comes back, with an answer or
an error, and Postgres grants a lock in the order it was asked for, hence strong
fairness of `Lock`. Calls are never obliged to happen.

### What does not hold

* **A lost row can pass for an intact chain.** A page with fewer rows than asked
  for is taken for the last one. A row lost from the end of a page makes such a
  page, and the rest of the chain is not read. Altered columns are always found
  (`ledger_altered`).
* **Timestamps can run against sequence numbers.** `now()` is the time of
  `BEGIN`, before the wait for the lock (`TimeFollowsTheChain` is not checked by a
  run: it is false as soon as two appends overlap).
* **A walk that starts beyond the end can raise a false alarm.** The missing
  row before the range counts as genesis; rows appended before the page query
  then look broken. In all other ranges an alarm names a damaged row or the one
  behind it (`AlarmsAreReal`).

A lost answer of `COMMIT` makes the wrapper store the same content twice. The
chain stays linear; `AppendOnlyLog` allows it, and the gate's ledger, being a set,
does not tell the two entries apart.

## 5. The ticketing outbox

### Module

`TicketingOutbox` follows a committed task to its ticket. A worker is one run of
`processOutboxOnce`, a sweeper one run of `reconcileMissedCommits`: the timers of
`startTicketingBackgroundLoops` start them without waiting for the run before,
and every process has its own, so runs overlap. One action is one query or one
call of the ticket system.

| Code | Variables |
|---|---|
| committed tasks in the graph | `committed` |
| `ticketing_outbox`, in the order of `created_at`; whether `next_attempt_at` has come | `rows`, their `due` |
| `ticket_mapping` | `mapping` |
| the ticket system; the ledger's ticket entries | `tickets`, `entries` |
| locals of a worker: candidates, claimed rows, inside the `try` or its `catch`, the ticket just made | `todo`, `batch`, `guarded`, `made`, `pc` |
| locals of a sweep | `todo`, `at`, `pc` |
| history: what has befallen the handling of a task | `mishaps` |

| Action | Code |
|---|---|
| `Commit`, `Trigger` | `finalizeCommit`, `fireTicketingTrigger`, which may fail silently or fire again under a fresh event id |
| `BeginSweep`, `SweepMapping`, `SweepInFlight`, `SweepEnqueue` | `reconcileMissedCommits`: the candidates, then three queries for each |
| `Poll`, `ClaimRow` | `claimBatch`: the SELECT, then one compare-and-set UPDATE per candidate |
| `FindMapping`, `Lineage`, `CreateTicket`, `CreateFails`, `InsertMapping`, `MarkSucceeded`, `Announce` | the body of `processOutboxOnce` in its order |
| `MarkRetryable`, `MarkPermanentFailure`, `AnnounceFailure` | `handleRetryable`, `handlePermanent` |
| `QueryFails`, `Crash`, `AbandonSweep`, and the second branch of each write | errors before and after a query took effect, the process stopping; `Caught` is the catch-all |
| `Due`, `Reset` | `next_attempt_at` passes; `resetOutboxEntry` |

Abstractions. The ticket system is the generic webhook, and makes a ticket of
every request. A ticket's content, assignee and link are left out; a ticket is
its number among those of its task. The length of the back-off is left out: a
row is due or is not. `mishaps` is auxiliary: no guard reads it. It notes that two
runs were past the lookup of a task's mapping at once (`together`), that a mapping
could not be looked up (`unseen`), that a ticket was made and not mapped
(`unmapped`), and that what follows the mapping failed (`unfinished`). A sweep's limit of 100 is not reached. Which error the
ticket system gives is a choice between retryable and permanent.

### Runs

| Run | Instance | Shows |
|---|---|---|
| `outbox_single` | one worker run at a time, one sweep, up to two rows of a task (three with the sweep's race), a task that no longer resolves, refusals; 148k states | `EveryTaskIsSettled` |
| `outbox_workers` | two worker runs; queries fail, claims and writes lose their answers, tickets are made without one, processes stop, rows are reset; 1.07M states | `SucceededIsMapped`, `OneWorkerPerRow`, `TypeOK`; `TicketsAreAccounted` (a second ticket, or a mapped one that is not announced, has one of the causes that `mishaps` notes) and `FailureIsTrue` (so has a failure entry for a mapped task) |

Three more configurations, to be run by hand, show what does not hold:
`outbox_two_tickets.cfg` (two worker runs, no fault: `OneTicketPerTask` is
violated), `outbox_stuck.cfg` (the answer of one claim is lost:
`EveryTaskIsSettled` is violated) and `outbox_lost_answer.cfg`.

Bounds: `MaxRows` rows enqueued for a task by a trigger or by a sweep that sees
fewer, `MaxTickets` tickets. One retry (`MaxAttempts = 1`) reaches both sides of
the bound on attempts. Two runs are what each race is between. `MaxRows = 1`
still allows two rows of a task, since a sweep decides before it enqueues.

Fairness (`FairSpec`): timers fire, a query that was sent comes back, time passes.
Nothing obliges a trigger to fire: the sweep has to make up for it. Nothing in
this repository calls `startTicketingBackgroundLoops` yet (its comment at
`grc-ticketing.ts:320-325` leaves that to a later change); the fairness is that of
a process which does.

### What does not hold

* **A task can get two tickets, with nothing failing** (against `types.ts:155-156`,
  'at most one ticket per ProcessTask, ever'). `ticket_mapping` keeps one
  mapping per task but is read before and written after the call of the ticket
  system. The trigger and the sweep can both enqueue, and two overlapping runs
  take one row each.
* **A row can be stuck for ever.** A run that ends early, through an error outside
  the `try` or in its `catch`, or with its process, leaves what it has claimed
  `processing`. Nothing takes such a row up again, and the sweep counts it as in
  flight. Only a reset by hand helps, since `resetToPending` takes any row.
* **An error after the mapping is written is taken for a failed try.** The row ends
  without a `TICKET_CREATED` entry, or with `TICKET_CREATE_FAILED` for a task that
  has its ticket. `TicketsAreAccounted` and `FailureIsTrue` say that it is this (`unfinished`),
  or one of the other mishaps, whenever the ledger and the mapping disagree.
* **Two runs can work on one row** if the answer of `markRetryable` is lost: the
  catch-all calls it again, on a row that another run may hold by then.
  `outbox_lost_answer.cfg`, to be run by hand, violates `OneWorkerPerRow`. The
  property holds for lost answers of the other queries that `outbox_workers` allows.

## 6. What people see

Eight components stand between the gate and its people. Each has its module and
its state; `MCSurfaces` puts one of them in focus and leaves the
others as they start, so one run checks all of them and none multiplies another.
Where a surface talks to the gate, the gate is reduced to what the surface can
tell: Slack's `ResumeReview` is one step that records and answers, without a failure after the
review is written; the console has the server's handler await by await.

| Module | Code | One action is |
|---|---|---|
| `SlackGateway` | `orchestrator/slack/`: `handleInteractions`, the block and view handlers, `delivery.ts`, the caches | a request Slack delivers, or a step between two awaits of the job it starts (read, claim, open the modal, resume, refresh a card) |
| `SlaReminders` | `handleSlaBreachFeedRequest`, `sla-reminder-scheduler.ts` | a whole feed request (it awaits nothing that yields), its answer arriving or not, a reminder sent |
| `ConsoleGateway` | item page and `SignOffPanel`, item, claim and decision routes, `orchestrator-client.ts`, the server's review handlers | a request of a tab at the route or at the server; an await of the server's handler (`HandleResume`, `CheckStep`, `CheckAssignment`, `ReadReviews`, `WriteReview`, `AppendLedgerEntry`, `ResumeEngine`, `Resuspend`, `CommitDecision`, `ClearIndex`), which may fail before or after it takes effect; a request or an answer gets lost |
| `ReviewQueue` | `GET /api/console/queue`, `fetchQueueItems` | the rows of a page; the gate's answer about them |
| `ExportJobs` | export routes, `export-job-store.ts`, `export-storage.ts`, the clean-up script | a call of the store or of the disk |
| `AuditRegister` | `audit-query.ts`, `packages/report-generation` | a statement of the database; the writing of a file |
| `Assistant` | `assistant-core`, its route, `assistant-query-templates.ts` | a call of a model, a statement of the database |
| `RateLimit` | `assistant-rate-limit.ts` | a question |

What `surfaces` checks (799k states, two minutes), and against what:

* `SlackTellsFacts`: a Tier C or ESCALATE obligation is decided by two people, and
  a card shows a review only to those who may see it — while clicks repeat, two
  people click at once and each refresh awaits between its reads and its writes.
  `ClosedMeansProcessed`: a modal that closes was worked on; the dedupe cache
  swallows nothing but repetitions.
* `RemindersAreExact`: whatever cycles overlap or fail, one reminder at most per
  reviewer and obligation, and none lost through another's failure.
* `ConsoleTellsFacts`, in three parts. `AnswersAreTrue`: what a tab calls recorded is in the graph and
  in the ledger and has moved the run on, what it says was refused (an answer with a
  code of its own) is not recorded and never will be; an error of the server and a
  lost answer say neither, since the handler may have got past the write.
  `RetryIsNotASecondReview`: a request the server takes up when its reviewer's review is
  there is never recorded (two that it works on at once may both be, as section 3
  says). `PeerIsHidden`: a tab never shows a colleague's review to who has not decided.
* `WalkIsAccounted`: a walk shows only what it is for, whatever is decided and arrives
  between its pages; an item whose score is its own is missed only when a
  riskier one left or the gate calls it another's, and comes twice only when a
  riskier one entered, with page sizes and filters in any combination.
* `FilesMatchRecords`: a completed job has its file; a file without a record is one
  whose generation failed or crashed, or whose deletion did.
* `AssistantIsGrounded`: nothing is cited that was not read; the facts a model is
  given are those of the question, read in several statements while reviews go
  on; the template intents do not show the first of two reviews; who is turned
  away asked `Limit` times in the window before, and nobody gets more than twice
  the limit through in the length of one.
* `RegisterIsTrue`: no register shows an undecided review; count and rows agree when
  nothing was written in between; the workbook and the document give back the
  rows, across page breaks; a row without a review is one that needs or awaits one.

| Run | Shows |
|---|---|
| `surfaces` | the properties above |
| `audit_search` | `SearchIsGuarded` is violated: a search shows the first of two reviews |

Abstractions. Signatures, sessions and roles, and the wording of everything are
left out. A model's answer is any answer of its schema that the instance lists:
unsure, incomplete, out of scope and refused by the template's schema among them.
A digest is what it digests. Vectors are the obligations they are like. Items of
one risk score come in any order, another one on each page (`Orders`). Behind the
console, the run keeps reviews, entries, the engine's step and the index; the
texts of a decision and the rest of `finalizeCommit` are in `ReviewGate`. Bounds are in `MCSurfaces`, at each instance, and in `surfaces.cfg`: two of
whatever races, one item more than a page, a clock that runs past each deadline
(twenty hours against a due-soon window of four before twelve and twenty-four), and for
the console one call that fails or message that is lost.
No fairness is assumed; these are safety properties.

### What does not hold

* **A search shows the first of two reviews** (`audit_search`; against
  `audit-query.ts:305-308` and `:337-339`). The guard of `search`, its count,
  `findByReviewId` and `findByObligationId` is the `WHERE` of an `OPTIONAL MATCH`. In
  Cypher it decides whether the optional part matches; the row stays, with its
  review. Filters by reviewer, date or circular filter nothing for the same reason.
  The registers place the guard where it works, and their comment says why. The
  histories of the assistant call the search and inherit it, so
  `AssistantIsGrounded` asks for hidden reviews only of the intents that have a
  template of their own.
* **A corrected Slack form can be dropped.** The view id is recorded as seen before
  the form is validated (`app.ts:157-163`); the same modal sent again with the
  mistake put right counts as a repetition. `Mistakes = TRUE` violates
  `ClosedMeansProcessed`.
* **After a restart a Tier C click counts as Tier B** (`block-actions.ts:72`): the
  cards are in memory, and their absence stands for Tier B. `SlackTellsFacts` is
  about the time before.
* **"Your decision was not recorded, please retry"** (`decisions/route.ts:299`, the
  claim route likewise) is also the answer when only the orchestrator's answer was
  lost: `console_lost_answer.cfg`, to be run by hand with `MCSurfaces`, violates
  `NotRecordedIsTrue`. An error of the ledger or the engine after the review is written is
  a 500 that the route passes on as it came. A page that lost the answer of a claim gets 409 until it is loaded again.
  A console "reject" of an ESCALATE item ends in `NOT_ASSIGNED`.
* **A run that is suspended again keeps its reminder marks**: the second suspension
  reminds nobody who was reminded of the first.
* **A walk through the queue that others decide beside can skip an item**, since the
  cursor is an offset, and items of equal risk have no order, so that any of them may
  be missed or come twice with nothing happening. `WalkIsAccounted` says that there is no
  third reason. Asking for a tier
  none of whose statuses were asked for drops the tier filter (`queue/route.ts:115`).
* **An inline export that fails stays queued for ever**; a reader who finds a job old
  marks it failed even if it has completed meanwhile; two requests together can
  exceed the cap. None of this touches what `FilesMatchRecords` says.
* **A register filtered by tier** prints "No human review recorded yet." for an
  obligation whose reviews are of another tier, and one filtered by intermediary
  category is empty, since the workflow passes no category ids
  (`orchestrator.workflow.ts:466`).
* **`SKIP` and `LIMIT` are passed as JavaScript numbers**, which the driver sends as
  floats (`audit-query.ts:258-259`, `assistant-query.ts:211`); only
  `vector-search.ts` wraps them. What the database says to that is outside `src`.

## 7. The agents and the stores

`MCAgents` does for the agents before and after the gate, and for the stores
below them, what `MCSurfaces` does for the surfaces.

| Module | Code | One action is |
|---|---|---|
| `RegulatoryWatch` | `regulatory-watch.agent.ts`, `circular-lookups.ts` | a fetch, a lookup or a delivery of one entry of a batch; an edit of a listing; a circular committed meanwhile |
| `ObligationPipeline` | extraction, grounding and mapping agents, the scorer, `orchestrator.logic.ts` | a lookup or a call of a model; a change of the graph by another run |
| `ChangeAndDelta` | `change-and-delta.core.ts`, `.graph.ts` | a read of the graph or a call of the alignment model; an obligation closed meanwhile |
| `SlaMonitor` | the rest of `monitoring-and-audit.agent.ts` | a read, an append; an hour |
| `GraphStore` | `graph-writer.ts`, `commit-plan-validator.ts`, `repositories/` | the statements of a transaction, with its locks; a lost connection |
| `Migrations` | the three `migrations/runner.ts` | a read, a transaction, a crash |

What `agents` checks (885k states, three minutes):

* `NewsIsAccounted`: whichever fetches, lookups and deliveries fail, a cycle that has
  ended has an answer for each listing, and for each entry it saw an event, an
  error or that it was known; what it counts was delivered. What was in the graph
  when a cycle began, superseded or not, is no news to it: the lookup by hash asks for no
  `valid_to` (`circular-lookups.ts:64-71`), the one by title does.
* `RoutingIsCautious`: Tier A is earned by checks that were made and passed; an
  invented field or a conflict with an obligation in force escalates, whatever the
  risk; a lookup that fails never gives a lower tier than one that finds nothing.
* `ObligationsHaveOneFate`: each live obligation an amendment touches is closed for
  a cause, and at most once if its paragraph is compared once; each paragraph the
  proposal has to account for has an entry, about one of its live obligations if it has any, and
  all of them share what becomes of it (`NothingIsDropped`); what the model is
  not sure of is unresolved; the proposal is no surer than its weakest part; a
  replaced obligation's task is carried over, unless it has none or was closed
  meanwhile (`TasksAreCarried`).
* `MonitoringIsTrue`: SLA entries are true and go forward, a repeat coming only from
  another scan that wrote since this one began or from an append made again; every upload that was
  answered is in the graph and, once a sweep has ended, in the ledger.
* `CommitsAreSerial`: whatever three calls read of each other's commits, the graph
  changes by exactly what one plan does to what is there. `GraphIsSound`: ids are
  unique, edges are those of committed plans, lineages do not fork, an answer is
  kept, no two calls wait for each other.
* `MigrationsAreRecorded`: what is recorded was executed, in order, by runners that
  race and crash.

Abstractions. A page is its content, a clause its size and the features the
scores read; a text of `ChangeAndDelta` is a sequence of words, since its likeness
decides. Likeness of titles and of vectors are given functions, in hundredths. A
transaction of `GraphStore` sees what is committed when each statement runs
(read committed), locks what it sets, and starts again after a transient error; what
the driver does is external. Properties no statement reads are left out of nodes.
Bounds are at the instances and in `agents.cfg`. `MCAgents` gives each component the smallest inputs
that reach both sides of its thresholds (a paragraph of sixty words with one
changed, one of three), one or two failures and one change by another run. The SLA monitor
is run twice: one scanner beside the uploads and the sweep, and two scanners that overlap,
without uploads, until the ledger has six entries (`MaxEntries`). No
fairness is assumed.

### What does not hold

* **One SLA transition can get two entries** when scans overlap: the look at the
  ledger and the append are awaits apart. The instance has two scanners, and
  `SlaEntriesGoForward` names this, beside the append made again for a lost answer, as the
  only way to a repeat.
* **An unaffected, unresolved or excluded paragraph names one obligation**: where
  several are live under it, the proposal's entry is about the first the query
  returned (`change-and-delta.core.ts:600`), and the others, though none is closed, are in no entry.
* **A trigger can count as emitted and start nothing**: the workflow of the default
  dependencies has no `createRun`, and `defaultInvokeOrchestrator` then only logs
  (`regulatory-watch.agent.ts:717-749`). "Delivered" means here that the call returned.
* **An upload that is a duplicate** names the artifact that is there in its entry,
  and so hides from the sweep that the artifact's own entry is missing. Two
  uploads of one content that overlap make two artifacts.
* **A migration that is edited between its two transactions** is recorded with a
  checksum of what was not executed (`EditsAnytime = TRUE` violates
  `MigrationsAreRecorded`). The Postgres runners use one transaction.
* **An amendment that changes one word of a long paragraph counts as unchanged**
  (the threshold is 0.98), and a paragraph for which the model finds no new text is
  repealed at any confidence (`change-and-delta.core.ts:467-470`).
* **A number that several clauses of a circular share** (each lettered sub-clause
  is "a", "b", …, `regulatory-watch.agent.ts:538-540`) is the number of each: when a
  new document replaces the circular, they are compared one by one, an obligation
  under that number gets what each was found to be, and so may be repealed and
  superseded at once, or closed though one of them is unresolved. `ClosedOnce`
  promises one fate where `ComparedOnce` holds; the instance has such a pair (`Brief`
  and `Twin`), and without that premise its run finds the two fates.
* **A second amendment of a circular** finds no obligation under it that the first
  has replaced: obligations are looked up under the amended circular only
  (`change-and-delta.graph.ts:24`).
* **A failed overwrite lookup counts as an overwrite without a match**, so the floor
  of a heuristic match is not applied; the penalty for an overwrite is.
  `RoutingIsCautious` exempts it.
* **A call that is tried again before its own first try is visible** may report, and
  the gate then audits, "superseded by a concurrent run" though it was itself.
* **What the agents find reaches the gate only in tests**: the workflow ends with its
  trigger step (`orchestrator.workflow.ts:747-753`), nothing under `apps` commits
  circulars or clauses, and scans and ingestion have no caller beside the agent's
  export. The modules take the inputs the types allow.

## 8. What is proved

Eight modules hold the proofs. A run shows a property on a small instance; a
theorem holds for all sets of obligations, reviewers, requests, callers, tasks or
jobs, finite or infinite, and all bounds, unless it names a hypothesis. Each
component states what it takes of its constants as a named `ASSUME`, which its
runs evaluate: numbers where the code
has numbers, and an absent value that is none of the values. `Spec` in the tables is the
component's own (`SlackSpec` for `SlackGateway`). The types of the gateways, the
export jobs and the migrations are a conjunct of their inductive invariants.

### The review gate, under either engine

`ReviewGateProofs` proves, for either engine and every set of disturbances:

| Theorem | States |
|---|---|
| `TypeCorrect` | `Spec => []TypeOK` |
| `BasisAlways` | `Spec => []DecisionBasis` |
| `AgreementAlways` | `Spec => []DecisionsAreAgreed` |
| `LedgerAlwaysExplains` | `Spec => []LedgerExplainsGraph` |

Assumptions: `ConstantsAssumption` (requests and obligations are different
names, `RoutedTiers` and `Overwrites` are functions of the stated types),
`NoneAssumption` and `SlotAssumption` (the absent value is not one of the
values).

`TypeOK` is not inductive: that `req[q].obligation` is an obligation, or that
`FinalOutcomeOf` has a value, depends on where the handler is. `WellFormed`
adds it: a handler that is not idle carries a request, its obligation has been
routed once it is past the checks, and one that finalizes carries an outcome
that has an image. `NextWellFormed` has one lemma per action.

`DecisionsAreAgreed` is about the end of a path of nine awaits. `DecisionBasis`
says at each await what the rest relies on:

* `ReadsStand` — what `ReadReviews` saw is still there, and by others. Reviews
  are never removed, so a stale read is a subset: the outcome computed from it
  is justified by the present reviews although it may not be the outcome they
  would give now.
* `WritesStand` — the review the handler wrote is there when it appends.
* `OutcomesAreJustified`, `EntriesAreJustified` — what is carried to the engine
  and what an entry says is supported by reviews; an answer to a replay comes
  from an entry, so it is supported as well.
* `GapIsReal`, `ReviewsBelong`, `NothingBeforeRouting` — the sweep's gap is a
  review; reviews are of the obligation they hang on; nothing of an obligation
  is there before its tier is, so that a routing cannot change the agreement
  which earlier reviews were counted under.

The proof takes each conjunct through each action. Monotonicity of `reviews`,
`ledger` and `tier` does most of it; the one real case is `AppendLedger`, where
the outcome is computed from the stale read, and `ComputeReviewOutcome` needs a
reviewer in it who is not the submitter.

### The review gate: one decision

`ReviewGateFinality` rests on `BasisAlways` and asks what becomes of the outcome
once `engine.resume` has it.

| Theorem | States | Hypotheses |
|---|---|---|
| `RunBasisAlways` | `Spec => []RunBasis` | `StrictEngine` |
| `EffectsAlwaysJustified` | `Spec => []EffectsAreJustified` | `StrictEngine` |
| `SupersessionAlwaysExact` | `Spec => []SupersessionIsExact` | `StrictEngine` |
| `DecisionAlwaysFinal` | `Spec => DecisionIsFinal` | `StrictEngine` |
| `GateImplementsPolicy` | `Spec => ImplementsPolicy` | `StrictEngine` |
| `SupersededOnceAlways` | `Spec => SupersededOnce` | none |

Every disturbance is allowed. `StrictEngine` is what the comment on
`WorkflowEnginePort` promises, and it is needed: with the engine double of the
integration tests two handlers carry the run of one obligation, and
`gate_late_ticket.cfg` shows a ticket for a rejected obligation.

The inductive invariant is `RunBasis`. `OneActorPerRun`: whoever carries a run,
from the accepted resume to the answer, finds no step suspended, and no one else
carries that run. `Progress`: until its carrier has committed, a run is undecided;
afterwards status, commit log, audits and tickets are as far as the carrier is.
A strict engine hands out a suspended step once, so a second carrier would have
to come from a step that nobody suspended. A carrier that throws leaves its run
with no step suspended, in no hand, and nothing more happens to it.

For `GateImplementsPolicy` each action is a step of `ReviewPolicy` under the
refinement mapping, or changes none of what is mapped (`OnlyTheseDecide`). Three
actions are steps: `RouteAndPreCommit`, `WriteReview` and `ApplyCommit`. The last
needs `RunBasis` (the obligation is undecided), `OutcomesAreJustified` (reviews
support the outcome) and `SupersessionIsExact` (the old obligation is still open).
`ReviewsFollowRouting`, which is inductive on its own, keeps reviews out of Tier A.

`SupersededOnceAlways` needs no engine at all: the guard on `valid_to` is in the
transaction that writes it.

### The review gate: the order of reviews, and the index

The second half of `ReviewGateFinality`.

| Theorem | States | Hypotheses |
|---|---|---|
| `MakerThenCheckerAlways` | `Spec => []MakerThenChecker` | `OneSubmission` |
| `ClaimsBasisAlways` | `Spec => []ClaimsBasis` | `OneSubmission` |
| `IndexAlwaysAgrees` | `Spec => []IndexAgreesWithEngine` | `StrictEngine`, `NoFailure` |
| `IndexBasisAlways` | `Spec => []IndexBasis` | `StrictEngine`, `NoFailure` |
| `ReviewsAlwaysOrderly` | `Spec => []ReviewsAreOrderly` | all three |

`OneSubmission` says that no reviewer submits twice at once and no event is
delivered again while it is worked on. The surfaces try to see to it and the gate
does not: `gate_double_submit.cfg` shows one person reviewing twice without it.
Port failures, restarts and the sweep are allowed, and either engine.
`ClaimsBasis` says that whoever is past the check of the slot (`Admitted`) still
holds it while the item is in the index with fewer than two reviews, and that a
reviewer about to write has none yet. The difficult step is the look at the
count: `MayReview` counts submissions and `TwoReviews` is about people, so that
`FewAreOne` has to relate the two.

`NoFailure` allows redelivery and the sweep only. A `finalizeCommit` that throws, or a restart
that empties the index, leaves an index that does not agree with the engine, and the code has
nothing that would put it right. `IndexBasis` says what the carrier of a run still
owes the index at each await.

### The audit ledger

`AuditLedgerProofs` proves, for all sets of callers, walks, contents and ranges,
any number of attempts and any bounds, with or without failures:

| Theorem | States |
|---|---|
| `LedgerInvAlways` | `AlteredSpec => []LedgerInv` |
| `LedgerTypeCorrect` | `Spec => []TypeOK` |
| `ChainAlwaysLinear` | `Spec => []ChainIsLinear` |
| `AnsweredAlwaysStored` | `Spec => []AnsweredIsStored` |
| `LedgerImplementsLog` | `Spec => ImplementsLog` |
| `VerifierAlwaysRight` | `AlteredSpec => []VerifierIsRight`, if `RangesBegin` |

The assumption is `LedgerAssumption` (callers are not walks, the absent value is
none of the values, page size and attempts are positive). The inductive
invariant `LedgerInv` is one of `AlteredSpec`, where the store changes columns of
rows at any moment, and says of the rows that were not altered what `Spec` makes
true of all. Its heart is `HeadIsLast`: from the read of the last row to the
commit, what an appender holds as the head is still the head, unless it was
altered since. That is inductive only with `LockInv` (whoever is between the read
and the commit holds the lock, so at most one is) and with the table's numbers
being `1..n` (`ChainStands`). A commit then adds row `n + 1`, linked to row `n`;
nothing but damage changes the table otherwise.

`VerifierIsRight` is about walks whose pages interleave with appends and damage.
`VerifierInv` adds what a walk knows between two pages: it has counted the rows
from its start to its cursor and they exist, none of the rows that were damaged
before it began is among them, and what it expects as the next link is the digest
of the row before the cursor unless that row was damaged. A page is a set of numbers, and the first broken one exists since those are
well-founded (`FirstIsThere`): there is no induction over a loop. `RangesBegin` asks that a range begins at 1 or later, as sequence
numbers do. It is needed: a walk asked for rows from 0 counts a row that is not
there, and takes its first page for a short one. `verifyChainIntegrity` does not
check its argument; only tests call it.

### The ticketing outbox

`TicketingOutboxProofs` proves, for all sets of tasks, workers and sweepers:

| Theorem | States | Hypotheses |
|---|---|---|
| `OutboxInvAlways` | `Spec => []OutboxInv` | none |
| `OutboxTypeCorrect` | `Spec => []TypeOK` | none |
| `SucceededAlwaysMapped` | `Spec => []SucceededIsMapped` | none |
| `OneWorkerAlways` | `Spec => []OneWorkerPerRow` | `FreedForSure` |
| `TicketsAlwaysAccounted` | `Spec => []TicketsAreAccounted` | none |
| `FailureAlwaysTrue` | `Spec => FailureIsTrue` | none |

The assumption is `OutboxAssumption`. The inductive invariant `OutboxInv` adds
`Coherent`, what a run relies on where it is: a worker that processes has a row,
one that is about to write a mapping has a ticket, and one that is about to tick
a row off has read or written the mapping of its task. The last is what the order
of FR-15 is for. It survives the steps of other runs because `StoresGo` holds of
every step: rows are never removed and keep their task, and a mapping is never
taken back. The proof takes each step apart into `StoresGo` and what it does to
the run that takes it (`WorkerGoes`), with one lemma per action.

`FreedForSure` says that the queries that free a row do not lose their answers,
and that only rows that failed for good are reset. All other faults are allowed.
`outbox_lost_answer.cfg` violates `OneWorkerPerRow` without it. `Exclusive` adds
that a row somebody holds is busy, so that the compare-and-set of `claimBatch`
cannot take it, and that a run claims no row twice.

`TicketsAlwaysAccounted` and `FailureAlwaysTrue` take any faults and any number of overlapping
runs. Their statements name what went wrong where something did (`mishaps`); what is
proved is that nothing else leads there. `Accounted` says that a ticket is either in the
mapping or with the run at the very step that writes it (`TicketsKnown`), and that
what a run found missing stays missing while no other run is past the same lookup
(`KnowsNone`). `Moves` and `Route` say of each step of a run what it leaves alone and
where it goes; the account is kept from these two alone.

### The surfaces

`SlackProofs` proves what is said in chat, `ConsoleProofs` what is said on a page.

| Theorem | States | Hypotheses |
|---|---|---|
| `SlackInvAlways` | `Spec => []SlackInv` | |
| `SlackAlwaysTellsFacts` | `Spec => []SlackTellsFacts`, from `TwoAlwaysDecide` and `CardsAlwaysTellFacts` | |
| `TwoAlwaysDecide` | `Spec => []DualReviewNeedsTwo` | |
| `CardsAlwaysTellFacts` | `Spec => []CardsTellFacts` | |
| `ClosedAlwaysProcessed` | `Spec => ClosedMeansProcessed` | `~Mistakes` |
| `ReminderInvAlways` | `Spec => []ReminderInv` | |
| `RemindersAlwaysExact` | `Spec => []RemindersAreExact` | |
| `ConsoleInvAlways` | `Spec => []ConsoleInv` | |
| `ConsoleAlwaysTellsFacts` | `Spec => []ConsoleTellsFacts`, from the three below | |
| `AnswersAlwaysTrue` | `Spec => []AnswersAreTrue` | |
| `RetryNeverSecond` | `Spec => []RetryIsNotASecondReview` | |
| `PeerAlwaysHidden` | `Spec => []PeerIsHidden` | |
| `ExportInvAlways` | `Spec => []ExportInv` | |
| `FilesAlwaysMatch` | `Spec => []FilesMatchRecords` | |
| `RateAlwaysFair` | `RateSpec => []RateIsFair`, from `RateInvAlways` | |
| `AssistInvAlways` | `AssistSpec => []AssistInv` | |
| `AssistantAlwaysGrounded` | `AssistSpec /\ RateSpec => []AssistantIsGrounded` | |
| `WalkAlwaysAccounted` | `QueueSpec => []WalkIsAccounted`, from `QueueInvAlways` | |

The theorems about `SlackGateway` take any number of clicks, repeats and obligations; the
reviewers are finitely many, since the recipients of a refresh are a sequence.
`SlackInv` says of a click that its modal knows its item and, before a restart, the
tier of its run (`ClickKnows`), of a refresh that what it is about to send is still
true (`RefreshOK`: the reviews only grow between the read and the update), and of a
submission that the click's own request is over before it
(`SubmissionOK`). `DualReviewNeedsTwo` follows since nobody reviews twice and a
run of two ends with two. `ClosedMeansProcessed` needs reviewers who make no
mistake: the view id is recorded before the form is validated, which section 6 tells.

The theorems about `ConsoleGateway` take any number of tabs, also several of one reviewer,
any failure of the server's calls, and lost requests and answers. `HandlerOK` says what a handler has
written where it stands: past the write its review is in the graph, past the
append its entry is in the ledger, past the engine the run has left its step; and a
request taken up when its reviewer's review was there gets no further than the read of the
reviews. `ReviewOK` follows a review back to its handler, which has not answered with a
refusal. The requests of a tab are numbered (`CallOK`, `ToldOK`): one under way has the latest
number, and the tab's last answer is about the one before. The step that needs all
of it is `ResumeEngine`: that no other handler is on its way back to the second
step keeps the engine from being suspended again behind a handler that has passed
it.

The theorems about `ExportJobs` take any number of jobs, panels and crashes. `ExportInv` says of a
job that a generation has its file from the write on, that a record names a
file only once the generation is over, and that a file no record
names is with a generation that is about to name it, with the clean-up, or
counted as orphaned.

The theorems about `SlaReminders` take finitely many obligations and claimants, as an
index in memory holds, and any number of cycles. `ReminderInv` says that an entry
of a feed is in the hands of one cycle, at one place, and that whatever is in a
cycle's hands or was sent is marked or its run is cleared, so that no later feed
returns it. It holds since a feed reads and marks in one synchronous step.

The theorems about `Assistant` take any number of questions and failures, finitely many
obligations, and whatever the models return. `AssistInv` says of a turn that it holds
facts only from the await that reads them on, that its answer and citations come with its end, and that
the obligation of a review among the facts of a template's answer is `Open`: in the graph
and not under dual review, which it then never is again, so
that a first review stays hidden while reviews go on. A page of reviews keeps its length since the
reads of `enrichObligationLineage` add none.

Of `RateLimit`: any limit and window that are positive, as the code makes them. At most two of
its windows meet any interval of their length; `BucketOK` therefore counts what was let
through since the open window began, and in the length of a window before that.

The theorems about `ReviewQueue` take finitely many items, any scores, equal ones too, and pages
of any size. The place of an item whose score is its own is one more than the number
of those ahead of it, in every order the query may return. `StillToCome`
says that such an item is shown, hidden or further on than the walk, unless a riskier
one left, which moves it forward; `ShownOnce` that once shown it is behind the
walk, unless a riskier one entered, which moves it back. `left` and `entered` are
histories. Items that share a score are outside the second half of the
property, since the query leaves their order open (it sorts by `risk_score` alone,
`graph-queries.ts:207`). The model gives an obligation one task; one with several comes
once for each.

### The agents

| Theorem of `AgentsProofs` | States | Hypotheses |
|---|---|---|
| `WatchInvAlways` | `WatchSpec => []WatchInv` | |
| `WatchTypesAlwaysHold` | `WatchSpec => []WatchTypeOK` | |
| `NewsAlwaysAccounted` | `WatchSpec => []NewsIsAccounted` | |
| `RoutingInvAlways` | `PipelineSpec => []RoutingInv` | |
| `RoutingAlwaysCautious` | `PipelineSpec => []RoutingIsCautious` | |
| `SlaInvAlways` | `SlaSpec => []SlaInv` | |
| `EvidenceAlwaysRecorded` | `SlaSpec => []EvidenceIsRecorded` | |
| `MonitoringAlwaysTrue` | `SlaSpec => []MonitoringIsTrue` | |

Of the watch: any number of cycles, listings of any length, any size of a batch and
number of retries. `WatchInv` follows an entry through its batch: it is
outstanding until it has exactly one answer (`EntriesHaveOneAnswer`), what a cycle
counts with what it has delivered and not yet counted is the number of events that
did not fail (`CountIsTrue`), and an entry known at the start does not get past the
look at the graph, which forgets no circular (`KnownStaysKnown`).

Of the pipeline: any clauses, drafts, assessments and obligations that
`PipelineAssumption` admits, with scores between 0 and 100. `RoutingInv` carries
along the stages what the tier rests on at the end: a confidence above the
model's own needs context from the graph (`DraftFacts`), the score of the critic
stays under the cap of what it found and a check it skipped does not pass
(`VerificationFacts`), an overwrite is matched or its lookup failed
(`MappingFacts`). The theorem then is arithmetic over the thresholds of the scorer.

Of the SLA monitor: any tasks, deadlines, uploads and hours, any number of scans that
overlap and appends whose answer is lost. `SlaInv` says what an upload knows at each
await and that a sweep has looked at, or has yet to look at, each artifact it read.
`SlaOrder` is what keeps the entries in order: a scan has seen the SLA entries there
were when it began (`since`, an auxiliary field of the entry), writes of each task once but for a
report made again, and repeats the task's last event only if another scan has
written of the task since.

### Amendments and migrations

| Theorem of `ChangeProofs` | States | Hypotheses |
|---|---|---|
| `DeltaInvAlways` | `DeltaSpec => []DeltaInv` | |
| `ObligationsAlwaysHaveOneFate` | `DeltaSpec => []ObligationsHaveOneFate` | |
| `MigrationsInvAlways` | `MigrationsSpec => []MigrationsInv` | `~EditsAnytime` |
| `MigrationsAlwaysRecorded` | `MigrationsSpec => []MigrationsAreRecorded` | `~EditsAnytime` |

Of amendments: any events, clauses, obligations and answers `DeltaAssumption` admits
(finitely many old clauses, percentages), any size of a batch and number of
closures meanwhile, whatever likeness two texts have. `DeltaInv` says of each diff that it is `Justified`: what
has no text was answered to have none in a new document, what has one differs from
what stands, what the model aligned is in its answers with that confidence; and of
the clauses (`Paired`) that each paragraph to account for has a diff or waits
in a batch, not both, and not twice if its number is its own. What a paragraph's
obligations become (`EntriesAreFates`) rests on that alone, so a call of the model
that fails, twice, or answers for half a batch, closes nothing.

Of migrations: any number of runners, files, versions and crashes and either kind of
store, if no file is edited while a runner is at work
(section 7 says what happens otherwise). `MigrationsInv` says of a runner that the files before its own are
recorded and that it holds what its file says, and of a version executed but not
recorded that it is what the file says still: a runner that
finds the objects there, and records, records what was executed.

### Only checked

Out of reach of the proof system: liveness (`SuspensionsEnd`, `EveryAppendEnds`,
`EveryTaskIsSettled`) and `ENABLED`. Checked by TLC and not proved, with the reason:

* `RegisterIsTrue`, `GraphIsSound`, `CommitsAreSerial`: rows and plans are folded into
  the result, and a fold needs an induction over data;
* the `TypeOK` of `MCSurfaces` and of `MCAgents`, which puts together
  those of all the components, the ones above included; those of the others are proved.

## 9. Not modelled

Of the ledger: the filters of `query`, `getLatestEntryForEntity`, the migrations'
role and trigger (which forbid updates and deletes to the application), the
connection pool, the text form that is hashed.

Of the outbox: what a ticket says, the assignee map, the back-off's length,
`updateTicket`, which nothing calls.

Of the gate: the registry of started runs and the fan-out to branches, which only
tests call, the in-process lock per old obligation (it orders commits that the
graph's guard already keeps apart; its map is never emptied, since the promise it
compares with at `orchestrator.workflow.ts:602` is a new one), the texts of errors.

Of the surfaces: sessions, roles, request signatures, rendering, the bytes of
PDF and spreadsheet files, prompts. Of the stores: embeddings and the vector
index beyond its presence, connection handling. Of the watch: how pages are
parsed. None of it keeps state that two actors share.
