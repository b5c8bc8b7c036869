-------------------------- MODULE TicketingOutbox --------------------------
(***************************************************************************)
(* From a committed process task to a ticket: handleObligationCommitted-   *)
(* Event puts a row into ticketing_outbox, processOutboxOnce claims rows   *)
(* and creates tickets, reconcileMissedCommits enqueues what the trigger   *)
(* has missed, resetOutboxEntry gives a failed row another life.           *)
(*                                                                         *)
(* A worker is one run of processOutboxOnce and a sweeper one run of       *)
(* reconcileMissedCommits.  Both are started by timers that do not wait    *)
(* for the run before, in as many processes as there are, so runs overlap. *)
(* One action is one query, or one call of the ticket system.              *)
(*                                                                         *)
(* The ticket system is the generic webhook, which makes a new ticket of   *)
(* every request.                                                          *)
(***************************************************************************)
EXTENDS Naturals, Sequences, FiniteSets

CONSTANTS
  Tasks,         \* process tasks of the graph
  Unresolvable,  \* those the lineage lookup does not find
  Workers,       \* runs of processOutboxOnce at one time
  Sweepers,      \* runs of reconcileMissedCommits at one time
  None,
  BatchSize,     \* outboxBatchSize
  MaxAttempts,   \* maxAttempts
  Faults,        \* what may go wrong, see below
  Ambiguous,     \* queries that may take effect and report an error
  Resettable,    \* statuses in which an operator resets a row
  MaxRows,       \* bound: outbox rows of a task, but for a race
  MaxTickets     \* bound: tickets of a task

(***************************************************************************)
(* "create": the ticket system refuses; "createLost": it makes the ticket  *)
(* and the answer is lost; "store": a query fails and has changed nothing; *)
(* "ledger": an append to the ledger fails; "crash": the process of a run  *)
(* stops.                                                                  *)
(***************************************************************************)
AllFaults == {"create", "createLost", "store", "ledger", "crash"}

Statuses == {"pending", "processing", "succeeded", "failed_retryable", "failed_permanent"}
Claimable == {"pending", "failed_retryable"}
InFlight == {"pending", "processing", "failed_retryable"}

WorkerLabels ==
  {"claim", "find", "lineage", "create", "map", "succeed", "announce",
   "retry", "giveUp", "announceFailure"}
SweeperLabels == {"candidate", "inFlight", "enqueue"}

ASSUME OutboxAssumption ==
  /\ Unresolvable \subseteq Tasks
  /\ Workers \cap Sweepers = {}
  /\ None \notin Nat \cup Tasks
  /\ BatchSize \in Nat \ {0}
  /\ MaxAttempts \in Nat
  /\ Faults \subseteq AllFaults
  /\ Ambiguous \subseteq {"claim", "map", "succeed", "retry", "giveUp"}
  /\ Resettable \subseteq Statuses

VARIABLES
  committed,  \* tasks whose obligation is committed in the graph
  rows,       \* ticketing_outbox, in the order of created_at
  mapping,    \* ticket_mapping: the number of the task's ticket, or None
  tickets,    \* how many tickets of a task the ticket system has made
  entries,    \* ledger entries TICKET_CREATED, TICKET_CREATE_FAILED
  pc,         \* where a run is
  todo,       \* claimBatch: candidates not tried yet; a sweep: tasks not looked at
  at,         \* the task a sweeper looks at
  batch,      \* the rows a worker has claimed and not finished, with their attempts
  guarded,    \* is the worker inside processOutboxOnce's try?
  made,       \* number of the ticket the worker has just created, or None
  mishaps     \* history: what has befallen the handling of a task, see below

stores == <<rows, mapping, tickets, entries>>
locals == <<todo, at, batch, guarded, made>>
program == <<committed, stores, pc, locals>>
vars == <<program, mishaps>>

Runs == Workers \cup Sweepers

Init ==
  /\ committed = {}
  /\ rows = <<>>
  /\ mapping = [t \in Tasks |-> None]
  /\ tickets = [t \in Tasks |-> 0]
  /\ entries = {}
  /\ pc = [p \in Runs |-> "idle"]
  /\ todo = [p \in Runs |-> {}]
  /\ at = [s \in Sweepers |-> None]
  /\ batch = [w \in Workers |-> <<>>]
  /\ guarded = [w \in Workers |-> TRUE]
  /\ made = [w \in Workers |-> None]
  /\ mishaps = {}

Goto(p, label) == pc' = [pc EXCEPT ![p] = label]
RowsOf(t) == {n \in DOMAIN rows : rows[n].task = t}

-----------------------------------------------------------------------------
(* Enqueuing.                                                              *)

EnqueuedOpen(t) ==  \* mutation: a status the worker does not know
  Append(rows, [task |-> t, status |-> "open", attempts |-> 0, due |-> TRUE])

Enqueued(t) == Append(rows, [task |-> t, status |-> "pending", attempts |-> 0, due |-> TRUE])

\* finalizeCommit, and fireTicketingTrigger, which swallows its failure.
Commit(t) ==
  /\ t \notin committed
  /\ committed' = committed \cup {t}
  /\ UNCHANGED <<stores, pc, locals>>

\* Each call brings an event id of its own, so no call is a redelivery.
Trigger(t) ==
  /\ t \in committed
  /\ Cardinality(RowsOf(t)) < MaxRows
  /\ rows' = Enqueued(t)
  /\ UNCHANGED <<committed, mapping, tickets, entries, pc, locals>>

BeginSweep(s) ==
  /\ pc[s] = "idle" /\ s \in Sweepers
  /\ committed \ Unresolvable # {}
  /\ todo' = [todo EXCEPT ![s] = committed \ Unresolvable]
  /\ Goto(s, "candidate")
  /\ UNCHANGED <<committed, stores, at, batch, guarded, made>>

NextCandidate(s, left) ==
  /\ at' = [at EXCEPT ![s] = None]
  /\ Goto(s, IF left = {} THEN "idle" ELSE "candidate")

SweepMapping(s) ==
  /\ pc[s] = "candidate"
  /\ \E t \in todo[s] :
       /\ todo' = [todo EXCEPT ![s] = @ \ {t}]
       /\ IF mapping[t] # None
          THEN NextCandidate(s, todo[s] \ {t})
          ELSE at' = [at EXCEPT ![s] = t] /\ Goto(s, "inFlight")
  /\ UNCHANGED <<committed, stores, batch, guarded, made>>

HasInFlight(t) == \E n \in RowsOf(t) : rows[n].status \in InFlight

SweepInFlight(s) ==
  /\ pc[s] = "inFlight"
  /\ IF HasInFlight(at[s]) \/ Cardinality(RowsOf(at[s])) >= MaxRows
     THEN NextCandidate(s, todo[s])
     ELSE Goto(s, "enqueue") /\ UNCHANGED at
  /\ UNCHANGED <<committed, stores, todo, batch, guarded, made>>

SweepEnqueue(s) ==
  /\ pc[s] = "enqueue"
  /\ rows' = Enqueued(at[s])
  /\ NextCandidate(s, todo[s])
  /\ UNCHANGED <<committed, mapping, tickets, entries, todo, batch, guarded, made>>

\* A query of the sweep fails, or its process stops.
AbandonSweep(s) ==
  /\ Faults \cap {"store", "crash"} # {}
  /\ pc[s] \in SweeperLabels
  /\ todo' = [todo EXCEPT ![s] = {}]
  /\ at' = [at EXCEPT ![s] = None]
  /\ Goto(s, "idle")
  /\ UNCHANGED <<committed, stores, batch, guarded, made>>

-----------------------------------------------------------------------------
(* Claiming a batch.                                                       *)

\* SELECT ... ORDER BY created_at LIMIT: the oldest of those that are due.
Candidates ==
  LET due == {n \in DOMAIN rows : rows[n].status \in Claimable /\ rows[n].due}
  IN {n \in due : Cardinality({k \in due : k < n}) < BatchSize}

Poll(w) ==
  /\ pc[w] = "idle" /\ w \in Workers
  /\ Candidates # {}
  /\ todo' = [todo EXCEPT ![w] = Candidates]
  /\ Goto(w, "claim")
  /\ UNCHANGED <<committed, stores, at, batch, guarded, made>>

SetRow(n, status, attempts, due) ==
  rows' = [rows EXCEPT ![n] = [@ EXCEPT !.status = status, !.attempts = attempts, !.due = due]]

SetStatus(n, status) == SetRow(n, status, rows[n].attempts, rows[n].due)

\* The run ends where it is: what it has claimed stays "processing".
Abandon(w) ==
  /\ todo' = [todo EXCEPT ![w] = {}]
  /\ batch' = [batch EXCEPT ![w] = <<>>]
  /\ guarded' = [guarded EXCEPT ![w] = TRUE]
  /\ made' = [made EXCEPT ![w] = None]
  /\ Goto(w, "idle")

StillClaimableUnchecked(n) == TRUE  \* mutation: UPDATE ... WHERE id = $1 only

StillClaimable(n) == rows[n].status \in Claimable

Tried(w, n, claimed) ==
  /\ todo' = [todo EXCEPT ![w] = @ \ {n}]
  /\ batch' = [batch EXCEPT ![w] = @ \o claimed]
  /\ Goto(w, IF todo[w] # {n} THEN "claim" ELSE IF batch'[w] # <<>> THEN "find" ELSE "idle")
  /\ UNCHANGED <<guarded, made>>

ClaimRow(w) ==
  /\ pc[w] = "claim"
  /\ \E n \in todo[w] :
       /\ \A k \in todo[w] : n <= k
       /\ IF StillClaimable(n)
          THEN /\ SetStatus(n, "processing")
               /\ \/ Tried(w, n, <<[id |-> n, attempts |-> rows[n].attempts]>>)
                  \/ "claim" \in Ambiguous /\ Abandon(w)
          ELSE Tried(w, n, <<>>) /\ UNCHANGED rows
  /\ UNCHANGED <<committed, mapping, tickets, entries, at>>

-----------------------------------------------------------------------------
(* Processing the rows of the batch, the oldest first.                     *)

Current(w) == Head(batch[w])
TaskOf(w) == rows[Current(w).id].task

\* On to the next row.
Finish(w) ==
  /\ batch' = [batch EXCEPT ![w] = Tail(@)]
  /\ guarded' = [guarded EXCEPT ![w] = TRUE]
  /\ made' = [made EXCEPT ![w] = None]
  /\ Goto(w, IF Len(batch[w]) = 1 THEN "idle" ELSE "find")

MayTryAgain(w) == Current(w).attempts + 1 <= MaxAttempts

\* handleRetryable, up to its query or that of handlePermanent.
HandleRetryable(w) == Goto(w, IF MayTryAgain(w) THEN "retry" ELSE "giveUp")

\* An error inside the try is retryable; an error in its catch ends the run.
Caught(w) ==
  IF guarded[w]
  THEN /\ HandleRetryable(w)
       /\ guarded' = [guarded EXCEPT ![w] = FALSE]
       /\ UNCHANGED <<todo, batch, made>>
  ELSE Abandon(w)

AnswerLost(w) == pc[w] \in Ambiguous /\ Caught(w)

Proceed(w, label) == Goto(w, label) /\ UNCHANGED <<todo, batch, guarded, made>>

FindNothing(w) ==  \* mutation: the check of FR-4 is dropped
  /\ pc[w] = "find"
  /\ Proceed(w, "lineage")
  /\ UNCHANGED <<committed, stores, at>>

FindMapping(w) ==
  /\ pc[w] = "find"
  /\ Proceed(w, IF mapping[TaskOf(w)] # None THEN "succeed" ELSE "lineage")
  /\ UNCHANGED <<committed, stores, at>>

Lineage(w) ==
  /\ pc[w] = "lineage"
  /\ Proceed(w, IF TaskOf(w) \in Unresolvable THEN "giveUp" ELSE "create")
  /\ UNCHANGED <<committed, stores, at>>

NewTicket(w) ==
  /\ tickets[TaskOf(w)] < MaxTickets
  /\ tickets' = [tickets EXCEPT ![TaskOf(w)] = @ + 1]

CreateTicket(w) ==
  /\ pc[w] = "create"
  /\ NewTicket(w)
  /\ made' = [made EXCEPT ![w] = tickets'[TaskOf(w)]]
  /\ Goto(w, "map")
  /\ UNCHANGED <<committed, rows, mapping, entries, todo, at, batch, guarded>>

\* Refused, or made while the answer is lost or is no good (FR-22, FR-23).
CreateFails(w) ==
  /\ pc[w] = "create"
  /\ \/ "create" \in Faults /\ UNCHANGED tickets
     \/ "createLost" \in Faults /\ NewTicket(w)
  /\ HandleRetryable(w) \/ Goto(w, "giveUp")
  /\ UNCHANGED <<committed, rows, mapping, entries, locals>>

InsertMappingAfter(w) ==  \* mutation: nothing but the order of FR-15 is changed
  /\ pc[w] = "map"
  /\ SetStatus(Current(w).id, "succeeded")
  /\ Proceed(w, "succeed") \/ AnswerLost(w)
  /\ UNCHANGED <<committed, mapping, tickets, entries, at>>

InsertMapping(w) ==
  /\ pc[w] = "map"
  /\ mapping' = [mapping EXCEPT ![TaskOf(w)] = IF @ = None THEN made[w] ELSE @]
  /\ Proceed(w, "succeed") \/ AnswerLost(w)
  /\ UNCHANGED <<committed, rows, tickets, entries, at>>

MarkSucceededSilently(w) ==  \* mutation: the entry is forgotten
  /\ pc[w] = "succeed"
  /\ SetStatus(Current(w).id, "succeeded")
  /\ (Finish(w) /\ UNCHANGED todo) \/ AnswerLost(w)
  /\ UNCHANGED <<committed, mapping, tickets, entries, at>>

MarkSucceeded(w) ==
  /\ pc[w] = "succeed"
  /\ SetStatus(Current(w).id, "succeeded")
  /\ \/ IF made[w] = None THEN Finish(w) /\ UNCHANGED todo ELSE Proceed(w, "announce")
     \/ AnswerLost(w)
  /\ UNCHANGED <<committed, mapping, tickets, entries, at>>

\* appendLedgerSafely: a failure is logged and forgotten.
Record(entry) ==
  \/ entries' = entries \cup {entry}
  \/ "ledger" \in Faults /\ UNCHANGED entries

Announce(w) ==
  /\ pc[w] = "announce"
  /\ Record([type |-> "TICKET_CREATED", task |-> TaskOf(w), ticket |-> made[w]])
  /\ Finish(w)
  /\ UNCHANGED <<committed, rows, mapping, tickets, todo, at>>

MarkRetryableInPlace(w) ==  \* mutation: the status is left as it is
  /\ pc[w] = "retry"
  /\ SetRow(Current(w).id, "processing", rows[Current(w).id].attempts + 1, FALSE)
  /\ (Finish(w) /\ UNCHANGED todo) \/ AnswerLost(w)
  /\ UNCHANGED <<committed, mapping, tickets, entries, at>>

MarkRetryable(w) ==
  /\ pc[w] = "retry"
  /\ SetRow(Current(w).id, "failed_retryable", rows[Current(w).id].attempts + 1, FALSE)
  /\ \/ Finish(w) /\ UNCHANGED todo
     \/ AnswerLost(w)
  /\ UNCHANGED <<committed, mapping, tickets, entries, at>>

MarkPermanentFailure(w) ==
  /\ pc[w] = "giveUp"
  /\ SetRow(Current(w).id, "failed_permanent", rows[Current(w).id].attempts + 1,
            rows[Current(w).id].due)
  /\ Proceed(w, "announceFailure") \/ AnswerLost(w)
  /\ UNCHANGED <<committed, mapping, tickets, entries, at>>

AnnounceFailure(w) ==
  /\ pc[w] = "announceFailure"
  /\ Record([type |-> "TICKET_CREATE_FAILED", task |-> TaskOf(w), ticket |-> None])
  /\ Finish(w)
  /\ UNCHANGED <<committed, rows, mapping, tickets, todo, at>>

\* A query fails and has changed nothing.
QueryFails(w) ==
  /\ "store" \in Faults
  /\ \/ pc[w] = "claim" /\ Abandon(w)
     \/ pc[w] \in {"find", "lineage", "map", "succeed", "retry", "giveUp"} /\ Caught(w)
  /\ UNCHANGED <<committed, stores, at>>

Crash(w) ==
  /\ "crash" \in Faults
  /\ pc[w] \in WorkerLabels
  /\ Abandon(w)
  /\ UNCHANGED <<committed, stores, at>>

-----------------------------------------------------------------------------

\* next_attempt_at passes.
Due(n) ==
  /\ ~rows[n].due
  /\ SetRow(n, rows[n].status, rows[n].attempts, TRUE)
  /\ UNCHANGED <<committed, mapping, tickets, entries, pc, locals>>

\* FR-18 speaks of rows that failed for good; the query takes any row.
Reset(n) ==
  /\ rows[n].status \in Resettable
  /\ SetRow(n, "pending", 0, TRUE)
  /\ UNCHANGED <<committed, mapping, tickets, entries, pc, locals>>

Process(w) ==
  \/ FindMapping(w) \/ Lineage(w) \/ CreateTicket(w) \/ CreateFails(w)
  \/ InsertMapping(w) \/ MarkSucceeded(w) \/ Announce(w)
  \/ MarkRetryable(w) \/ MarkPermanentFailure(w) \/ AnnounceFailure(w)

Sweep(s) == BeginSweep(s) \/ SweepMapping(s) \/ SweepInFlight(s) \/ SweepEnqueue(s)

Step ==
  \/ \E t \in Tasks : Commit(t) \/ Trigger(t)
  \/ \E s \in Sweepers : Sweep(s) \/ AbandonSweep(s)
  \/ \E w \in Workers : Poll(w) \/ ClaimRow(w) \/ Process(w) \/ QueryFails(w) \/ Crash(w)
  \/ \E n \in DOMAIN rows : Due(n) \/ Reset(n)

(***************************************************************************)
(* The history of a task records what the properties blame: the program    *)
(* neither reads nor writes it.                                            *)
(***************************************************************************)
Mishaps == {"together", "unseen", "unmapped", "unfinished"}

\* Two runs are past a lookup that found no mapping of the task.
FoundNone == {"lineage", "create", "map", "giveUp", "announceFailure"}

Together(t) ==
  \E v, w \in Workers :
    v # w /\ {pc[v], pc[w]} \subseteq FoundNone /\ TaskOf(v) = t /\ TaskOf(w) = t

\* The lookup of the mapping fails.
Unseen(w) == pc[w] = "find" /\ pc'[w] \in {"retry", "giveUp"}

\* A ticket is made, and the run that asked for it goes on without mapping it.
Unmapped(w) ==
  \/ pc[w] = "create" /\ pc'[w] \notin {"create", "map"} /\ tickets' # tickets
  \/ pc[w] = "map" /\ pc'[w] \notin {"map", "succeed"} /\ mapping' = mapping

\* A ticket is mapped, and what marks the row, the append or the process fails.
Unfinished(w) ==
  \/ pc[w] = "map" /\ pc'[w] \notin {"map", "succeed"} /\ mapping' # mapping
  \/ pc[w] = "succeed" /\ pc'[w] \in {"retry", "giveUp"}
  \/ pc[w] = "succeed" /\ made[w] # None /\ pc'[w] = "idle" /\ rows' = rows
  \/ /\ pc[w] = "announce" /\ pc'[w] # "announce"
     /\ [type |-> "TICKET_CREATED", task |-> TaskOf(w), ticket |-> made[w]] \notin entries'

Befalls ==
  {<<t, "together">> : t \in {u \in Tasks : Together(u)'}}
  \cup {<<TaskOf(w), "unseen">> : w \in {v \in Workers : Unseen(v)}}
  \cup {<<TaskOf(w), "unmapped">> : w \in {v \in Workers : Unmapped(v)}}
  \cup {<<TaskOf(w), "unfinished">> : w \in {v \in Workers : Unfinished(v)}}

Next == Step /\ mishaps' = mishaps \cup Befalls

Spec == Init /\ [][Next]_vars

(***************************************************************************)
(* The timers fire, a query or a request that was sent comes back, and     *)
(* time passes.                                                            *)
(***************************************************************************)
Fairness ==
  /\ \A s \in Sweepers : WF_program(Sweep(s))
  /\ \A w \in Workers : WF_program(Poll(w) \/ ClaimRow(w) \/ Process(w))
  /\ WF_program(\E n \in DOMAIN rows : Due(n))

FairSpec == Spec /\ Fairness

-----------------------------------------------------------------------------
(* Properties.                                                             *)

RowType ==
  [task : Tasks, status : Statuses, attempts : Nat, due : BOOLEAN]

ProgramTypes ==
  /\ committed \subseteq Tasks
  /\ rows \in Seq(RowType)
  /\ mapping \in [Tasks -> Nat \cup {None}]
  /\ tickets \in [Tasks -> Nat]
  /\ entries \subseteq [type : {"TICKET_CREATED", "TICKET_CREATE_FAILED"},
                       task : Tasks, ticket : Nat \cup {None}]
  /\ pc \in [Runs -> {"idle"} \cup WorkerLabels \cup SweeperLabels]
  /\ DOMAIN todo = Runs
  /\ \A s \in Sweepers : todo[s] \subseteq Tasks
  /\ \A w \in Workers : todo[w] \subseteq DOMAIN rows
  /\ at \in [Sweepers -> Tasks \cup {None}]
  /\ batch \in [Workers -> Seq([id : DOMAIN rows, attempts : Nat])]
  /\ guarded \in [Workers -> BOOLEAN]
  /\ made \in [Workers -> Nat \cup {None}]

TypeOK == ProgramTypes /\ mishaps \subseteq Tasks \X Mishaps

(***************************************************************************)
(* A row is "succeeded" only when its task has its ticket in               *)
(* ticket_mapping: whatever fails, a row is not ticked off for nothing.    *)
(***************************************************************************)
SucceededIsMapped ==
  \A n \in DOMAIN rows : rows[n].status = "succeeded" => mapping[rows[n].task] # None

\* The rows a run still has to do with.
Held(w) ==
  {batch[w][i].id : i \in DOMAIN batch[w] \ (IF pc[w] = "announceFailure" THEN {1} ELSE {})}

(***************************************************************************)
(* FR-14: no two runs work on the same row.  (After a permanent failure is *)
(* stored a run has only a ledger entry left to write.)                    *)
(***************************************************************************)
OneWorkerPerRow ==
  \A w1, w2 \in Workers : w1 # w2 => Held(w1) \cap Held(w2) = {}

(***************************************************************************)
(* TicketMapping: "at most one ticket per ProcessTask, ever".              *)
(***************************************************************************)
OneTicketPerTask == \A t \in Tasks : tickets[t] <= 1

Met(t, kind) == <<t, kind>> \in mishaps

(***************************************************************************)
(* A task gets a second ticket only when two runs have looked for its      *)
(* mapping before either had written one, or when a ticket was made and    *)
(* the query that maps it, the answer or the process was lost.             *)
(***************************************************************************)
SecondTicketHasCause ==
  \A t \in Tasks : tickets[t] <= 1 \/ Met(t, "together") \/ Met(t, "unmapped")

(***************************************************************************)
(* A mapped ticket has its TICKET_CREATED entry, or a run is about to      *)
(* append it, or what comes after the mapping has failed.                  *)
(***************************************************************************)
MappedIsAnnounced ==
  \A t \in Tasks : mapping[t] # None =>
    \/ [type |-> "TICKET_CREATED", task |-> t, ticket |-> mapping[t]] \in entries
    \/ \E w \in Workers :
         pc[w] \in {"succeed", "announce"} /\ made[w] = mapping[t] /\ TaskOf(w) = t
    \/ Met(t, "unfinished")

\* A task has one ticket and the ledger says which, but for these mishaps.
TicketsAreAccounted == SecondTicketHasCause /\ MappedIsAnnounced

(***************************************************************************)
(* TICKET_CREATE_FAILED is entered only for a task that has no mapped      *)
(* ticket, unless two runs were at the task at once, its mapping could not *)
(* be looked up, or what comes after the mapping has failed.               *)
(***************************************************************************)
FailureIsTrue ==
  [][\A t \in Tasks :
       [type |-> "TICKET_CREATE_FAILED", task |-> t, ticket |-> None] \in entries' \ entries
         => mapping[t] = None \/ \E kind \in Mishaps \ {"unmapped"} : Met(t, kind)]_vars

(***************************************************************************)
(* Every committed task gets its ticket, or a row that says it failed for  *)
(* good; also when the trigger was lost.                                   *)
(***************************************************************************)
Settled(t) ==
  mapping[t] # None \/ \E n \in RowsOf(t) : rows[n].status = "failed_permanent"

EveryTaskIsSettled == \A t \in Tasks \ Unresolvable : t \in committed ~> Settled(t)

=============================================================================
