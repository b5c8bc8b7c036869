---------------------------- MODULE AuditLedger ----------------------------
(***************************************************************************)
(* The hash-chained audit ledger in Postgres: PostgresAuditLedger with     *)
(* appendLedgerEntry, the retrying wrapper of the agents, in front of it.  *)
(*                                                                         *)
(* An append is a transaction of several round trips under an advisory     *)
(* lock; verifyChainIntegrity walks the table page by page, each page a    *)
(* query of its own, and at last appends an entry about itself.  Appends   *)
(* and walks of several processes interleave between the round trips.      *)
(*                                                                         *)
(* Postgres is external: a transaction's now() is the time of its BEGIN,   *)
(* what it inserted is seen by others once it has committed, and the end   *)
(* of a transaction, either way, gives the lock back.                      *)
(***************************************************************************)
EXTENDS Integers, FiniteSets

CONSTANTS
  Callers,      \* callers of appendLedgerEntry
  Verifiers,    \* callers of verifyChainIntegrity
  Contents,     \* event types with their payloads, as far as told apart
  Ranges,       \* <<from, to>> pairs asked for, to = None without an end
  None,
  Garbled,      \* what a damaged column holds
  PageSize,     \* VERIFY_PAGE_SIZE
  MaxAttempts,  \* LEDGER_APPEND_MAX_ATTEMPTS
  MaxCalls,     \* bound: calls and walks in a behavior
  MaxTime,      \* bound: the last instant of the clock
  MaxDamaged,   \* bound: rows damaged in a behavior
  Faulty        \* may round trips fail?

ASSUME LedgerAssumption ==
  /\ Callers \cap Verifiers = {}
  /\ None \notin Callers \cup Verifiers \cup Contents \cup Int
  /\ PageSize \in Nat \ {0}
  /\ MaxAttempts \in Nat \ {0}
  /\ Ranges \subseteq Nat \X (Nat \cup {None})
  /\ MaxTime \in Nat
  /\ Faulty \in BOOLEAN

Appenders == Callers \cup Verifiers

(***************************************************************************)
(* A digest is modelled by what it digests: it collides with no other.     *)
(***************************************************************************)
PayloadHash(content) == <<"payload", content>>

EntryHash(row) ==
  <<"entry", row.seq, row.time, row.payloadHash, row.prev>>

Genesis == <<"genesis">>

VARIABLES
  table,     \* audit_ledger, by sequence_number: the committed rows
  lock,      \* who holds the advisory lock
  clock,     \* the store's clock at the last BEGIN
  pc,        \* where a caller or a walk is
  job,       \* the content to append
  attempt,   \* which attempt this is
  began,     \* now() of the transaction
  head,      \* sequence number and hash the transaction found last
  pending,   \* the row it has inserted
  walk,      \* the locals of verifyChainIntegrity
  answered,  \* rows that were returned to callers
  verdicts,  \* what walks concluded
  sideRuns,  \* ledger_verification_runs
  damaged,   \* sequence numbers whose row was damaged in the store
  calls      \* calls and walks so far

txVars == <<job, attempt, began, head, pending>>
vars == <<table, lock, clock, pc, txVars, walk, answered, verdicts, sideRuns,
          damaged, calls>>

NoHead == [seq |-> 0, hash |-> Genesis]

InTransaction == {"lock", "read", "insert", "commit"}
Labels == {"idle", "begin", "prior", "page", "alarm"} \cup InTransaction

Init ==
  /\ table = <<>>
  /\ lock = None
  /\ clock = 0
  /\ pc = [a \in Appenders |-> "idle"]
  /\ job = [a \in Appenders |-> None]
  /\ attempt = [a \in Appenders |-> 1]
  /\ began = [a \in Appenders |-> 0]
  /\ head = [a \in Appenders |-> NoHead]
  /\ pending = [a \in Appenders |-> None]
  /\ walk = [v \in Verifiers |-> None]
  /\ answered = {}
  /\ verdicts = {}
  /\ sideRuns = {}
  /\ damaged = {}
  /\ calls = 0

Goto(a, label) == pc' = [pc EXCEPT ![a] = label]

-----------------------------------------------------------------------------
(* Appending.                                                              *)

Call(a) ==
  /\ pc[a] = "idle" /\ a \in Callers
  /\ calls < MaxCalls
  /\ \E c \in Contents : job' = [job EXCEPT ![a] = c]
  /\ attempt' = [attempt EXCEPT ![a] = 1]
  /\ calls' = calls + 1
  /\ Goto(a, "begin")
  /\ UNCHANGED <<table, lock, clock, began, head, pending, walk, answered,
                 verdicts, sideRuns, damaged>>

\* Between two transactions' BEGINs the clock has moved on, or it has not.
Begin(a) ==
  /\ pc[a] = "begin"
  /\ \E now \in clock..MaxTime :
       /\ clock' = now
       /\ began' = [began EXCEPT ![a] = now]
  /\ Goto(a, "lock")
  /\ UNCHANGED <<table, lock, job, attempt, head, pending, walk,
                 answered, verdicts, sideRuns, damaged, calls>>

LockFree(a) == lock = None

Lock(a) ==
  /\ pc[a] = "lock"
  /\ LockFree(a)
  /\ lock' = a
  /\ Goto(a, "read")
  /\ UNCHANGED <<table, clock, txVars, walk, answered, verdicts, sideRuns,
                 damaged, calls>>

LastSeq(t) ==
  IF DOMAIN t = {} THEN 0
  ELSE CHOOSE s \in DOMAIN t : \A r \in DOMAIN t : r <= s

HeadOfPayload(t) ==  \* mutation: the wrong column is selected
  IF DOMAIN t = {} THEN NoHead
  ELSE [seq |-> LastSeq(t), hash |-> t[LastSeq(t)].payloadHash]

HeadOf(t) ==
  IF DOMAIN t = {} THEN NoHead
  ELSE [seq |-> LastSeq(t), hash |-> t[LastSeq(t)].hash]

ReadHead(a) ==
  /\ pc[a] = "read"
  /\ head' = [head EXCEPT ![a] = HeadOf(table)]
  /\ Goto(a, "insert")
  /\ UNCHANGED <<table, lock, clock, job, attempt, began, pending, walk,
                 answered, verdicts, sideRuns, damaged, calls>>

NewRow(a) ==
  LET hashed == [seq |-> head[a].seq + 1, time |-> began[a],
                 payloadHash |-> PayloadHash(job[a]), prev |-> head[a].hash]
  IN [seq |-> hashed.seq, time |-> hashed.time, content |-> job[a],
      payloadHash |-> hashed.payloadHash, prev |-> hashed.prev,
      hash |-> EntryHash(hashed)]

(***************************************************************************)
(* An append ends: after an error appendLedgerEntry tries again, a walk's  *)
(* own append does not.  The end of the transaction frees the lock.        *)
(***************************************************************************)
Release(a) == lock' = IF lock = a THEN None ELSE lock

KeepsLock(a) == UNCHANGED lock  \* mutation: a lock of the session, kept on errors

ReleaseOnError(a) == Release(a)

MayRetryOnceMore(a) == a \in Callers /\ attempt[a] <= MaxAttempts  \* mutation

MayRetry(a) == a \in Callers /\ attempt[a] < MaxAttempts

AfterError(a) ==
  /\ pending' = [pending EXCEPT ![a] = None]
  /\ IF MayRetry(a)
     THEN /\ attempt' = [attempt EXCEPT ![a] = @ + 1]
          /\ Goto(a, "begin")
          /\ UNCHANGED job
     ELSE /\ job' = [job EXCEPT ![a] = None]
          /\ Goto(a, "idle")
          /\ UNCHANGED attempt

Collides(a) == NewRow(a).seq \in DOMAIN table

\* sequence_number is the primary key: a second row of a number is an error.
Insert(a) ==
  /\ pc[a] = "insert"
  /\ IF Collides(a)
     THEN AfterError(a) /\ ReleaseOnError(a)
     ELSE /\ pending' = [pending EXCEPT ![a] = NewRow(a)]
          /\ Goto(a, "commit")
          /\ UNCHANGED <<lock, job, attempt>>
  /\ UNCHANGED <<table, clock, began, head, walk, answered, verdicts,
                 sideRuns, damaged, calls>>

Stored(t, row) ==
  [s \in DOMAIN t \cup {row.seq} |-> IF s = row.seq THEN row ELSE t[s]]

Answered(a) ==
  /\ answered' = answered \cup {pending[a]}
  /\ pending' = [pending EXCEPT ![a] = None]
  /\ job' = [job EXCEPT ![a] = None]
  /\ Goto(a, "idle")
  /\ UNCHANGED attempt

CommitUnawaited(a) ==  \* mutation: the row is returned whether or not COMMIT worked
  /\ pc[a] = "commit"
  /\ table' \in {table, Stored(table, pending[a])}
  /\ Release(a)
  /\ Answered(a)
  /\ UNCHANGED <<clock, began, head, walk, verdicts, sideRuns, damaged, calls>>

\* The row is there.  The caller gets it, or, the answer being lost, an error.
Commit(a) ==
  /\ pc[a] = "commit"
  /\ table' = Stored(table, pending[a])
  /\ Release(a)
  /\ \/ Answered(a)
     \/ Faulty /\ AfterError(a) /\ UNCHANGED answered
  /\ UNCHANGED <<clock, began, head, walk, verdicts, sideRuns, damaged, calls>>

\* A round trip fails; whatever the transaction did is rolled back.
Fail(a) ==
  /\ Faulty
  /\ pc[a] \in {"begin"} \cup InTransaction
  /\ AfterError(a)
  /\ ReleaseOnError(a)
  /\ UNCHANGED <<table, clock, began, head, walk, answered, verdicts,
                 sideRuns, damaged, calls>>

-----------------------------------------------------------------------------
(* Verifying.                                                              *)

\* The content of a CHAIN_VERIFICATION_RUN entry.
RunContent(w) == [from |-> w.from, end |-> w.last, checked |-> w.checked]

Verdict(w, broken) ==
  [from |-> w.from, to |-> w.to, end |-> w.last, broken |-> broken,
   anchored |-> w.anchored, known |-> w.known]

PastEnd(cursor, to) == to # None /\ cursor > to

\* The walk found nothing: it appends its entry, in one attempt.
Conclude(v, w) ==
  /\ verdicts' = verdicts \cup {Verdict(w, None)}
  /\ walk' = [walk EXCEPT ![v] = None]
  /\ job' = [job EXCEPT ![v] = RunContent(w)]
  /\ Goto(v, "begin")

StartWalk(v) ==
  /\ pc[v] = "idle" /\ v \in Verifiers
  /\ calls < MaxCalls
  /\ calls' = calls + 1
  /\ \E range \in Ranges :
       LET w == [from |-> range[1], to |-> range[2], cursor |-> range[1],
                 expected |-> Genesis, last |-> range[1] - 1, checked |-> 0,
                 anchored |-> TRUE, known |-> damaged]
       IN IF range[1] > 1
          THEN walk' = [walk EXCEPT ![v] = w] /\ Goto(v, "prior")
               /\ UNCHANGED <<verdicts, job>>
          ELSE IF PastEnd(w.cursor, w.to)
          THEN Conclude(v, w)
          ELSE walk' = [walk EXCEPT ![v] = w] /\ Goto(v, "page")
               /\ UNCHANGED <<verdicts, job>>
  /\ UNCHANGED <<table, lock, clock, attempt, began, head, pending, answered,
                 sideRuns, damaged>>

\* The hash before the range; a row that is not there counts as genesis.
ReadPrior(v) ==
  /\ pc[v] = "prior"
  /\ LET before == walk[v].from - 1
         found == before \in DOMAIN table
         w == [walk[v] EXCEPT !.expected = IF found THEN table[before].hash ELSE Genesis,
                              !.anchored = found]
     IN IF PastEnd(w.cursor, w.to)
        THEN Conclude(v, w)
        ELSE walk' = [walk EXCEPT ![v] = w] /\ Goto(v, "page")
             /\ UNCHANGED <<verdicts, job>>
  /\ UNCHANGED <<table, lock, clock, attempt, began, head, pending, answered,
                 sideRuns, damaged, calls>>

\* The first two checks of checkEntryIntegrity; the third is the link.
SelfConsistent(row) ==
  /\ row.payloadHash = PayloadHash(row.content)
  /\ row.hash = EntryHash(row)

\* The hash row s must name: of the row before it on the page, if any.
Expected(page, s, expected) ==
  LET before == {r \in page : r < s}
  IN IF before = {} THEN expected
     ELSE table[CHOOSE r \in before : \A q \in before : q <= r].hash

BrokenOn(page, expected) ==
  {s \in page : ~ /\ SelfConsistent(table[s])
                  /\ table[s].prev = Expected(page, s, expected)}

LastOf(page) == CHOOSE s \in page : \A r \in page : r <= s
FirstOf(page) == CHOOSE s \in page : \A r \in page : s <= r

CarryNothing(w, page) == w.expected  \* mutation: pages are checked on their own

Carry(w, page) == table[LastOf(page)].hash

UpperBound(w) ==
  LET full == w.cursor + PageSize - 1
  IN IF w.to # None /\ w.to < full THEN w.to ELSE full

LastChecked(w, page) == LastOf(page)

ReadPage(v) ==
  /\ pc[v] = "page"
  /\ LET w == walk[v]
         upper == UpperBound(w)
         page == {s \in DOMAIN table : w.cursor <= s /\ s <= upper}
         broken == BrokenOn(page, w.expected)
         seen == [w EXCEPT !.last = LastChecked(w, page),
                           !.checked = @ + Cardinality(page),
                           !.expected = Carry(w, page),
                           !.cursor = upper + 1]
     IN IF page = {}
        THEN Conclude(v, w)
        ELSE IF broken # {}
        THEN /\ walk' = [walk EXCEPT ![v] = [w EXCEPT !.last = FirstOf(broken)]]
             /\ verdicts' = verdicts \cup {Verdict(walk'[v], FirstOf(broken))}
             /\ Goto(v, "alarm")
             /\ UNCHANGED job
        ELSE IF Cardinality(page) < upper - w.cursor + 1 \/ PastEnd(upper + 1, w.to)
        THEN Conclude(v, seen)
        ELSE walk' = [walk EXCEPT ![v] = seen] /\ UNCHANGED <<pc, verdicts, job>>
  /\ UNCHANGED <<table, lock, clock, attempt, began, head, pending, answered,
                 sideRuns, damaged, calls>>

\* recordVerificationRunFailure, which swallows its own failure.
RecordFailure(v) ==
  /\ pc[v] = "alarm"
  /\ \E recorded \in {TRUE, ~Faulty} :
       sideRuns' = IF recorded THEN sideRuns \cup {<<walk[v].from, walk[v].last>>}
                   ELSE sideRuns
  /\ walk' = [walk EXCEPT ![v] = None]
  /\ Goto(v, "idle")
  /\ UNCHANGED <<table, lock, clock, txVars, answered, verdicts, damaged, calls>>

\* A query of the walk fails: verifyChainIntegrity throws.
FailWalk(v) ==
  /\ Faulty
  /\ pc[v] \in {"prior", "page"}
  /\ walk' = [walk EXCEPT ![v] = None]
  /\ Goto(v, "idle")
  /\ UNCHANGED <<table, lock, clock, txVars, answered, verdicts, sideRuns,
                 damaged, calls>>

-----------------------------------------------------------------------------

(***************************************************************************)
(* The store loses what it should keep, outside of the program.  A row of  *)
(* which only the last were lost would leave no trace in the chain.        *)
(***************************************************************************)
Columns == {"content", "payloadHash", "prev", "hash"}

Alter ==
  /\ Cardinality(damaged) < MaxDamaged
  /\ \E s \in DOMAIN table, c \in Columns :
       /\ s \notin damaged /\ table[s][c] # Garbled
       /\ table' = [table EXCEPT ![s] = [@ EXCEPT ![c] = Garbled]]
       /\ damaged' = damaged \cup {s}
  /\ UNCHANGED <<lock, clock, pc, txVars, walk, answered, verdicts, sideRuns, calls>>

Lose ==
  /\ Cardinality(damaged) < MaxDamaged
  /\ \E s \in DOMAIN table \ {LastSeq(table)} :
       /\ table' = [r \in DOMAIN table \ {s} |-> table[r]]
       /\ damaged' = damaged \cup {s}
  /\ UNCHANGED <<lock, clock, pc, txVars, walk, answered, verdicts, sideRuns, calls>>

AppendStep(a) ==
  \/ Call(a) \/ Begin(a) \/ Lock(a) \/ ReadHead(a) \/ Insert(a) \/ Commit(a)
  \/ Fail(a)

WalkStep(v) == StartWalk(v) \/ ReadPrior(v) \/ ReadPage(v) \/ RecordFailure(v) \/ FailWalk(v)

Next ==
  \/ \E a \in Appenders : AppendStep(a)
  \/ \E v \in Verifiers : WalkStep(v)

Spec == Init /\ [][Next]_vars
AlteredSpec == Init /\ [][Next \/ Alter]_vars
LossySpec == Init /\ [][Next \/ Lose]_vars

(***************************************************************************)
(* Round trips that are sent come back, and Postgres hands the lock to     *)
(* those who wait in the order they asked for it.                          *)
(***************************************************************************)
Fairness ==
  /\ \A a \in Appenders :
       /\ WF_vars(Begin(a) \/ ReadHead(a) \/ Insert(a) \/ Commit(a))
       /\ SF_vars(Lock(a))
  /\ \A v \in Verifiers : WF_vars(ReadPrior(v) \/ ReadPage(v) \/ RecordFailure(v))

FairSpec == Spec /\ Fairness

-----------------------------------------------------------------------------
(* Properties.                                                             *)

RowType(row) ==
  /\ DOMAIN row = {"seq", "time", "content", "payloadHash", "prev", "hash"}
  /\ row.seq \in Nat /\ row.time \in Nat

WalkType(w) ==
  /\ DOMAIN w = {"from", "to", "cursor", "expected", "last", "checked",
                 "anchored", "known"}
  /\ w.from \in Nat /\ w.to \in Nat \cup {None}

TypeOK ==
  /\ DOMAIN table \subseteq Nat
  /\ \A s \in DOMAIN table : RowType(table[s]) /\ table[s].seq = s
  /\ lock \in Appenders \cup {None}
  /\ clock \in Nat /\ calls \in Nat
  /\ pc \in [Appenders -> Labels]
  /\ attempt \in [Appenders -> 1..MaxAttempts]
  /\ began \in [Appenders -> Nat]
  /\ DOMAIN job = Appenders /\ DOMAIN head = Appenders /\ DOMAIN pending = Appenders
  /\ DOMAIN walk = Verifiers
  /\ \A a \in Appenders :
       /\ DOMAIN head[a] = {"seq", "hash"} /\ head[a].seq \in Nat
       /\ pc[a] = "commit" => RowType(pending[a])
  /\ \A v \in Verifiers : pc[v] \in {"prior", "page", "alarm"} =>
       WalkType(walk[v])

(***************************************************************************)
(* FR-31, "monotonic, gapless" (LedgerEntry): the rows are numbered from 1 *)
(* without a gap, each with sound digests and linked to the one before,    *)
(* whatever appends overlap, fail or are tried again.                      *)
(***************************************************************************)
PrevHash(s) == IF s = 1 THEN Genesis ELSE table[s - 1].hash

ChainIsLinear ==
  /\ DOMAIN table = 1..LastSeq(table)
  /\ \A s \in DOMAIN table :
       SelfConsistent(table[s]) /\ table[s].prev = PrevHash(s)

(***************************************************************************)
(* The advisory lock makes the primary key a matter of form: between the   *)
(* read of the last row and the commit nobody else extends the chain, so   *)
(* no append ever fails because another one was quicker.                   *)
(***************************************************************************)
HeadIsCurrent ==
  \A a \in Appenders :
    /\ pc[a] \in {"insert", "commit"} => head[a] = HeadOf(table)
    /\ pc[a] = "commit" => pending[a] = NewRow(a)

(***************************************************************************)
(* A row that append returned is stored, as it was returned.               *)
(***************************************************************************)
AnsweredIsStored ==
  \A row \in answered : row.seq \in DOMAIN table /\ table[row.seq] = row

(***************************************************************************)
(* ChainVerificationResult names a break only where a stored hash is wrong *)
(* or a link is: in an undamaged chain there is none.                      *)
(***************************************************************************)
AlarmsNameABreak == \A verdict \in verdicts : verdict.broken = None

(***************************************************************************)
(* A CHAIN_VERIFICATION_RUN entry claims only rows that precede it, as     *)
(* many as it says.  (Of a damaged row the content is not what it was.)    *)
(***************************************************************************)
IsRun(row) == row.content \notin Contents

RunsClaimWhatTheySaw ==
  \A s \in DOMAIN table \ damaged : IsRun(table[s]) =>
    LET run == table[s].content
    IN /\ run.checked = run.end - run.from + 1
       /\ run.checked > 0 => run.end < s

(***************************************************************************)
(* A walk that concludes "intact" has no row in its range that was damaged *)
(* before the walk began (FR-33).                                          *)
(***************************************************************************)
Asked(verdict, s) == verdict.from <= s /\ ~PastEnd(s, verdict.to)

IntactMeansUndamaged ==
  \A verdict \in verdicts : verdict.broken = None =>
    \A s \in verdict.known : ~Asked(verdict, s)

(***************************************************************************)
(* However many entries are appended between the pages of a walk, an alarm *)
(* names a damaged row, or the one behind it: a walk that read the damaged *)
(* row before the damage finds the link of the next one wrong.  The row    *)
(* before the walk's range must have been there when the walk looked.      *)
(***************************************************************************)
AlarmsAreReal ==
  \A verdict \in verdicts : verdict.anchored /\ verdict.broken # None =>
    {verdict.broken, verdict.broken - 1} \cap damaged # {}

(***************************************************************************)
(* What the verifier says, in its answers and in the ledger itself, is     *)
(* right: the three above together.                                        *)
(***************************************************************************)
VerifierIsRight == RunsClaimWhatTheySaw /\ IntactMeansUndamaged /\ AlarmsAreReal

(***************************************************************************)
(* The store's clock orders the entries as the chain does: step (d) of     *)
(* FR-30, which takes the timestamp, is under the lock as (b) to (f) are.  *)
(***************************************************************************)
TimeFollowsTheChain ==
  \A s, r \in DOMAIN table : s < r => table[s].time <= table[r].time

(***************************************************************************)
(* Every append ends, in a row or in an error: no transaction leaves the   *)
(* others waiting for the lock.                                            *)
(***************************************************************************)
EveryAppendEnds == \A a \in Appenders : (pc[a] # "idle") ~> (pc[a] = "idle")

(***************************************************************************)
(* The ledger implements the log that only grows.                          *)
(***************************************************************************)
Log ==
  INSTANCE AppendOnlyLog
    WITH log <- [s \in DOMAIN table |-> table[s].content],
         acked <- {<<row.seq, row.content>> : row \in answered}

ImplementsLog == Log!Spec

=============================================================================
