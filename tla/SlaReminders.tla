---------------------------- MODULE SlaReminders ----------------------------
(***************************************************************************)
(* The due-soon reminders of suspended reviews: the entries that the       *)
(* suspended run index keeps, the feed that reads them and marks what it   *)
(* returns, and the polling cycles of the Slack scheduler that ask the     *)
(* feed and update one card per entry.                                     *)
(*                                                                         *)
(* The index in src/ is in memory and its calls are answered before any    *)
(* other request is looked at, so a whole feed request is one action.  Its *)
(* answer travels over HTTP and may be lost; cycles start every interval   *)
(* whether or not the one before has ended.                                *)
(***************************************************************************)
EXTENDS ReviewSurface, Naturals, Sequences, FiniteSets, SequencesExt

CONSTANTS
  Claimants,   \* reviewers who may hold a claim slot
  Cycles,      \* cycles of the scheduler that may overlap
  TickHours,   \* hours the clock moves at a time
  MaxTime      \* hour at which the clock stops

ASSUME ReminderAssumption ==
  /\ IsFiniteSet(Obligations) /\ IsFiniteSet(Claimants)
  /\ TickHours \in Nat /\ MaxTime \in Nat

VARIABLES
  hour,
  run,         \* index: the suspended run of each obligation
  claims,      \* index: claim slots of each obligation
  marks,       \* index: reminders marked as sent
  cycle,       \* per cycle: the entries it has yet to handle
  reminded,    \* reminders shown in Slack, counted
  lost         \* entries a feed returned whose reminder failed on the way

remVars == <<hour, run, claims, marks, cycle, reminded, lost>>
indexVars == <<run, claims, marks>>

SLA_DUE_SOON_WINDOW_HOURS == 4
REVIEW_SLA_HOURS_TIER_B == 24
REVIEW_SLA_HOURS_TIER_C == 12

Hours == 0..MaxTime
Runs == [step: {"none", "awaitHumanReview", "awaitSecondHumanReview", "cleared"},
         tier: {"B", "C"}, suspendedAt: Hours]
Entry == [o: Obligations, r: Claimants, slaDueAt: 0..(MaxTime + REVIEW_SLA_HOURS_TIER_B), at: Hours]

ReminderTypeOK ==
  /\ hour \in Hours
  /\ run \in [Obligations -> Runs]
  /\ claims \in [Obligations -> [maker: Claimants \cup {None}, checker: Claimants \cup {None}]]
  /\ marks \subseteq Obligations \X Claimants
  /\ cycle \in [Cycles -> [at: {"idle", "answer", "items"}, items: Seq(Entry)]]
  /\ reminded \in [Obligations \X Claimants -> 0..2]
  /\ lost \subseteq Obligations \X Claimants

NoSlots == [maker |-> None, checker |-> None]
NoCycle == [at |-> "idle", items |-> <<>>]

ReminderInit ==
  /\ hour = 0
  /\ run = [o \in Obligations |-> [step |-> "none", tier |-> "C", suspendedAt |-> 0]]
  /\ claims = [o \in Obligations |-> NoSlots]
  /\ marks = {}
  /\ cycle = [c \in Cycles |-> NoCycle]
  /\ reminded = [p \in Obligations \X Claimants |-> 0]
  /\ lost = {}

ReminderTick ==
  /\ hour + TickHours <= MaxTime
  /\ hour' = hour + TickHours
  /\ UNCHANGED <<indexVars, cycle, reminded, lost>>

(***************************************************************************)
(* The index.                                                              *)
(***************************************************************************)
Suspended(o) == run[o].step \in {"awaitHumanReview", "awaitSecondHumanReview"}

\* record: a suspension or re-suspension writes the entry anew, with its time.
Record(o, step, tier) ==
  /\ \/ step = "awaitHumanReview" /\ run[o].step = "none"
     \/ step = "awaitSecondHumanReview" /\ run[o].step = "awaitHumanReview" /\ run[o].tier = "C" /\ tier = "C"
  /\ run' = [run EXCEPT ![o] = [step |-> step, tier |-> tier, suspendedAt |-> hour]]
  /\ UNCHANGED <<hour, claims, marks, cycle, reminded, lost>>

\* claim: a reviewer takes the open slot; the index does not ask for a run.
Claim(o, r) ==
  /\ LET c == claims[o]
     IN \/ c.maker = None /\ claims' = [claims EXCEPT ![o].maker = r]
        \/ c.maker \notin {None, r} /\ c.checker = None /\ claims' = [claims EXCEPT ![o].checker = r]
  /\ Suspended(o)
  /\ UNCHANGED <<hour, run, marks, cycle, reminded, lost>>

\* clear: the run, the claims and the reminder marks of the obligation go.
Clear(o) ==
  /\ Suspended(o)
  /\ run' = [run EXCEPT ![o].step = "cleared"]
  /\ claims' = [claims EXCEPT ![o] = NoSlots]
  /\ marks' = {m \in marks : m[1] # o}
  /\ UNCHANGED <<hour, cycle, reminded, lost>>

(***************************************************************************)
(* handleSlaBreachFeedRequest.                                             *)
(***************************************************************************)
ComputeSlaDueAt(o) ==
  run[o].suspendedAt + (IF run[o].tier = "B" THEN REVIEW_SLA_HOURS_TIER_B ELSE REVIEW_SLA_HOURS_TIER_C)

ComputeFeedSlaState(due, now) ==
  CASE now >= due -> "breached"
    [] now < due /\ due - now <= SLA_DUE_SOON_WINDOW_HOURS -> "due_soon"
    [] OTHER -> "ok"

DueSoon(o) ==
  /\ Suspended(o)
  /\ run[o].tier # "B"
  /\ ComputeFeedSlaState(ComputeSlaDueAt(o), hour) = "due_soon"

DueRemindersUnmarked ==  \* mutation: the mark is not looked at
  {p \in Obligations \X Claimants : DueSoon(p[1]) /\ p[2] \in {claims[p[1]].maker, claims[p[1]].checker}}

\* The holders of the slots of due-soon runs who are not marked yet.
DueReminders ==
  {p \in Obligations \X Claimants :
     DueSoon(p[1]) /\ p[2] \in {claims[p[1]].maker, claims[p[1]].checker} /\ p \notin marks}

EntryOf(p) == [o |-> p[1], r |-> p[2], slaDueAt |-> ComputeSlaDueAt(p[1]), at |-> hour]

\* The feed marks every entry it returns before the answer is sent.
Feed(c) ==
  /\ cycle[c].at = "idle"
  /\ marks' = marks \cup DueReminders
  /\ cycle' = [cycle EXCEPT ![c] = [at |-> "answer", items |-> SetToSeq({EntryOf(p) : p \in DueReminders})]]
  /\ UNCHANGED <<hour, run, claims, reminded, lost>>

(***************************************************************************)
(* runSlaSchedulerCycle.                                                   *)
(***************************************************************************)
After(items) == IF items = <<>> THEN NoCycle ELSE [at |-> "items", items |-> items]

Answered(c) ==
  /\ cycle[c].at = "answer"
  /\ cycle' = [cycle EXCEPT ![c] = After(cycle[c].items)]
  /\ UNCHANGED <<hour, indexVars, reminded, lost>>

\* The request fails: the whole cycle is skipped, whatever the feed marked.
FeedFails(c) ==
  /\ cycle[c].at = "answer"
  /\ cycle' = [cycle EXCEPT ![c] = NoCycle]
  /\ lost' = lost \cup {<<e.o, e.r>> : e \in ToSet(cycle[c].items)}
  /\ UNCHANGED <<hour, indexVars, reminded>>

\* sendDueSoonReminder: the card of the reviewer is updated.  It is not sent
\* when the reviewer was never sent a card or a call fails; the next entry is
\* handled all the same.
Remind(c) ==
  LET e == Head(cycle[c].items)
  IN /\ cycle[c].at = "items"
     /\ cycle' = [cycle EXCEPT ![c] = After(Tail(cycle[c].items))]
     /\ \/ reminded' = [reminded EXCEPT ![<<e.o, e.r>>] = @ + 1] /\ UNCHANGED lost
        \/ lost' = lost \cup {<<e.o, e.r>>} /\ UNCHANGED reminded
     /\ UNCHANGED <<hour, indexVars>>

ReminderNext ==
  \/ ReminderTick
  \/ \E o \in Obligations, tier \in {"B", "C"} :
       \E step \in {"awaitHumanReview", "awaitSecondHumanReview"} : Record(o, step, tier)
  \/ \E o \in Obligations, r \in Claimants : Claim(o, r)
  \/ \E o \in Obligations : Clear(o)
  \/ \E c \in Cycles : Feed(c) \/ Answered(c) \/ FeedFails(c) \/ Remind(c)

ReminderSpec == ReminderInit /\ [][ReminderNext]_remVars

(***************************************************************************)
(* Properties.                                                             *)
(***************************************************************************)
\* However cycles overlap and whatever of them fails, a reviewer is reminded at
\* most once of an obligation: the mark is set before the entry leaves and goes
\* only with the run.
RemindedOnce == \A p \in Obligations \X Claimants : reminded[p] <= 1

\* And a reviewer who is marked as reminded has been reminded, or the entry is on
\* its way, or its own delivery failed: an entry is never dropped because of
\* another one.
MarksAreAccounted ==
  \A p \in marks :
    \/ reminded[p] > 0
    \/ p \in lost
    \/ \E c \in Cycles : p \in {<<e.o, e.r>> : e \in ToSet(cycle[c].items)}

RemindersAreExact == RemindedOnce /\ MarksAreAccounted

=============================================================================
