----------------------------- MODULE SlaMonitor -----------------------------
(***************************************************************************)
(* The monitoring half of monitoring-and-audit.agent.ts: the SLA scan over *)
(* the live process tasks, the ingestion of evidence files, and the sweep  *)
(* that gives an artifact its ledger entry when the one of its upload      *)
(* failed.  Every await of the code ends an action here: a scan works on   *)
(* the rows and the reference date it started with, and looks at the       *)
(* ledger one step before it appends; nothing keeps scans from overlapping,*)
(* and an append whose answer is lost is made again.                       *)
(*                                                                         *)
(* Time is counted in hours; every task is valid from hour 0.  Contents of *)
(* files are members of a set, so equal contents have equal digests.       *)
(***************************************************************************)
EXTENDS Integers, Sequences, FiniteSets, SequencesExt, NoValue

CONSTANTS
  Tasks,      \* live process tasks
  SlaHours,   \* SlaHours[t]: the sla_hours of task t, 0 and less allowed
  Contents,      \* contents of uploaded files
  Uploads,    \* calls of ingestEvidenceArtifact, each made once
  Scanners,   \* overlapping runs of scanForSlaGaps
  MaxLost,    \* attempts of one append that take effect unanswered
  MaxTime,    \* the clock stops at this hour
  Lookback    \* hours the sweep looks back

ASSUME SlaAssumption ==
  /\ SlaHours \in [Tasks -> Int] /\ MaxTime \in Nat /\ MaxLost \in Nat /\ Lookback \in Int
  /\ None \notin Tasks \cup Uploads
  /\ None \notin {"SLA_APPROACHING", "SLA_BREACHED", "ingested", "duplicate", "hash_mismatch", "error"}

VARIABLES
  now,
  artifacts,  \* graph: EvidenceArtifact nodes, by the upload that made them
  entries,    \* ledger entries of this unit, in the order of their numbers
  scan,       \* per scanner
  upload,     \* per upload call
  sweep       \* reconcileLedgerGaps

slaVars == <<now, artifacts, entries, scan, upload, sweep>>

SlaEvents == {"SLA_APPROACHING", "SLA_BREACHED"}

Artifact == [id: Uploads, task: Tasks, file: Contents, uploadedAt: 0..MaxTime, recordedAt: 0..MaxTime]
\* 'by' is who wrote it; 'since' is auxiliary: the number of the last SLA entry
\* when the scan that wrote this one began.
Entry == [event: SlaEvents \cup {"EVIDENCE_HASH_MISMATCH", "EVIDENCE_ARTIFACT_INGESTED"},
          task: Tasks, artifact: Uploads \cup {None}, by: Uploads \cup Scanners \cup {"sweep"},
          date: (0..MaxTime) \cup {None}, since: Nat]

SlaTypeOK ==
  /\ now \in 0..MaxTime
  /\ artifacts \subseteq Artifact
  /\ entries \in Seq(Entry)
  /\ scan \in [Scanners -> [at: {"idle", "rows", "append"}, date: 0..MaxTime, rows: SUBSET Artifact,
                            todo: SUBSET Tasks, task: Tasks \cup {None}, event: SlaEvents \cup {None},
                            since: Nat, lost: 0..MaxLost]]
  /\ upload \in [Uploads -> [at: {"new", "mismatch", "lookup", "duplicate", "write", "record", "ended"},
                             task: Tasks \cup {None}, file: Contents \cup {None},
                             uploadedAt: 0..MaxTime, artifact: Uploads \cup {None},
                             answer: {None, "ingested", "duplicate", "hash_mismatch", "error"}]]
  /\ sweep \in [at: {"idle", "rows", "append", "done"}, read: SUBSET Artifact, todo: SUBSET Artifact, task: Tasks \cup {None},
                artifact: Uploads \cup {None}]

NoScan == [at |-> "idle", date |-> 0, rows |-> {}, todo |-> {}, task |-> None, event |-> None,
           since |-> 0, lost |-> 0]
NoUpload == [at |-> "new", task |-> None, file |-> None, uploadedAt |-> 0, artifact |-> None, answer |-> None]
NoSweep == [at |-> "idle", read |-> {}, todo |-> {}, task |-> None, artifact |-> None]

SlaInit ==
  /\ now = 0
  /\ artifacts = {}
  /\ entries = <<>>
  /\ scan = [s \in Scanners |-> NoScan]
  /\ upload = [u \in Uploads |-> NoUpload]
  /\ sweep = NoSweep

SlaTick == now < MaxTime /\ now' = now + 1 /\ UNCHANGED <<artifacts, entries, scan, upload, sweep>>

(***************************************************************************)
(* Classification.                                                         *)
(***************************************************************************)
Deadline(t) == SlaHours[t]

\* elapsed / sla_hours >= 0.8, without the division.
NearDeadline(t, date) == 10 * date >= 8 * SlaHours[t]

ClassifySlaStatus(t, held, date) ==
  CASE SlaHours[t] <= 0 -> IF held # {} THEN "fulfilled_late" ELSE "breached_unfulfilled"
    [] SlaHours[t] > 0 /\ held # {} ->
         IF \E a \in held : a.uploadedAt <= Deadline(t) THEN "fulfilled_on_time" ELSE "fulfilled_late"
    [] SlaHours[t] > 0 /\ held = {} /\ date > Deadline(t) -> "breached_unfulfilled"
    [] SlaHours[t] > 0 /\ held = {} /\ date <= Deadline(t) ->
         IF NearDeadline(t, date) THEN "approaching" ELSE "on_track"

SlaEventOf(status) ==
  CASE status = "approaching" -> "SLA_APPROACHING"
    [] status = "breached_unfulfilled" -> "SLA_BREACHED"
    [] OTHER -> None

(***************************************************************************)
(* scanForSlaGaps.                                                         *)
(***************************************************************************)
Append1(e) == entries' = Append(entries, e)

LatestEvent(t) ==  \* mutation: entries of every kind count
  LET own == {i \in DOMAIN entries : entries[i].task = t} IN IF own = {} THEN None ELSE entries[Max(own)].event

\* The numbers of the SLA entries of a task.
SlaEntriesOf(t) == {i \in DOMAIN entries : entries[i].task = t /\ entries[i].event \in SlaEvents}

\* The event of the last of them, or None.
LatestSlaEvent(t) == IF SlaEntriesOf(t) = {} THEN None ELSE entries[Max(SlaEntriesOf(t))].event

\* The number of the last of any task, or 0.
LastSlaEntry ==
  LET all == {i \in DOMAIN entries : entries[i].event \in SlaEvents} IN IF all = {} THEN 0 ELSE Max(all)

Scanning == UNCHANGED <<now, artifacts, upload, sweep>>

\* One query reads every live task with its evidence.
ReadRows(s) ==
  /\ scan[s].at = "idle"
  /\ scan' = [scan EXCEPT ![s] = [NoScan EXCEPT !.at = "rows", !.date = now, !.rows = artifacts, !.todo = Tasks,
                                                     !.since = LastSlaEntry]]
  /\ UNCHANGED entries /\ Scanning

\* Row t is done; the scan ends with its last row.
LeaveRow(s, t) ==
  LET rest == scan[s].todo \ {t}
  IN scan' = [scan EXCEPT ![s] = IF rest = {} THEN NoScan
                                 ELSE [@ EXCEPT !.at = "rows", !.todo = rest, !.task = None, !.event = None, !.lost = 0]]

\* What there is to report of a row.
RowEvent(s, t) == SlaEventOf(ClassifySlaStatus(t, {a \in scan[s].rows : a.task = t}, scan[s].date))

ClassifyRow(s, t) ==
  /\ scan[s].at = "rows"
  /\ t \in scan[s].todo
  /\ IF RowEvent(s, t) = None \/ LatestSlaEvent(t) = RowEvent(s, t)
     THEN LeaveRow(s, t)
     ELSE scan' = [scan EXCEPT ![s].at = "append", ![s].task = t, ![s].event = RowEvent(s, t)]
  /\ UNCHANGED entries /\ Scanning

Transition(s) ==
  [event |-> scan[s].event, task |-> scan[s].task, artifact |-> None, by |-> s, date |-> scan[s].date, since |-> scan[s].since]

AppendTransition(s) ==
  /\ scan[s].at = "append"
  /\ Append1(Transition(s))
  /\ LeaveRow(s, scan[s].task)
  /\ Scanning

\* An attempt of appendLedgerEntry takes effect and its answer is lost; the
\* next attempt appends the entry once more, or the call fails.
AppendUnanswered(s) ==
  /\ scan[s].at = "append" /\ scan[s].lost < MaxLost
  /\ Append1(Transition(s))
  /\ scan' = [scan EXCEPT ![s].lost = @ + 1]
  /\ Scanning

\* The look at the ledger or every attempt of the append fails: the error leaves
\* the loop, the other rows wait for the next scan.
ScanFails(s) ==
  /\ \/ scan[s].at = "append"
     \/ scan[s].at = "rows" /\ \E t \in scan[s].todo : RowEvent(s, t) # None
  /\ scan' = [scan EXCEPT ![s] = NoScan]
  /\ UNCHANGED entries /\ Scanning

(***************************************************************************)
(* ingestEvidenceArtifact.                                                 *)
(***************************************************************************)
Uploading == UNCHANGED <<now, scan, sweep>>

\* The task exists (an unknown one ends the call before it changes anything);
\* the digest of the file is compared with the one the caller claims.
Submit(u, t, f, date, claimHolds) ==
  /\ upload[u].at = "new"
  /\ upload' = [upload EXCEPT ![u] = [NoUpload EXCEPT !.at = IF claimHolds THEN "lookup" ELSE "mismatch",
                                                      !.task = t, !.file = f, !.uploadedAt = date]]
  /\ UNCHANGED <<artifacts, entries>> /\ Uploading

\* LIMIT 1: any artifact of the task with the same digest.
LookUpDuplicate(u) ==
  LET same == {a \in artifacts : a.task = upload[u].task /\ a.file = upload[u].file}
  IN /\ upload[u].at = "lookup"
     /\ \/ /\ same = {}
           /\ upload' = [upload EXCEPT ![u].at = "write"]
        \/ \E a \in same : upload' = [upload EXCEPT ![u].at = "duplicate", ![u].artifact = a.id]
     /\ UNCHANGED <<artifacts, entries>> /\ Uploading

WriteArtifact(u) ==
  /\ upload[u].at = "write"
  /\ artifacts' = artifacts \cup {[id |-> u, task |-> upload[u].task, file |-> upload[u].file,
                                   uploadedAt |-> upload[u].uploadedAt, recordedAt |-> now]}
  /\ upload' = [upload EXCEPT ![u].at = "record", ![u].artifact = u]
  /\ UNCHANGED entries /\ Uploading

End(u, answer) == upload' = [upload EXCEPT ![u].at = "ended", ![u].answer = answer, ![u].uploadedAt = 0]

IngestedEntry(t, a, by) ==
  [event |-> "EVIDENCE_ARTIFACT_INGESTED", task |-> t, artifact |-> a, by |-> by, date |-> None, since |-> 0]

AppendIngested(u) ==
  /\ upload[u].at \in {"record", "duplicate"}
  /\ Append1(IngestedEntry(upload[u].task, upload[u].artifact, u))
  /\ End(u, IF upload[u].at = "record" THEN "ingested" ELSE "duplicate")
  /\ UNCHANGED artifacts /\ Uploading

AppendMismatch(u) ==
  /\ upload[u].at = "mismatch"
  /\ Append1([event |-> "EVIDENCE_HASH_MISMATCH", task |-> upload[u].task, artifact |-> None, by |-> u, date |-> None, since |-> 0])
  /\ End(u, "hash_mismatch")
  /\ UNCHANGED artifacts /\ Uploading

\* A query, the graph write or every attempt of the append fails.
UploadFails(u) ==
  /\ upload[u].at \notin {"new", "ended"}
  /\ End(u, "error")
  /\ UNCHANGED <<artifacts, entries>> /\ Uploading

(***************************************************************************)
(* reconcileLedgerGaps, the evidence half.                                 *)
(***************************************************************************)
Sweeping == UNCHANGED <<now, artifacts, scan, upload>>

RecordedForTask(id) ==  \* mutation: any entry of the task will do
  \E i \in DOMAIN entries : entries[i].event = "EVIDENCE_ARTIFACT_INGESTED" /\ \E a \in artifacts : a.id = id /\ a.task = entries[i].task

Recorded(id) == \E i \in DOMAIN entries : entries[i].event = "EVIDENCE_ARTIFACT_INGESTED" /\ entries[i].artifact = id

ReadArtifacts ==
  LET recent == {a \in artifacts : a.recordedAt >= now - Lookback}
  IN /\ sweep.at \in {"idle", "done"}
     /\ recent # {}
     /\ sweep' = [NoSweep EXCEPT !.at = "rows", !.read = recent, !.todo = recent]
     /\ UNCHANGED entries /\ Sweeping

SweepLeaves(a) ==
  LET rest == {b \in sweep.todo : b.id # a}
  IN sweep' = [sweep EXCEPT !.at = IF rest = {} THEN "done" ELSE "rows", !.todo = rest,
                              !.task = None, !.artifact = None]

CheckArtifact(a) ==
  /\ sweep.at = "rows"
  /\ a \in sweep.todo
  /\ IF Recorded(a.id) THEN SweepLeaves(a.id)
     ELSE sweep' = [sweep EXCEPT !.at = "append", !.task = a.task, !.artifact = a.id]
  /\ UNCHANGED entries /\ Sweeping

BackfillArtifact ==
  /\ sweep.at = "append"
  /\ Append1(IngestedEntry(sweep.task, sweep.artifact, "sweep"))
  /\ SweepLeaves(sweep.artifact)
  /\ Sweeping

\* A query or the append fails: the sweep ends where it is.
SweepFails ==
  /\ sweep.at \in {"rows", "append"}
  /\ sweep' = NoSweep
  /\ UNCHANGED entries /\ Sweeping

(***************************************************************************)
(* Specification.                                                          *)
(***************************************************************************)
UploadStep(u) ==
  \/ \E t \in Tasks, f \in Contents, date \in {0, now}, claimHolds \in BOOLEAN : Submit(u, t, f, date, claimHolds)
  \/ LookUpDuplicate(u)
  \/ WriteArtifact(u)
  \/ AppendIngested(u)
  \/ AppendMismatch(u)
  \/ UploadFails(u)

ScanStep(s) ==
  \/ ReadRows(s)
  \/ \E t \in Tasks : ClassifyRow(s, t)
  \/ AppendTransition(s)
  \/ AppendUnanswered(s)
  \/ ScanFails(s)

SweepStep == ReadArtifacts \/ (\E a \in sweep.todo : CheckArtifact(a)) \/ BackfillArtifact

SlaNext ==
  \/ SlaTick
  \/ \E s \in Scanners : ScanStep(s)
  \/ \E u \in Uploads : UploadStep(u)
  \/ SweepStep
  \/ SweepFails

SlaSpec == SlaInit /\ [][SlaNext]_slaVars

(***************************************************************************)
(* Properties.                                                             *)
(***************************************************************************)
\* The neighbours among the SLA entries of a task.
Follows(t, i, j) == i < j /\ ~\E k \in SlaEntriesOf(t) : i < k /\ k < j

\* From one SLA entry of a task to the next there is only the step from
\* approaching to breached: no event repeats the last and none leads back.  The
\* two exceptions are the code's: an append whose answer was lost is made again,
\* and the earlier entry is another scan's, written since the later scan began.
SlaEntriesGoForward ==
  \A t \in Tasks : \A i, j \in SlaEntriesOf(t) : Follows(t, i, j) =>
    \/ entries[i].event = "SLA_APPROACHING" /\ entries[j].event = "SLA_BREACHED"
    \/ entries[i] = entries[j]
    \/ entries[i].by # entries[j].by /\ i > entries[j].since

\* A breach is only recorded of a task past its deadline for which no evidence
\* was in the graph when the scan that reports it began.
BreachesAreTrue ==
  \A i \in DOMAIN entries : entries[i].event = "SLA_BREACHED" =>
    /\ entries[i].date > Deadline(entries[i].task) \/ SlaHours[entries[i].task] <= 0
    /\ \A a \in artifacts : a.task = entries[i].task => a.recordedAt >= entries[i].date

\* The ledger never speaks of an artifact the graph does not hold, for the
\* task it holds it for: the graph is written first.
IngestedEntriesNameArtifacts ==
  \A i \in DOMAIN entries : entries[i].event = "EVIDENCE_ARTIFACT_INGESTED" =>
    \E a \in artifacts : a.id = entries[i].artifact /\ a.task = entries[i].task

\* An upload that is answered 'ingested' or 'duplicate' has its file in the
\* graph, under its task, and an entry of its own in the ledger; one whose
\* claimed digest is wrong is never stored.
AnswersAreKept ==
  \A u \in Uploads :
    /\ upload[u].answer \in {"ingested", "duplicate"} =>
         /\ \E a \in artifacts : a.task = upload[u].task /\ a.file = upload[u].file
         /\ \E i \in DOMAIN entries : entries[i].by = u /\ entries[i].artifact = upload[u].artifact
    /\ upload[u].answer = "hash_mismatch" => ~\E a \in artifacts : a.id = u

\* A sweep that runs to its end leaves none of the artifacts it read without an
\* entry, whatever uploads, scans and failures happened beside it.
SweepsLeaveNoGap ==
  sweep.at = "done" => \A a \in sweep.read :
    \E i \in DOMAIN entries : entries[i].event = "EVIDENCE_ARTIFACT_INGESTED" /\ entries[i].artifact = a.id

SlaEntriesAreTrue == SlaEntriesGoForward /\ BreachesAreTrue

EvidenceIsRecorded == IngestedEntriesNameArtifacts /\ AnswersAreKept /\ SweepsLeaveNoGap

\* However scans, uploads and the sweep overlap and whatever fails, the SLA entries
\* of a task go forward but for the repeats named above, its breaches are real,
\* and evidence in the graph and in the ledger agree.
MonitoringIsTrue == SlaEntriesAreTrue /\ EvidenceIsRecorded

=============================================================================
