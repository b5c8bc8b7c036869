----------------------------- MODULE ExportJobs -----------------------------
(***************************************************************************)
(* Exports of the compliance register: the request that counts rows and    *)
(* either generates the file at once or starts a job in the background     *)
(* (app/api/audit/export), the job records (graph-db's ExportJobStore) and *)
(* the files beside them (export-storage), the panel that polls, the poll  *)
(* that gives up on old jobs, the download, and the clean-up of what has   *)
(* expired.  Every call of the store and of the file system ends an action.*)
(* The process may crash; the store and the files survive.                 *)
(***************************************************************************)
EXTENDS Naturals, FiniteSets

CONSTANTS
  Jobs,
  Panels,       \* browsers that poll a job and download its file
  MaxConcurrent,
  StaleAge,     \* age from which a poll gives up on a running job
  Retention,    \* age at which a job expires
  MaxAge        \* time at which the clock stops

ASSUME ExportAssumption == MaxAge \in Nat /\ "none" \notin Jobs

VARIABLES
  age,       \* the clock, in units of the stale age
  post,      \* the request that makes each job
  stored,    \* :ExportJob records
  files,     \* jobs whose file is on disk
  worker,    \* generation of each job
  panel,     \* what each panel shows and asks
  cleaner,   \* the clean-up script: files it has yet to delete
  orphaned   \* files no record will lead to: their job failed or was lost on the way

exportVars == <<age, post, stored, files, worker, panel, cleaner, orphaned>>

NoRecord == [status |-> "none", filed |-> FALSE, since |-> 0]
NoPanel == [at |-> "idle", job |-> "none", shows |-> "none"]

ExportTypeOK ==
  /\ age \in 0..MaxAge
  /\ post \in [Jobs -> {"none", "count", "create", "refused", "answered"}]
  /\ stored \in [Jobs -> [status: {"none", "queued", "running", "completed", "failed", "deleted"},
                          filed: BOOLEAN, since: 0..MaxAge]]
  /\ files \subseteq Jobs
  /\ worker \in [Jobs -> {"none", "mark_running", "generate", "generate_inline", "write", "write_inline",
                          "complete", "complete_inline", "fail", "ended"}]
  /\ panel \in [Panels -> [at: {"idle", "give_up", "read"}, job: Jobs \cup {"none"},
                           shows: {"none", "queued", "running", "completed", "failed", "file", "not_ready", "gone"}]]
  /\ cleaner \subseteq Jobs
  /\ orphaned \subseteq Jobs

ExportInit ==
  /\ age = 0
  /\ post = [j \in Jobs |-> "none"]
  /\ stored = [j \in Jobs |-> NoRecord]
  /\ files = {}
  /\ worker = [j \in Jobs |-> "none"]
  /\ panel = [p \in Panels |-> NoPanel]
  /\ cleaner = {}
  /\ orphaned = {}

Tick ==
  /\ age < MaxAge
  /\ age' = age + 1
  /\ UNCHANGED <<post, stored, files, worker, panel, cleaner, orphaned>>

Exists(j) == stored[j].status \notin {"none", "deleted"}
Active == {j \in Jobs : stored[j].status \in {"queued", "running"}}
Expired(j) == Exists(j) /\ age >= stored[j].since + Retention

(***************************************************************************)
(* POST /api/audit/export.                                                 *)
(***************************************************************************)
Created(j) == [stored EXCEPT ![j] = [NoRecord EXCEPT !.status = "queued", !.since = age]]

\* Few rows: the record is made and the request generates the file itself.
PostInline(j) ==
  /\ post[j] = "none"
  /\ post' = [post EXCEPT ![j] = "answered"]
  /\ stored' = Created(j)
  /\ worker' = [worker EXCEPT ![j] = "generate_inline"]
  /\ UNCHANGED <<age, files, panel, cleaner, orphaned>>

PostLarge(j) ==
  /\ post[j] = "none"
  /\ post' = [post EXCEPT ![j] = "count"]
  /\ UNCHANGED <<age, stored, files, worker, panel, cleaner, orphaned>>

\* The cap is looked at before the record is made.
CountActive(j) ==
  /\ post[j] = "count"
  /\ post' = [post EXCEPT ![j] = IF Cardinality(Active) >= MaxConcurrent THEN "refused" ELSE "create"]
  /\ UNCHANGED <<age, stored, files, worker, panel, cleaner, orphaned>>

CreateJob(j) ==
  /\ post[j] = "create"
  /\ post' = [post EXCEPT ![j] = "answered"]
  /\ stored' = Created(j)
  /\ worker' = [worker EXCEPT ![j] = "mark_running"]
  /\ UNCHANGED <<age, files, panel, cleaner, orphaned>>

(***************************************************************************)
(* Generation: in the background with marks before and after, or inline.   *)
(***************************************************************************)
Goes(j, to) == worker' = [worker EXCEPT ![j] = to]

\* transition: the record is changed if it is there, whatever its status.
Transition(j, to, filed) ==
  stored' = [stored EXCEPT ![j].status = IF Exists(j) THEN to ELSE @,
                           ![j].filed = IF Exists(j) THEN filed ELSE @]

MarkRunning(j) ==
  /\ worker[j] = "mark_running"
  /\ Transition(j, "running", FALSE)
  /\ Goes(j, IF Exists(j) THEN "generate" ELSE "fail")
  /\ UNCHANGED <<age, post, files, panel, cleaner, orphaned>>

\* The rows are read and the file is made; both may fail.
Generate(j) ==
  /\ worker[j] \in {"generate", "generate_inline"}
  /\ \/ Goes(j, IF worker[j] = "generate" THEN "write" ELSE "write_inline")
     \/ Goes(j, IF worker[j] = "generate" THEN "fail" ELSE "ended")
  /\ UNCHANGED <<age, post, stored, files, panel, cleaner, orphaned>>

WriteFile(j) ==
  /\ worker[j] \in {"write", "write_inline"}
  /\ files' = files \cup {j}
  /\ Goes(j, IF worker[j] = "write" THEN "complete" ELSE "complete_inline")
  /\ UNCHANGED <<age, post, stored, panel, cleaner, orphaned>>

\* A record that has expired meanwhile is not there to be completed, or the
\* call fails: in the background the job is marked failed, inline nothing is.
MarkCompleted(j) ==
  LET inline == worker[j] = "complete_inline"
  IN /\ worker[j] \in {"complete", "complete_inline"}
     /\ \/ /\ Exists(j)
           /\ Transition(j, "completed", TRUE)
           /\ Goes(j, "ended")
           /\ UNCHANGED orphaned
        \/ /\ UNCHANGED stored
           /\ Goes(j, IF inline THEN "ended" ELSE "fail")
           /\ orphaned' = orphaned \cup {j}
     /\ UNCHANGED <<age, post, files, panel, cleaner>>

\* markFailed, or its own failure, which is only logged.
MarkFailed(j) ==
  /\ worker[j] = "fail"
  /\ \/ Transition(j, "failed", stored[j].filed)
     \/ UNCHANGED stored
  /\ Goes(j, "ended")
  /\ UNCHANGED <<age, post, files, panel, cleaner, orphaned>>

\* The process ends: no generation, request or answer survives it.
Crash ==
  /\ \E j \in Jobs : worker[j] \notin {"none", "ended"}
  /\ worker' = [j \in Jobs |-> IF worker[j] = "none" THEN "none" ELSE "ended"]
  /\ post' = [j \in Jobs |-> IF post[j] \in {"count", "create"} THEN "refused" ELSE post[j]]
  /\ panel' = [p \in Panels |-> [panel[p] EXCEPT !.at = "idle"]]
  /\ orphaned' = orphaned \cup {j \in Jobs : worker[j] \in {"complete", "complete_inline"}}
  /\ UNCHANGED <<age, stored, files, cleaner>>

(***************************************************************************)
(* The panel: GET /api/audit/export/:exportId and its download.            *)
(***************************************************************************)
Terminal(shows) == shows \in {"completed", "failed"}

\* Polls stop at a terminal status.  A job that has been running for long is
\* marked failed by a second call.
Poll(p, j) ==
  /\ panel[p].at = "idle"
  /\ panel[p].job \in {"none", j} /\ ~Terminal(panel[p].shows) /\ panel[p].shows # "file"
  /\ post[j] = "answered"
  /\ panel' = [panel EXCEPT ![p] =
       IF stored[j].status = "running" /\ age > stored[j].since + StaleAge
       THEN [at |-> "give_up", job |-> j, shows |-> @.shows]
       ELSE [at |-> "idle", job |-> j, shows |-> IF Exists(j) THEN stored[j].status ELSE "gone"]]
  /\ UNCHANGED <<age, post, stored, files, worker, cleaner, orphaned>>

GiveUp(p) ==
  LET j == panel[p].job
  IN /\ panel[p].at = "give_up"
     /\ Transition(j, "failed", stored[j].filed)
     /\ panel' = [panel EXCEPT ![p].at = "idle", ![p].shows = IF Exists(j) THEN "failed" ELSE "gone"]
     /\ UNCHANGED <<age, post, files, worker, cleaner, orphaned>>

\* The download is for a job that is completed and has not expired.
Ready(j) == Exists(j) /\ ~Expired(j) /\ stored[j].status = "completed" /\ stored[j].filed

Download(p) ==
  LET j == panel[p].job
  IN /\ panel[p].at = "idle" /\ j # "none"
     /\ panel' = [panel EXCEPT ![p].at = IF Ready(j) THEN "read" ELSE "idle",
                               ![p].shows = IF Ready(j) THEN @ ELSE "not_ready"]
     /\ UNCHANGED <<age, post, stored, files, worker, cleaner, orphaned>>

\* A file that is gone by then is an error.
ReadFile(p) ==
  LET j == panel[p].job
  IN /\ panel[p].at = "read"
     /\ panel' = [panel EXCEPT ![p].at = "idle", ![p].shows = IF j \in files THEN "file" ELSE "gone"]
     /\ UNCHANGED <<age, post, stored, files, worker, cleaner, orphaned>>

(***************************************************************************)
(* cleanupExpiredExports: the records first, then their files.             *)
(***************************************************************************)
FilesOfCompleted(expired) == {j \in expired : stored[j].status = "completed" /\ stored[j].filed}  \* mutation: files of failed jobs stay

FilesOf(expired) == {j \in expired : stored[j].filed}

DeleteExpired ==
  LET expired == {j \in Jobs : Expired(j)}
  IN /\ cleaner = {}
     /\ expired # {}
     /\ stored' = [j \in Jobs |-> IF j \in expired THEN [stored[j] EXCEPT !.status = "deleted"] ELSE stored[j]]
     /\ cleaner' = FilesOf(expired)
     /\ UNCHANGED <<age, post, files, worker, panel, orphaned>>

Deletable(j) == j \in cleaner

\* A file that cannot be deleted is counted and left.
DeleteFile(j) ==
  /\ Deletable(j)
  /\ cleaner' = cleaner \ {j}
  /\ \/ files' = files \ {j} /\ UNCHANGED orphaned
     \/ UNCHANGED files /\ orphaned' = orphaned \cup {j}
  /\ UNCHANGED <<age, post, stored, worker, panel>>

ExportNext ==
  \/ Tick
  \/ \E j \in Jobs :
       \/ PostInline(j) \/ PostLarge(j) \/ CountActive(j) \/ CreateJob(j)
       \/ MarkRunning(j) \/ Generate(j) \/ WriteFile(j) \/ MarkCompleted(j) \/ MarkFailed(j)
       \/ DeleteFile(j)
  \/ \E p \in Panels : (\E j \in Jobs : Poll(p, j)) \/ GiveUp(p) \/ Download(p) \/ ReadFile(p)
  \/ Crash \/ DeleteExpired

ExportSpec == ExportInit /\ [][ExportNext]_exportVars

(***************************************************************************)
(* Properties.                                                             *)
(***************************************************************************)
\* A job that the store calls completed has its file: the file is written before
\* the mark and deleted after the record, whatever crashes in between.
CompletedHasFile == \A j \in Jobs : stored[j].status = "completed" => j \in files

\* A file stays on disk beyond its record only if its generation failed or
\* crashed between the file and the mark, or the deletion itself failed.
FilesAreAccounted ==
  \A j \in files :
    \/ Exists(j)
    \/ j \in cleaner \cup orphaned
    \/ worker[j] \in {"complete", "complete_inline"}

\* A panel shows a file only of a job whose generation got to its end.
DownloadsAreWhole ==
  \A p \in Panels : panel[p].shows = "file" =>
    worker[panel[p].job] \in {"ended", "fail"} /\ stored[panel[p].job].filed

FilesMatchRecords == CompletedHasFile /\ FilesAreAccounted /\ DownloadsAreWhole

=============================================================================
