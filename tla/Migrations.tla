----------------------------- MODULE Migrations -----------------------------
(***************************************************************************)
(* The migration runners of the graph, the ledger and the ticketing store. *)
(* Each applies the files of a directory in order and keeps a record of    *)
(* the checksum of every file it applied.  The runners on Postgres apply   *)
(* and record in one transaction; the one on Neo4j needs two, and relies   *)
(* on statements that do nothing when what they create is there.  A runner *)
(* may die between any two of its steps, and two may run at once.          *)
(***************************************************************************)
EXTENDS Naturals, NoValue

CONSTANTS
  Runners,
  Files,        \* the number of migration files
  Versions,     \* contents a file has had, 1..Versions
  Stores,       \* "graph" and "sql" stores to choose from
  MaxCrashes,
  EditsAnytime  \* a file changes while a runner is at it, or after one died at it

ASSUME MigrationsAssumption ==
  /\ Files \in Nat \ {0} /\ Versions \in Nat \ {0} /\ MaxCrashes \in Nat
  /\ None \notin Nat

VARIABLES
  store,
  disk,      \* the content of each file
  schema,    \* the content of each file that was executed first
  recorded,  \* SchemaMigration nodes, rows of schema_migrations
  runner,
  crashes

migrationVars == <<store, disk, schema, recorded, runner, crashes>>

FileIds == 1..Files

Idle == [at |-> "idle", file |-> 1, content |-> None, done |-> {}]

MigrationsTypeOK ==
  /\ store \in Stores
  /\ disk \in [FileIds -> 1..Versions]
  /\ schema \in [FileIds -> (1..Versions) \cup {None}]
  /\ recorded \in [FileIds -> (1..Versions) \cup {None}]
  /\ runner \in [Runners -> [at: {"idle", "read", "look", "apply", "mark", "done", "refused"}, file: 1..(Files + 1),
                             content: (1..Versions) \cup {None}, done: SUBSET FileIds]]
  /\ crashes \in 0..MaxCrashes

MigrationsInit ==
  /\ store \in Stores
  /\ disk = [f \in FileIds |-> 1]
  /\ schema = [f \in FileIds |-> None]
  /\ recorded = [f \in FileIds |-> None]
  /\ runner = [r \in Runners |-> Idle]
  /\ crashes = 0

\* A release changes a file.
Edit(f) ==
  /\ disk[f] < Versions
  /\ EditsAnytime \/ ((\A r \in Runners : runner[r].at \in {"idle", "done", "refused"}) /\ schema[f] = recorded[f])
  /\ disk' = [disk EXCEPT ![f] = @ + 1]
  /\ UNCHANGED <<store, schema, recorded, runner, crashes>>

Stored == UNCHANGED <<store, disk, schema, recorded, crashes>>

Start(r) ==
  /\ runner[r].at \in {"idle", "done", "refused"}
  /\ runner' = [runner EXCEPT ![r] = [Idle EXCEPT !.at = "read"]]
  /\ Stored

\* The file of the runner is dealt with.
Leave(r) ==
  LET f == runner[r].file
  IN runner' = [runner EXCEPT ![r].at = IF f = Files THEN "done" ELSE "read", ![r].file = f + 1,
                              ![r].content = None, ![r].done = @ \cup {f}]

Refuse(r) == runner' = [runner EXCEPT ![r] = [Idle EXCEPT !.at = "refused"]]

ReadFile(r) ==
  /\ runner[r].at = "read"
  /\ runner' = [runner EXCEPT ![r].at = "look", ![r].content = disk[runner[r].file]]
  /\ Stored

\* A recorded file is skipped, or refused when its checksum is another.
LookUp(r) ==
  LET known == recorded[runner[r].file]
  IN /\ runner[r].at = "look"
     /\ \/ known = None /\ runner' = [runner EXCEPT ![r].at = "apply"]
        \/ known = runner[r].content /\ Leave(r)
        \/ known \notin {None, runner[r].content} /\ Refuse(r)
     /\ Stored

Executed(f, content) == IF schema[f] = None THEN [schema EXCEPT ![f] = content] ELSE schema

Mark(f, content) == IF recorded[f] = None THEN [recorded EXCEPT ![f] = content] ELSE recorded

MarkFirst(r) ==  \* mutation: the record is written before the statements
  /\ store = "graph" /\ runner[r].at = "apply"
  /\ recorded' = Mark(runner[r].file, runner[r].content)
  /\ runner' = [runner EXCEPT ![r].at = "mark"]
  /\ UNCHANGED <<store, disk, schema, crashes>>

\* Neo4j: the statements, IF NOT EXISTS each, in a transaction of their own.
ApplyStatements(r) ==
  /\ store = "graph" /\ runner[r].at = "apply"
  /\ schema' = Executed(runner[r].file, runner[r].content)
  /\ runner' = [runner EXCEPT ![r].at = "mark"]
  /\ UNCHANGED <<store, disk, recorded, crashes>>

WriteMarker(r) ==
  /\ store = "graph" /\ runner[r].at = "mark"
  /\ recorded' = Mark(runner[r].file, runner[r].content)
  /\ Leave(r)
  /\ UNCHANGED <<store, disk, schema, crashes>>

\* Postgres: file and record in one transaction; the primary key (or an object
\* that is there) makes the second of two runners fail.
ApplyAndRecord(r) ==
  LET f == runner[r].file
  IN /\ store = "sql" /\ runner[r].at = "apply"
     /\ IF recorded[f] = None
        THEN /\ schema' = Executed(f, runner[r].content)
             /\ recorded' = Mark(f, runner[r].content)
             /\ Leave(r)
        ELSE Refuse(r) /\ UNCHANGED <<schema, recorded>>
     /\ UNCHANGED <<store, disk, crashes>>

\* The process dies, or a statement fails: its transaction leaves nothing.
Crash(r) ==
  /\ runner[r].at \in {"read", "look", "apply", "mark"}
  /\ crashes < MaxCrashes
  /\ crashes' = crashes + 1
  /\ runner' = [runner EXCEPT ![r] = Idle]
  /\ UNCHANGED <<store, disk, schema, recorded>>

MigrationsNext ==
  \/ \E f \in FileIds : Edit(f)
  \/ \E r \in Runners :
       \/ Start(r) \/ ReadFile(r) \/ LookUp(r) \/ ApplyStatements(r)
       \/ WriteMarker(r) \/ ApplyAndRecord(r) \/ Crash(r)

MigrationsSpec == MigrationsInit /\ [][MigrationsNext]_migrationVars

(***************************************************************************)
(* Properties.                                                             *)
(***************************************************************************)
\* The record of a file is the checksum of the statements the schema was made
\* with, whatever crashed in between and whoever else was running.
RecordsAreTrue == \A f \in FileIds : recorded[f] # None => schema[f] = recorded[f]

\* A file is executed after every earlier one is recorded, and a run that ends
\* well has every file recorded.
FilesAreApplied ==
  /\ \A f, g \in FileIds : f < g /\ schema[g] # None => recorded[f] # None
  /\ \A r \in Runners : runner[r].at = "done" => \A f \in FileIds : recorded[f] # None /\ f \in runner[r].done

MigrationsAreRecorded == RecordsAreTrue /\ FilesAreApplied

=============================================================================
