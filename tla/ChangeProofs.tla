---------------------------- MODULE ChangeProofs ----------------------------
(***************************************************************************)
(* Theorems about what is changed.  The record a migration runner keeps is *)
(* true, for any number of runners, files, versions and crashes, in either *)
(* kind of store, as long as nobody edits a file under a runner or between *)
(* its execution and its record.  And the proposal the change-and-delta    *)
(* agent makes of an amendment gives each obligation of the circular it    *)
(* amends one fate, for a cause, and drops none: for any events, clauses,  *)
(* obligations, answers of the model and closures meanwhile.               *)
(***************************************************************************)
EXTENDS Migrations, ChangeAndDelta, FiniteSetTheorems, SequenceTheorems, NaturalsInduction, WellFoundedInduction, TLAPS

-----------------------------------------------------------------------------
(***************************************************************************)
(* Migrations: what a runner knows of its file and of the record.          *)
(***************************************************************************)
Working == {"read", "look", "apply", "mark"}

RunnerType ==
  [at: {"idle", "done", "refused"} \cup Working, file: 1..(Files + 1),
   content: (1..Versions) \cup {None}, done: SUBSET FileIds]

\* A runner is at a file whose predecessors are recorded, with its content.
Progress(r) ==
  LET m == runner[r]
  IN /\ m.at \in Working => m.file \in FileIds
     /\ m.at = "done" => m.file = Files + 1
     /\ m.at \in Working \cup {"done"} =>
          m.done = 1..(m.file - 1) /\ \A f \in m.done : recorded[f] # None
     /\ m.at \in {"look", "apply", "mark"} => m.content = disk[m.file]
     /\ m.at = "mark" => schema[m.file] # None

\* What was executed and is not recorded yet is still what the file says.
UnrecordedIsCurrent ==
  \A f \in FileIds : schema[f] # None /\ recorded[f] = None => schema[f] = disk[f]

InOrder == \A f, g \in FileIds : f < g /\ schema[g] # None => recorded[f] # None

MigrationsInv ==
  /\ MigrationsTypeOK
  /\ RecordsAreTrue
  /\ InOrder
  /\ UnrecordedIsCurrent
  /\ \A r \in Runners : Progress(r)

LEMMA InitMigrations == ASSUME ~EditsAnytime, MigrationsInit PROVE MigrationsInv
<1>1. MigrationsTypeOK
  BY MigrationsAssumption DEF MigrationsInit, MigrationsTypeOK, Idle, FileIds
<1>2. RecordsAreTrue /\ InOrder /\ UnrecordedIsCurrent
  BY DEF MigrationsInit, RecordsAreTrue, InOrder, UnrecordedIsCurrent
<1>3. \A r \in Runners : Progress(r)
  BY DEF MigrationsInit, Progress, Idle, Working
<1> QED  BY <1>1, <1>2, <1>3 DEF MigrationsInv

\* A release changes a file while no runner is at work.
LEMMA EditStep ==
  ASSUME ~EditsAnytime, MigrationsInv, NEW f \in FileIds, Edit(f)
  PROVE  MigrationsInv'
<1>1. MigrationsTypeOK'
  BY MigrationsAssumption DEF MigrationsInv, MigrationsTypeOK, Edit
<1>2. RecordsAreTrue' /\ InOrder'
  BY DEF MigrationsInv, Edit, RecordsAreTrue, InOrder
<1>3. UnrecordedIsCurrent'
  BY MigrationsAssumption DEF MigrationsInv, MigrationsTypeOK, Edit, UnrecordedIsCurrent
<1>4. ASSUME NEW r \in Runners PROVE Progress(r)'
  BY <1>4, MigrationsAssumption DEF MigrationsInv, Edit, Progress, Working
<1> QED  BY <1>1, <1>2, <1>3, <1>4 DEF MigrationsInv

-----------------------------------------------------------------------------
(* What one runner does.                                                   *)

\* The stores keep what they have, and gain what the runner's file says.
StoresGrow(f) ==
  /\ UNCHANGED <<store, disk>>
  /\ schema' \in {schema, Executed(f, disk[f])}
  /\ recorded' \in {recorded, Mark(f, disk[f])}
  /\ recorded' # recorded => schema'[f] # None

LEMMA StoresSound ==
  ASSUME ~EditsAnytime, MigrationsInv, NEW f \in FileIds, StoresGrow(f),
         \A g \in 1..(f - 1) : recorded[g] # None,
         crashes' \in 0..MaxCrashes,
         NEW r \in Runners, NEW m \in RunnerType,
         runner' = [runner EXCEPT ![r] = m],
         Progress(r)'
  PROVE  MigrationsInv'
<1>1. /\ schema \in [FileIds -> (1..Versions) \cup {None}]
      /\ recorded \in [FileIds -> (1..Versions) \cup {None}]
      /\ disk \in [FileIds -> 1..Versions]
      /\ None \notin 1..Versions
  BY MigrationsAssumption DEF MigrationsInv, MigrationsTypeOK
<1>2. MigrationsTypeOK'
  BY <1>1, MigrationsAssumption DEF MigrationsInv, MigrationsTypeOK, StoresGrow, Executed, Mark, Working, RunnerType
<1>3. \A g \in FileIds : (schema[g] # None => schema'[g] = schema[g])
                         /\ (recorded[g] # None => recorded'[g] = recorded[g])
                         /\ (g # f => schema'[g] = schema[g] /\ recorded'[g] = recorded[g])
  BY <1>1 DEF StoresGrow, Executed, Mark
<1>4. /\ schema[f] = None => schema'[f] \in {None, disk[f]}
      /\ recorded[f] = None => recorded'[f] \in {None, disk[f]}
      /\ recorded[f] = None /\ recorded'[f] # None => schema'[f] # None
  BY <1>1 DEF StoresGrow, Executed, Mark
<1>5. RecordsAreTrue'
  BY <1>1, <1>3, <1>4 DEF MigrationsInv, RecordsAreTrue, UnrecordedIsCurrent
<1>6. InOrder'
  <2> SUFFICES ASSUME NEW g \in FileIds, NEW h \in FileIds, g < h, schema'[h] # None
               PROVE  recorded'[g] # None
    BY DEF InOrder
  <2>1. CASE schema[h] # None
    BY <1>3, <2>1 DEF MigrationsInv, InOrder
  <2>2. CASE schema[h] = None
    <3>1. h = f /\ g \in 1..(f - 1)
      BY <1>3, <2>2 DEF FileIds
    <3> QED  BY <1>3, <3>1
  <2> QED  BY <2>1, <2>2
<1>7. UnrecordedIsCurrent'
  BY <1>1, <1>3, <1>4 DEF MigrationsInv, UnrecordedIsCurrent, StoresGrow
<1>8. ASSUME NEW s \in Runners, s # r PROVE Progress(s)'
  <2>1. runner'[s] = runner[s] /\ disk' = disk
    BY <1>8 DEF MigrationsInv, MigrationsTypeOK, StoresGrow
  <2>2. runner[s].done \subseteq FileIds
    BY DEF MigrationsInv, MigrationsTypeOK
  <2> QED  BY <1>3, <2>1, <2>2 DEF MigrationsInv, Progress, Working
<1> QED  BY <1>2, <1>5, <1>6, <1>7, <1>8 DEF MigrationsInv

\* What a runner is, and that it may leave its file once that is recorded.
LEMMA RunnerFacts ==
  ASSUME ~EditsAnytime, MigrationsInv, NEW r \in Runners, runner[r].at \in Working
  PROVE  /\ runner[r].file \in FileIds /\ runner[r].file \in Nat
         /\ runner[r].done = 1..(runner[r].file - 1)
         /\ \A g \in 1..(runner[r].file - 1) : recorded[g] # None
         /\ runner[r] \in RunnerType
         /\ disk[runner[r].file] \in 1..Versions /\ disk[runner[r].file] # None
         /\ runner[r].at # "read" => runner[r].content = disk[runner[r].file]
         /\ crashes \in 0..MaxCrashes
BY MigrationsAssumption DEF MigrationsInv, MigrationsTypeOK, Progress, Working, RunnerType, FileIds

LEMMA NothingGrows ==
  ASSUME NEW f, UNCHANGED <<store, disk, schema, recorded>> PROVE StoresGrow(f)
BY DEF StoresGrow

\* The step of a runner to m, at a file whose predecessors are recorded.
LEMMA GoTo ==
  ASSUME ~EditsAnytime, MigrationsInv, NEW r \in Runners, NEW f \in FileIds, StoresGrow(f),
         \A g \in 1..(f - 1) : recorded[g] # None,
         crashes' \in 0..MaxCrashes,
         NEW m \in RunnerType, runner' = [runner EXCEPT ![r] = m],
         m.at \in Working => m.file \in FileIds,
         m.at = "done" => m.file = Files + 1,
         m.at \in Working \cup {"done"} => m.done = 1..(m.file - 1),
         \A g \in m.done : recorded'[g] # None,
         m.at \in {"look", "apply", "mark"} => m.content = disk[m.file],
         m.at = "mark" => schema'[m.file] # None
  PROVE  MigrationsInv'
<1>1. runner'[r] = m /\ disk' = disk
  BY DEF MigrationsInv, MigrationsTypeOK, StoresGrow
<1>2. Progress(r)'
  BY <1>1 DEF Progress
<1> QED  BY <1>2, StoresSound

LEMMA RecordsStay ==
  ASSUME MigrationsInv, NEW f, StoresGrow(f), NEW g \in FileIds, recorded[g] # None
  PROVE  recorded'[g] # None
BY DEF MigrationsInv, MigrationsTypeOK, StoresGrow, Mark

LEMMA LeaveStep ==
  ASSUME ~EditsAnytime, MigrationsInv, NEW r \in Runners, runner[r].at \in Working,
         StoresGrow(runner[r].file), recorded'[runner[r].file] # None,
         Leave(r), UNCHANGED crashes
  PROVE  MigrationsInv'
<1> DEFINE f == runner[r].file
           m == [runner[r] EXCEPT !.at = IF f = Files THEN "done" ELSE "read", !.file = f + 1,
                                  !.content = None, !.done = @ \cup {f}]
<1>1. runner' = [runner EXCEPT ![r] = m]
  BY DEF Leave, MigrationsInv, MigrationsTypeOK
<1>2. /\ Files \in Nat /\ f \in Nat /\ 1 <= f /\ f <= Files /\ f \in FileIds
      /\ runner[r] \in RunnerType /\ runner[r].done = 1..(f - 1)
      /\ StoresGrow(f) /\ recorded'[f] # None /\ crashes' \in 0..MaxCrashes
      /\ \A g \in 1..(f - 1) : recorded[g] # None
  BY RunnerFacts, MigrationsAssumption DEF FileIds
<1> HIDE DEF f
<1>3. /\ m.at = (IF f = Files THEN "done" ELSE "read") /\ m.file = f + 1
      /\ m.done = runner[r].done \cup {f} /\ m \in RunnerType
  <2>1. /\ (IF f = Files THEN "done" ELSE "read") \in {"idle", "done", "refused"} \cup Working
        /\ f + 1 \in 1..(Files + 1)
    BY <1>2 DEF Working
  <2>2. runner[r].done \cup {f} \in SUBSET FileIds
    BY <1>2 DEF RunnerType
  <2> QED  BY <1>2, <2>1, <2>2 DEF RunnerType
<1> HIDE DEF m
<1>4. m.done = 1..f /\ m.file - 1 = f
  <2>1. (1..(f - 1)) \cup {f} = 1..f
    BY <1>2
  <2> QED  BY <1>2, <1>3, <2>1
<1>5. \A g \in m.done : recorded'[g] # None
  <2> SUFFICES ASSUME NEW g \in 1..f PROVE recorded'[g] # None
    BY <1>4
  <2>1. g = f \/ (g \in 1..(f - 1) /\ g \in FileIds)
    BY <1>2 DEF FileIds
  <2> QED  BY <1>2, <2>1, RecordsStay
<1>6. m.at \in {"read", "done"} /\ (m.at = "read" => m.file \in FileIds)
      /\ (m.at = "done" => m.file = Files + 1)
  BY <1>2, <1>3 DEF FileIds
<1>7. /\ m.at \in Working => m.file \in FileIds
      /\ m.at \notin {"look", "apply", "mark"}
  BY <1>6 DEF Working
<1> QED  BY <1>1, <1>2, <1>3, <1>4, <1>5, <1>6, <1>7, GoTo

LEMMA MoveStep ==
  ASSUME ~EditsAnytime, MigrationsInv, NEW r \in Runners, runner[r].at \in Working,
         StoresGrow(runner[r].file), UNCHANGED crashes,
         NEW m, m \in RunnerType, runner' = [runner EXCEPT ![r] = m],
         m.at \in {"look", "apply", "mark"},
         m.file = runner[r].file, m.done = runner[r].done, m.content = disk[runner[r].file],
         m.at = "mark" => schema'[runner[r].file] # None
  PROVE  MigrationsInv'
<1>1. PICK f : f = runner[r].file
  OBVIOUS
<1>2. /\ f \in FileIds /\ m.done = 1..(f - 1) /\ crashes' \in 0..MaxCrashes /\ StoresGrow(f)
      /\ \A g \in 1..(f - 1) : g \in FileIds /\ recorded[g] # None
  BY <1>1, RunnerFacts, MigrationsAssumption DEF FileIds
<1>3. \A g \in m.done : recorded'[g] # None
  <2> SUFFICES ASSUME NEW g \in 1..(f - 1) PROVE recorded'[g] # None
    BY <1>2
  <2> QED  BY <1>2, RecordsStay
<1> QED  BY <1>1, <1>2, <1>3, GoTo

\* A runner that starts, refuses or dies is at no file any more.
LEMMA ResetStep ==
  ASSUME ~EditsAnytime, MigrationsInv, NEW r \in Runners,
         UNCHANGED <<store, disk, schema, recorded>>, crashes' \in 0..MaxCrashes,
         NEW stage \in {"idle", "read", "refused"},
         runner' = [runner EXCEPT ![r] = [Idle EXCEPT !.at = stage]]
  PROVE  MigrationsInv'
<1>1. PICK m : m = [Idle EXCEPT !.at = stage]
  OBVIOUS
<1>2. m.at = stage /\ m.file = 1 /\ m.done = {} /\ m \in RunnerType
  BY <1>1, MigrationsAssumption DEF Idle, Working, RunnerType
<1>3. /\ 1 \in FileIds /\ StoresGrow(1)
      /\ m.done = 1..(m.file - 1)
      /\ (\A g \in 1..(1 - 1) : recorded[g] # None) /\ (\A g \in m.done : recorded'[g] # None)
  BY <1>2, NothingGrows, MigrationsAssumption DEF FileIds
<1>4. m.at \notin {"look", "apply", "mark", "done"}
  BY <1>2
<1> QED  BY <1>1, <1>2, <1>3, <1>4, GoTo

-----------------------------------------------------------------------------
(* The actions.                                                            *)

LEMMA ReadOnlySteps ==
  ASSUME ~EditsAnytime, MigrationsInv, NEW r \in Runners,
         Start(r) \/ ReadFile(r) \/ LookUp(r) \/ Crash(r)
  PROVE  MigrationsInv'
<1>1. CASE Start(r)
  <2>1. crashes' \in 0..MaxCrashes
    BY <1>1 DEF Start, Stored, MigrationsInv, MigrationsTypeOK
  <2> QED  BY <1>1, <2>1, ResetStep DEF Start, Stored
<1>2. CASE Crash(r)
  <2>1. crashes' \in 0..MaxCrashes
    BY <1>2, MigrationsAssumption DEF Crash, MigrationsInv, MigrationsTypeOK
  <2>2. Idle = [Idle EXCEPT !.at = "idle"]
    BY DEF Idle
  <2> QED  BY <1>2, <2>1, <2>2, ResetStep DEF Crash
<1>3. CASE ReadFile(r)
  <2>1. runner[r].at \in Working /\ StoresGrow(runner[r].file) /\ UNCHANGED crashes
    BY <1>3, NothingGrows DEF ReadFile, Stored, Working
  <2>2. PICK m : m = [runner[r] EXCEPT !.at = "look", !.content = disk[runner[r].file]]
    OBVIOUS
  <2>3. runner' = [runner EXCEPT ![r] = m]
    BY <1>3, <2>2 DEF ReadFile, MigrationsInv, MigrationsTypeOK
  <2>4. /\ m \in RunnerType /\ m.at = "look" /\ m.content = disk[runner[r].file]
        /\ m.file = runner[r].file /\ m.done = runner[r].done
    BY <2>1, <2>2, RunnerFacts DEF RunnerType, Working
  <2> QED  BY <2>1, <2>3, <2>4, MoveStep
<1>4. CASE LookUp(r)
  <2>1. /\ runner[r].at = "look" /\ runner[r].at \in Working
        /\ StoresGrow(runner[r].file) /\ UNCHANGED crashes
        /\ UNCHANGED <<store, disk, schema, recorded>>
    BY <1>4, NothingGrows DEF LookUp, Stored, Working
  <2>2. crashes' \in 0..MaxCrashes
    BY <2>1, RunnerFacts
  <2>3. CASE runner' = [runner EXCEPT ![r].at = "apply"]
    <3>1. PICK m : m = [runner[r] EXCEPT !.at = "apply"]
      OBVIOUS
    <3>2. runner' = [runner EXCEPT ![r] = m]
      BY <2>3, <3>1 DEF MigrationsInv, MigrationsTypeOK
    <3>3. /\ m \in RunnerType /\ m.at = "apply" /\ m.content = disk[runner[r].file]
          /\ m.file = runner[r].file /\ m.done = runner[r].done
      BY <2>1, <3>1, RunnerFacts DEF RunnerType, Working
    <3> QED  BY <2>1, <3>2, <3>3, MoveStep
  <2>4. CASE recorded[runner[r].file] = runner[r].content /\ Leave(r)
    <3>1. recorded'[runner[r].file] # None
      BY <2>1, <2>4, RunnerFacts
    <3> QED  BY <2>1, <2>4, <3>1, LeaveStep
  <2>5. CASE Refuse(r)
    BY <2>1, <2>2, <2>5, ResetStep DEF Refuse
  <2> QED  BY <1>4, <2>3, <2>4, <2>5 DEF LookUp
<1> QED  BY <1>1, <1>2, <1>3, <1>4

LEMMA WritingSteps ==
  ASSUME ~EditsAnytime, MigrationsInv, NEW r \in Runners,
         ApplyStatements(r) \/ WriteMarker(r) \/ ApplyAndRecord(r)
  PROVE  MigrationsInv'
<1> DEFINE f == runner[r].file
<1>1. /\ runner[r].at \in {"apply", "mark"} /\ runner[r].at \in Working
      /\ UNCHANGED <<store, disk, crashes>>
  BY DEF ApplyStatements, WriteMarker, ApplyAndRecord, Working
<1>2. /\ f \in FileIds /\ runner[r].content = disk[f] /\ disk[f] # None
      /\ schema \in [FileIds -> (1..Versions) \cup {None}]
      /\ recorded \in [FileIds -> (1..Versions) \cup {None}]
      /\ crashes' \in 0..MaxCrashes
  BY <1>1, RunnerFacts DEF MigrationsInv, MigrationsTypeOK
<1> HIDE DEF f
<1>3. Executed(f, disk[f])[f] # None /\ Mark(f, disk[f])[f] # None
  BY <1>2 DEF Executed, Mark
<1>4. CASE ApplyStatements(r)
  <2>1. schema' = Executed(f, disk[f]) /\ recorded' = recorded
    BY <1>2, <1>4 DEF ApplyStatements, f
  <2>2. PICK m : m = [runner[r] EXCEPT !.at = "mark"]
    OBVIOUS
  <2>3. runner' = [runner EXCEPT ![r] = m]
    BY <1>4, <2>2 DEF ApplyStatements, MigrationsInv, MigrationsTypeOK
  <2>4. /\ m \in RunnerType /\ m.at = "mark" /\ m.content = disk[f]
        /\ m.file = f /\ m.done = runner[r].done
    BY <1>1, <1>2, <2>2, RunnerFacts DEF RunnerType, Working, f
  <2>5. StoresGrow(f)
    BY <1>1, <2>1 DEF StoresGrow
  <2> QED  BY <1>1, <1>3, <2>1, <2>3, <2>4, <2>5, MoveStep DEF f
<1>5. CASE WriteMarker(r)
  <2>1. schema' = schema /\ recorded' = Mark(f, disk[f]) /\ Leave(r)
    BY <1>2, <1>5 DEF WriteMarker, f
  <2>2. schema[f] # None
    BY <1>5 DEF WriteMarker, MigrationsInv, Progress, f
  <2>3. StoresGrow(f)
    BY <1>1, <2>1, <2>2 DEF StoresGrow
  <2> QED  BY <1>1, <1>3, <2>1, <2>3, LeaveStep DEF f
<1>6. CASE ApplyAndRecord(r)
  <2>1. CASE recorded[f] = None
    <3>1. schema' = Executed(f, disk[f]) /\ recorded' = Mark(f, disk[f]) /\ Leave(r)
      BY <1>2, <1>6, <2>1 DEF ApplyAndRecord, f
    <3>2. StoresGrow(f)
      BY <1>1, <1>3, <3>1 DEF StoresGrow
    <3> QED  BY <1>1, <1>3, <3>1, <3>2, LeaveStep DEF f
  <2>2. CASE recorded[f] # None
    BY <1>1, <1>2, <1>6, <2>2, ResetStep DEF ApplyAndRecord, Refuse, f
  <2> QED  BY <2>1, <2>2
<1> QED  BY <1>4, <1>5, <1>6

LEMMA NextMigrations ==
  ASSUME ~EditsAnytime
  PROVE  MigrationsInv /\ [MigrationsNext]_migrationVars => MigrationsInv'
<1> SUFFICES ASSUME MigrationsInv, [MigrationsNext]_migrationVars PROVE MigrationsInv'
  OBVIOUS
<1>1. CASE MigrationsNext
  BY <1>1, EditStep, ReadOnlySteps, WritingSteps DEF MigrationsNext
<1>2. CASE UNCHANGED migrationVars
  BY <1>2 DEF migrationVars, MigrationsInv, MigrationsTypeOK, RecordsAreTrue, InOrder, UnrecordedIsCurrent,
              Progress
<1> QED  BY <1>1, <1>2

(***************************************************************************)
(* A runner past its first read knows what is recorded, and what it has in *)
(* its hands is what the file says: the invariant the order of read, look, *)
(* execution and record keeps (runMigrations, migration-runner).           *)
(***************************************************************************)
THEOREM MigrationsInvAlways == ASSUME ~EditsAnytime PROVE MigrationsSpec => []MigrationsInv
  BY InitMigrations, NextMigrations, PTL DEF MigrationsSpec

(***************************************************************************)
(* What was executed and what is recorded agree, and files are applied in  *)
(* their order, whichever runners overlap or die.                          *)
(***************************************************************************)
THEOREM MigrationsAlwaysRecorded ==
  ASSUME ~EditsAnytime PROVE MigrationsSpec => []MigrationsAreRecorded
<1>1. MigrationsInv => MigrationsAreRecorded
  <2> SUFFICES ASSUME MigrationsInv PROVE FilesAreApplied
    BY DEF MigrationsInv, MigrationsAreRecorded
  <2>1. ASSUME NEW r \in Runners, runner[r].at = "done", NEW f \in FileIds
        PROVE  recorded[f] # None /\ f \in runner[r].done
    BY <2>1, MigrationsAssumption DEF MigrationsInv, Progress, FileIds
  <2> QED  BY <2>1 DEF FilesAreApplied, MigrationsInv, InOrder
<1> QED  BY <1>1, MigrationsInvAlways, PTL

-----------------------------------------------------------------------------
(***************************************************************************)
(* The change-and-delta agent: the invariant of a proposal in the making.  *)
(***************************************************************************)
\* The paragraphs a proposal has to account for, and those that are compared
\* once.
DueRefs == IF Scope = "paragraph_amendment" THEN event.refs ELSE {c.ref : c \in OldClauses}

Single(r) ==
  /\ \E c \in OldClauses : c.ref = r
  /\ Scope = "paragraph_amendment" \/ \A c, e \in OldClauses : c.ref = r /\ e.ref = r => c = e

\* What a diff says is what was stated, numbered or answered.
Justified(d, said, scope) ==
  /\ d.confidence \in 0..100
  /\ d.method # "unresolved" /\ d.text = None /\ d.materiality = "material" =>
       scope = "full_document_supersession" /\ \E h \in said : h[1] = d.ref /\ h[2].text = None
  /\ d.text # None /\ d.old # None /\ d.materiality # "unchanged" =>
       ~(Similarity(d.old.text, d.text) >= CLAUSE_SIMILARITY_UNCHANGED_THRESHOLD)
  /\ d.method = "llm_aligned" =>
       /\ <<d.ref, [confidence |-> d.confidence, text |-> d.text]>> \in said
       /\ d.confidence >= LLM_ALIGNMENT_CONFIDENCE_THRESHOLD

Doubted(h) == h[2].text # None /\ h[2].confidence < LLM_ALIGNMENT_CONFIDENCE_THRESHOLD

Waiting == ToSet(unmatched)

\* Each paragraph has one diff or waits for an answer, once.
Paired ==
  /\ unmatched \in Seq(OldClauses)
  /\ \A j, k \in DOMAIN unmatched : unmatched[j] = unmatched[k] => j = k
  /\ DueRefs \subseteq {d.ref : d \in diffs} \cup {c.ref : c \in Waiting}
  /\ \A d, e \in diffs : Single(d.ref) /\ d.ref = e.ref => d = e
  /\ \A c, e \in Waiting : Single(c.ref) /\ c.ref = e.ref => c = e
  /\ \A d \in diffs, c \in Waiting : Single(d.ref) => d.ref # c.ref

\* Each paragraph with live obligations has a first one, and what was read of
\* the tasks is what stands or what was closed since.
Ordered == \A o \in liveObligations : firstUnder[ClauseOf[o].ref] \in Under(ClauseOf[o].ref)

TasksAreRead ==
  \A x \in oldTasks : IF x[2] = None THEN TaskOf[x[1]] = None \/ x[1] \notin liveIn ELSE x[2] = TaskOf[x[1]]

DeltaInv ==
  /\ event \in Events /\ liveIn \subseteq TargetObligations /\ liveObligations \subseteq TargetObligations
  /\ Ordered /\ TasksAreRead
  /\ at \in {"circular", "live", "pair", "align", "classify"} => oldTasks = {}
  /\ \A x \in oldTasks : x = <<x[1], x[2]>>
  /\ at \in {"circular", "live", "pair", "align", "classify", "tasks", "done", "failed"}
  /\ at \notin {"circular", "failed"} => Scope \in {"paragraph_amendment", "full_document_supersession"}
  /\ \A d \in diffs : Justified(d, heard, Scope)
  /\ \A h \in heard : Doubted(h) => \E d \in diffs : d.ref = h[1] /\ d.method = "unresolved"
  /\ at \in {"circular", "live", "pair"} => diffs = {} /\ heard = {} /\ unmatched = <<>>
  /\ at \in {"align", "classify", "tasks"} => Paired
  /\ at \in {"classify", "tasks"} => unmatched = <<>>
  /\ at = "tasks" => diffEntries = UNION {EntriesOf(d) : d \in diffs}
  /\ ObligationsHaveOneFate

-----------------------------------------------------------------------------
\* SetToSeq lists the members of a finite set, each once.
LEMMA SetToSeqLists ==
  ASSUME NEW S, IsFiniteSet(S)
  PROVE  LET s == SetToSeq(S)
         IN /\ s \in Seq(S) /\ ToSet(s) = S
            /\ \A i, j \in DOMAIN s : s[i] = s[j] => i = j
<1> DEFINE n == Cardinality(S)
           s == SetToSeq(S)
<1>1. n \in Nat /\ IsFiniteSet(1..n) /\ Cardinality(1..n) = n
  BY FS_CardinalityType, FS_Interval
<1>2. ExistsBijection(1..n, S)
  BY FS_CardinalityType
<1>3. \E f \in [1..n -> S] : IsInjective(f)
  BY <1>2 DEF ExistsBijection, Bijection, Injection
<1>4. s \in [1..n -> S] /\ IsInjective(s)
  BY <1>3 DEF SetToSeq
<1>5. s \in Injection(1..n, S)
  BY <1>4 DEF Injection
<1>6. s \in Surjection(1..n, S)
  BY <1>1, <1>5, FS_Injection
<1>7. \A x \in S : \E i \in 1..n : s[i] = x
  BY <1>6 DEF Surjection
<1> HIDE DEF s, n
<1>8. s \in Seq(S) /\ DOMAIN s = 1..n
  BY <1>1, <1>4
<1>9. ToSet(s) = S
  BY <1>4, <1>7, <1>8 DEF ToSet
<1>10. \A i, j \in DOMAIN s : s[i] = s[j] => i = j
  BY <1>4 DEF IsInjective
<1> QED  BY <1>8, <1>9, <1>10 DEF s

\* Of a set of numbers.
LEMMA LeastNumber ==
  ASSUME NEW S \in SUBSET Nat, S # {}
  PROVE  Min(S) \in S /\ \A k \in S : Min(S) <= k
<1> DEFINE Less == {p \in Nat \X Nat : p[1] < p[2]}
<1>1. IsWellFoundedOn(Less, Nat)
  BY NatLessThanWellFounded DEF OpToRel
<1> HIDE DEF Less
<1>2. \E m \in S : \A k \in S : <<k, m>> \notin Less
  BY <1>1, WFMin
<1>3. ASSUME NEW k \in S, NEW m \in S, <<k, m>> \notin Less PROVE m <= k
  BY <1>3 DEF Less
<1>4. \E m \in S : \A k \in S : m <= k
  BY <1>2, <1>3
<1> QED  BY <1>4 DEF Min

LEMMA GreatestNumber ==
  ASSUME NEW n \in Nat, NEW S \in SUBSET (1..n), S # {}
  PROVE  Max(S) \in S
<1> DEFINE U == {k \in Nat : \A i \in S : i <= k}
<1>1. n \in U
  OBVIOUS
<1>2. PICK m \in U : \A k \in U : m <= k
  <2> HIDE DEF U
  <2>1. U \in SUBSET Nat /\ U # {}
    BY <1>1 DEF U
  <2> QED  BY <2>1, LeastNumber
<1>3. m \in S
  <2>1. SUFFICES ASSUME m \notin S PROVE FALSE
    OBVIOUS
  <2>2. \A i \in S : i <= m - 1
    BY <1>2, <2>1
  <2>3. PICK i \in S : TRUE
    OBVIOUS
  <2>4. m - 1 \in U
    BY <1>2, <2>2, <2>3
  <2> QED  BY <1>2, <2>4
<1> QED  BY <1>2, <1>3 DEF Max

\* What a resolution becomes.
LEMMA ToDiffFields ==
  ASSUME NEW ref, NEW old, NEW text, NEW method, NEW confidence, NEW reason
  PROVE  LET d == ToDiff(Resolution(ref, old, text, method, confidence, reason))
         IN /\ d.ref = ref /\ d.old = old /\ d.text = text /\ d.method = method /\ d.confidence = confidence
            /\ method # "unresolved" /\ text = None => d.materiality = "unchanged"
            /\ text # None /\ old # None /\ d.materiality # "unchanged" =>
                 ~(Similarity(old.text, text) >= CLAUSE_SIMILARITY_UNCHANGED_THRESHOLD)
  BY DEF ToDiff, Resolution, CLAUSE_SIMILARITY_UNCHANGED_THRESHOLD

\* The source of a diff is a clause of the event, and what it proposes has a
\* score.
LEMMA SourceIsAClause ==
  ASSUME NEW d, event \in Events
  PROVE  Source(d) \in ToSet(event.clauses) \cup {None}
<1> DEFINE clauses == event.clauses
           same == {i \in DOMAIN clauses : clauses[i].ref = d.ref}
           Score(i) == Similarity(d.text, Words(clauses[i]))
           alike == {i \in DOMAIN clauses : Score(i) >= SOURCE_MATCH_MIN_SIMILARITY}
           best == {i \in alike : \A j \in alike : Score(i) >= Score(j)}
<1>1. DOMAIN clauses = 1..Len(clauses) /\ Len(clauses) \in Nat /\ \A i \in DOMAIN clauses : clauses[i] \in ToSet(clauses)
  <2>1. clauses \in Seq(ToSet(clauses))
    BY DeltaAssumption
  <2>2. \A i \in DOMAIN clauses : clauses[i] \in ToSet(clauses)
    BY DEF ToSet
  <2> QED  BY <2>1, <2>2
<1>2. same \in SUBSET Nat /\ same \subseteq DOMAIN clauses
  BY <1>1
<1>3. best \in SUBSET (1..Len(clauses))
  BY <1>1
<1>4. Source(d) = IF same # {} THEN clauses[Min(same)] ELSE IF best = {} THEN None ELSE clauses[Max(best)]
  BY DEF Source
<1> HIDE DEF same, best, clauses
<1>5. CASE same # {}
  BY <1>1, <1>2, <1>4, <1>5, LeastNumber DEF clauses
<1>6. CASE same = {} /\ best # {}
  <2>1. Max(best) \in DOMAIN clauses
    BY <1>1, <1>3, <1>6, GreatestNumber
  <2> QED  BY <1>1, <1>4, <1>6, <2>1 DEF clauses
<1>7. CASE same = {} /\ best = {}
  BY <1>4, <1>7
<1> QED  BY <1>5, <1>6, <1>7

LEMMA UsableHasScore ==
  ASSUME event \in Events, NEW source \in ToSet(event.clauses), Usable(source) # {}
  PROVE  source.proposals[Min(Usable(source))].score \in 0..100
<1> DEFINE s == source.proposals
<1>1. s \in Seq(ToSet(s)) /\ \A p \in ToSet(s) : p.score \in 0..100
  BY DeltaAssumption
<1>2. Usable(source) \in SUBSET Nat /\ Usable(source) \subseteq DOMAIN s
  BY <1>1 DEF Usable
<1>3. Min(Usable(source)) \in DOMAIN s
  BY <1>2, LeastNumber
<1>4. s[Min(Usable(source))] \in ToSet(s)
  BY <1>3 DEF ToSet
<1> QED  BY <1>1, <1>4

\* What becomes of the obligations of a diff.
Closing(e) == e.action \in {"superseded", "repealed"}

LEMMA EntriesAreFates ==
  ASSUME NEW d, event \in Events, Ordered
  PROVE  /\ \E e \in EntriesOf(d) : TRUE
         /\ Under(d.ref) # {} => \A e \in EntriesOf(d) : e.old \in Under(d.ref)
         /\ \A e \in EntriesOf(d), o \in Under(d.ref) :
              Closing(e) => \E f \in EntriesOf(d) : f.old = o /\ f.action = e.action /\ f.new = e.new
         /\ \A e \in EntriesOf(d) :
              /\ e.diff = d
              /\ Closing(e) =>
                   /\ e.old \in liveObligations /\ ClauseOf[e.old].ref = d.ref /\ d.method # "unresolved"
                   /\ d.text = None => d.materiality = "material"
                   /\ d.text # None /\ d.old # None => d.materiality # "unchanged"
              /\ e.action \in {"superseded", "newly_added"} => d.method # "unresolved" /\ e.score \in 0..100
         /\ \A e, f \in EntriesOf(d) : Closing(e) /\ Closing(f) => e.action = f.action /\ e.new = f.new
<1> DEFINE matching == Under(d.ref)
           source == Source(d)
           status == LookupStatus(source)
           repealed == {DiffEntry("repealed", d, o, None, None) : o \in matching}
           proposed == source.proposals[Min(Usable(source))]
           New(action, o) == DiffEntry(action, d, o, source.ref, proposed.score)
           Stays == Unaffected(d, matching)
           Alone == Unaffected(d, {})
           Added == {New("newly_added", None)}
           Replaced == {New("superseded", o) : o \in matching}
           Good(E) ==
             /\ \E e \in E : TRUE
             /\ matching # {} => \A e \in E : e.old \in matching
             /\ \A e \in E, o \in matching : Closing(e) => \E f \in E : f.old = o /\ f.action = e.action /\ f.new = e.new
             /\ \A e \in E :
                  /\ e.diff = d
                  /\ Closing(e) =>
                       /\ e.old \in liveObligations /\ ClauseOf[e.old].ref = d.ref /\ d.method # "unresolved"
                       /\ d.text = None => d.materiality = "material"
                       /\ d.text # None /\ d.old # None => d.materiality # "unchanged"
                  /\ e.action \in {"superseded", "newly_added"} => d.method # "unresolved" /\ e.score \in 0..100
             /\ \A e, f \in E : Closing(e) /\ Closing(f) => e.action = f.action /\ e.new = f.new
<1>0. \A o \in matching : o \in liveObligations /\ ClauseOf[o].ref = d.ref
  BY DEF Under
<1>1. Good(Stays)
  <2>1. \A e \in Stays : e.action = "unaffected" /\ e.diff = d
    BY DEF Unaffected, DiffEntry
  <2>2. matching # {} => \A e \in Stays : e.old \in matching
    <3>1. matching # {} => firstUnder[d.ref] \in matching
      BY <1>0 DEF Ordered
    <3> HIDE DEF matching
    <3> QED  BY <3>1 DEF Unaffected, DiffEntry
  <2>3. \E e \in Stays : TRUE
    BY DEF Unaffected
  <2> HIDE DEF Stays
  <2> QED  BY <2>1, <2>2, <2>3 DEF Closing
<1>2. matching = {} => Good(Alone)
  <2>1. \A e \in Alone : e.action = "unaffected" /\ e.diff = d
    BY DEF Unaffected, DiffEntry
  <2>2. \E e \in Alone : TRUE
    BY DEF Unaffected
  <2> HIDE DEF Alone
  <2> QED  BY <2>1, <2>2 DEF Closing
<1>3. ASSUME matching # {}, d.method # "unresolved", d.text = None => d.materiality = "material",
             d.text # None /\ d.old # None => d.materiality # "unchanged"
      PROVE  Good(repealed)
  <2>1. \A e \in repealed : e.action = "repealed" /\ e.diff = d /\ e.old \in matching /\ e.new = None
    BY DEF DiffEntry
  <2>2. ASSUME NEW o \in matching PROVE \E f \in repealed : f.old = o
    <3>1. DiffEntry("repealed", d, o, None, None) \in repealed
      OBVIOUS
    <3>2. DiffEntry("repealed", d, o, None, None).old = o
      BY DEF DiffEntry
    <3> QED  BY <3>1, <3>2
  <2>3. \E e \in repealed : TRUE
    BY <1>3
  <2> HIDE DEF repealed, matching
  <2>4. \A e \in repealed, o \in matching : \E f \in repealed : f.old = o /\ f.action = e.action /\ f.new = e.new
    BY <2>1, <2>2
  <2> QED  BY <1>0, <1>3, <2>1, <2>3, <2>4 DEF Closing
<1>4. ASSUME status = "found" PROVE proposed.score \in 0..100
  <2>1. source # None /\ Usable(source) # {}
    BY <1>4 DEF LookupStatus
  <2>2. source \in ToSet(event.clauses)
    BY <2>1, SourceIsAClause
  <2> HIDE DEF source
  <2> QED  BY <2>1, <2>2, UsableHasScore
<1>5. ASSUME d.method # "unresolved", d.text # None, d.old # None => d.materiality # "unchanged", status = "found"
      PROVE  (matching = {} => Good(Added)) /\ (matching # {} => Good(Replaced))
  <2> HIDE DEF status, source
  <2>1. \A e \in Added : e.action = "newly_added" /\ e.diff = d /\ e.score = proposed.score
    BY DEF DiffEntry
  <2>2. \A e \in Replaced : e.action = "superseded" /\ e.diff = d /\ e.score = proposed.score /\ e.old \in matching /\ e.new = source.ref
    BY DEF DiffEntry
  <2>3. ASSUME NEW o \in matching PROVE \E f \in Replaced : f.old = o
    <3>1. DiffEntry("superseded", d, o, source.ref, proposed.score) \in Replaced
      OBVIOUS
    <3>2. DiffEntry("superseded", d, o, source.ref, proposed.score).old = o
      BY DEF DiffEntry
    <3> QED  BY <3>1, <3>2
  <2>4. \E e \in Added : TRUE
    OBVIOUS
  <2> HIDE DEF Added, Replaced, proposed, matching
  <2>5. ASSUME matching = {} PROVE Good(Added)
    BY <1>4, <1>5, <2>1, <2>4, <2>5 DEF Closing
  <2>6. ASSUME matching # {} PROVE Good(Replaced)
    <3>1. \A e \in Replaced, o \in matching : \E f \in Replaced : f.old = o /\ f.action = e.action /\ f.new = e.new
      BY <2>2, <2>3
    <3>2. \E e \in Replaced : TRUE
      BY <2>3, <2>6
    <3> QED  BY <1>0, <1>4, <1>5, <2>2, <3>1, <3>2 DEF Closing
  <2> QED  BY <2>5, <2>6
<1>6. status \in {"not_found", "informational_only", "contradiction_excluded", "found"}
  BY DEF LookupStatus
<1>7. EntriesOf(d) =
        CASE d.method = "unresolved" -> Stays
          [] d.method # "unresolved" /\ d.text = None ->
               IF d.materiality = "material" /\ matching # {} THEN repealed ELSE Stays
          [] d.method # "unresolved" /\ d.text # None /\ d.old # None /\ d.materiality = "unchanged" -> Stays
          [] OTHER ->
               CASE status = "contradiction_excluded" -> Stays
                 [] status \in {"not_found", "informational_only"} -> IF matching # {} THEN repealed ELSE Alone
                 [] status = "found" -> IF matching = {} THEN Added ELSE Replaced
  BY DEF EntriesOf
<1> HIDE DEF Good, Stays, Alone, Added, Replaced, repealed, status, matching
<1>8. Good(EntriesOf(d))
  <2>1. CASE d.method = "unresolved"
    BY <1>1, <1>7, <2>1
  <2>2. CASE d.method # "unresolved" /\ d.text = None
    BY <1>1, <1>3, <1>7, <2>2
  <2>3. CASE d.method # "unresolved" /\ d.text # None /\ d.old # None /\ d.materiality = "unchanged"
    BY <1>1, <1>7, <2>3
  <2>4. CASE d.method # "unresolved" /\ d.text # None /\ ~(d.old # None /\ d.materiality = "unchanged")
    <3>1. CASE status = "contradiction_excluded"
      BY <1>1, <1>7, <2>4, <3>1
    <3>2. CASE status \in {"not_found", "informational_only"}
      BY <1>2, <1>3, <1>7, <2>4, <3>2
    <3>3. CASE status = "found"
      BY <1>5, <1>7, <2>4, <3>3
    <3> QED  BY <1>6, <3>1, <3>2, <3>3
  <2> QED  BY <2>1, <2>2, <2>3, <2>4
<1> QED  BY <1>8 DEF Good, matching

\* A batch and the rest of what waits.
LEMMA BatchIsTaken ==
  ASSUME NEW rest, rest = SubSeq(unmatched, Len(Batch) + 1, Len(unmatched)),
         unmatched \in Seq(OldClauses), \A j, k \in DOMAIN unmatched : unmatched[j] = unmatched[k] => j = k
  PROVE  /\ rest \in Seq(OldClauses) /\ \A j, k \in DOMAIN rest : rest[j] = rest[k] => j = k
         /\ Waiting = ToSet(Batch) \cup ToSet(rest) /\ ToSet(Batch) \cap ToSet(rest) = {}
         /\ ToSet(Batch) \subseteq OldClauses
         /\ Len(unmatched) = Len(Batch) => rest = <<>>
<1> DEFINE n == Len(unmatched)
           m == Len(Batch)
<1>1. n \in Nat /\ DOMAIN unmatched = 1..n /\ \A i \in 1..n : unmatched[i] \in OldClauses
  OBVIOUS
<1>2. m \in 0..n /\ DOMAIN Batch = 1..m /\ \A i \in 1..m : Batch[i] = unmatched[i]
  <2>1. CASE Batch = unmatched
    BY <1>1, <2>1
  <2>2. MAX_ALIGNMENT_BATCH_SIZE \in Nat \ {0}
    BY DeltaAssumption
  <2>3. CASE MAX_ALIGNMENT_BATCH_SIZE <= n /\ Batch = SubSeq(unmatched, 1, MAX_ALIGNMENT_BATCH_SIZE)
    BY <1>1, <2>2, <2>3, SubSeqProperties
  <2>4. \/ Batch = unmatched
        \/ ~(n < MAX_ALIGNMENT_BATCH_SIZE) /\ Batch = SubSeq(unmatched, 1, MAX_ALIGNMENT_BATCH_SIZE)
    BY DEF Batch
  <2> HIDE DEF m, n
  <2>5. n < MAX_ALIGNMENT_BATCH_SIZE \/ MAX_ALIGNMENT_BATCH_SIZE <= n
    BY <1>1, <2>2
  <2> QED  BY <2>1, <2>3, <2>4, <2>5
<1>3. Len(rest) = n - m /\ DOMAIN rest = 1..(n - m) /\ rest \in Seq(OldClauses) /\ \A i \in 1..(n - m) : rest[i] = unmatched[i + m]
  <2>1. m + 1 \in 1..(n + 1) /\ n \in ((m + 1) - 1)..n /\ n - (m + 1) + 1 = n - m
    BY <1>1, <1>2
  <2> HIDE DEF m
  <2>2. /\ rest \in Seq(OldClauses) /\ Len(rest) = n - m
        /\ \A i \in 1..(n - m) : rest[i] = unmatched[m + 1 + i - 1]
    BY <1>1, <2>1, SubSeqProperties DEF m
  <2>3. \A i \in 1..(n - m) : m + 1 + i - 1 = i + m
    BY <1>1, <1>2
  <2> QED  BY <2>2, <2>3
<1> HIDE DEF n, m
<1>4. \A j, k \in DOMAIN rest : rest[j] = rest[k] => j = k
  <2>1. ASSUME NEW j \in 1..(n - m), NEW k \in 1..(n - m), rest[j] = rest[k] PROVE j = k
    <3>1. j + m \in 1..n /\ k + m \in 1..n /\ unmatched[j + m] = unmatched[k + m]
      BY <1>1, <1>2, <1>3, <2>1
    <3>2. j + m = k + m
      BY <1>1, <3>1
    <3> QED  BY <1>1, <1>2, <3>2
  <2> QED  BY <1>3, <2>1
<1>5. Waiting \subseteq ToSet(Batch) \cup ToSet(rest)
  <2>1. SUFFICES ASSUME NEW i \in 1..n PROVE unmatched[i] \in ToSet(Batch) \cup ToSet(rest)
    BY <1>1 DEF Waiting, ToSet
  <2>2. CASE i <= m
    BY <1>1, <1>2, <2>2 DEF ToSet
  <2>3. CASE i > m
    <3>1. i - m \in 1..(n - m) /\ rest[i - m] = unmatched[i]
      BY <1>1, <1>2, <1>3, <2>3, SMTT(30)
    <3> QED  BY <1>3, <3>1 DEF ToSet
  <2> QED  BY <1>1, <1>2, <2>2, <2>3
<1>6. ToSet(Batch) \subseteq Waiting
  BY <1>1, <1>2 DEF Waiting, ToSet
<1>7. ToSet(rest) \subseteq Waiting
  <2>1. SUFFICES ASSUME NEW i \in 1..(n - m) PROVE rest[i] \in Waiting
    BY <1>3 DEF ToSet
  <2>2. i + m \in 1..n
    BY <1>1, <1>2
  <2> QED  BY <1>1, <1>3, <2>2 DEF Waiting, ToSet
<1>8. ToSet(Batch) \cap ToSet(rest) = {}
  <2>1. ASSUME NEW i \in 1..m, NEW j \in 1..(n - m), Batch[i] = rest[j] PROVE FALSE
    <3>1. i \in 1..n /\ j + m \in 1..n /\ unmatched[i] = unmatched[j + m]
      BY <1>1, <1>2, <1>3, <2>1
    <3>2. i = j + m
      BY <1>1, <3>1
    <3> QED  BY <1>1, <1>2, <3>2
  <2> QED  BY <1>2, <1>3, <2>1 DEF ToSet
<1>9. n = m => rest = <<>>
  BY <1>1, <1>2, <1>3
<1>10. ToSet(Batch) \subseteq OldClauses
  BY <1>1, <1>2 DEF ToSet
<1> QED  BY <1>3, <1>4, <1>5, <1>6, <1>7, <1>8, <1>9, <1>10 DEF n, m

LEMMA InitDelta == ASSUME DeltaInit PROVE DeltaInv
  BY DEF DeltaInit, DeltaInv, ObligationsHaveOneFate, Ordered, TasksAreRead

\* What rests on the event, the diffs and what waits.
LEMMA SamePairs ==
  ASSUME UNCHANGED <<event, unmatched, diffs>>
  PROVE  Scope' = Scope /\ Paired' = Paired
<1>1. Scope' = Scope
  BY DEF Scope
<1>2. DueRefs' = DueRefs /\ Waiting' = Waiting /\ \A r : Single(r)' <=> Single(r)
  BY <1>1 DEF DueRefs, Waiting, Single
<1> QED  BY <1>1, <1>2 DEF Paired

LEMMA SameEntries ==
  ASSUME UNCHANGED <<event, liveObligations, firstUnder, diffs>>
  PROVE  UNION {EntriesOf(d) : d \in diffs}' = UNION {EntriesOf(d) : d \in diffs}
  BY DEF EntriesOf, Source, Unaffected, Under

LEMMA SameReads ==
  ASSUME Ordered, TasksAreRead, UNCHANGED <<liveObligations, firstUnder, oldTasks>>, liveIn' \subseteq liveIn
  PROVE  Ordered' /\ TasksAreRead'
<1>1. \A r : Under(r)' = Under(r)
  BY DEF Under
<1> QED  BY <1>1 DEF Ordered, TasksAreRead

\* An answer, and the lack of one, are recorded as what they are.
LEMMA AnswerIsJustified ==
  ASSUME NEW c \in OldClauses, NEW answer \in Answers, <<c.ref, answer>> \in heard', event' = event
  PROVE  LET d == AnswerDiff(c, answer)
         IN d.ref = c.ref /\ Justified(d, heard', Scope) /\ (Doubted(<<c.ref, answer>>) => d.method = "unresolved")
<1> DEFINE d == AnswerDiff(c, answer)
           sure == answer.confidence >= LLM_ALIGNMENT_CONFIDENCE_THRESHOLD
           repeals == Scope = "full_document_supersession" /\ answer.text = None
<1>1. answer.confidence \in 0..100 /\ answer = [confidence |-> answer.confidence, text |-> answer.text]
  BY DeltaAssumption DEF Answers
<1>2. Scope' = Scope
  BY DEF Scope
<1>3. CASE repeals
  <2>1. d = RepealDiff(c)
    BY <1>3 DEF AnswerDiff
  <2>2. /\ d.ref = c.ref /\ d.text = None /\ d.method = "single_paragraph_direct" /\ d.confidence = 100
    BY <2>1 DEF RepealDiff, FULL_DOC_DIRECT_MATCH_CONFIDENCE
  <2>3. \E h \in heard' : h[1] = c.ref /\ h[2].text = None
    BY <1>3
  <2> HIDE DEF d
  <2>4. ~Doubted(<<c.ref, answer>>)
    BY <1>3 DEF Doubted
  <2> QED  BY <1>2, <1>3, <2>2, <2>3, <2>4 DEF Justified, d
<1>4. CASE ~repeals /\ sure
  <2>1. d = ToDiff(Resolution(c.ref, c, answer.text, "llm_aligned", answer.confidence, None))
    BY <1>4 DEF AnswerDiff
  <2>2. /\ d.ref = c.ref /\ d.old = c /\ d.text = answer.text /\ d.method = "llm_aligned" /\ d.confidence = answer.confidence
        /\ d.text = None => d.materiality = "unchanged"
        /\ d.text # None /\ c # None /\ d.materiality # "unchanged" => ~(Similarity(c.text, d.text) >= CLAUSE_SIMILARITY_UNCHANGED_THRESHOLD)
    BY <2>1, ToDiffFields
  <2> HIDE DEF d
  <2>3. <<d.ref, [confidence |-> d.confidence, text |-> d.text]>> \in heard'
    BY <1>1, <2>2
  <2>4. ~Doubted(<<c.ref, answer>>)
    BY <1>1, <1>4 DEF Doubted, LLM_ALIGNMENT_CONFIDENCE_THRESHOLD
  <2> QED  BY <1>1, <1>4, <2>2, <2>3, <2>4 DEF Justified, d
<1>5. CASE ~repeals /\ ~sure
  <2>1. d = ToDiff(Resolution(c.ref, c, answer.text, "unresolved", answer.confidence, "llm_confidence_below_threshold"))
    BY <1>5 DEF AnswerDiff, Unresolved
  <2>2. /\ d.ref = c.ref /\ d.old = c /\ d.text = answer.text /\ d.method = "unresolved" /\ d.confidence = answer.confidence
        /\ d.text # None /\ c # None /\ d.materiality # "unchanged" => ~(Similarity(c.text, d.text) >= CLAUSE_SIMILARITY_UNCHANGED_THRESHOLD)
    BY <2>1, ToDiffFields
  <2> HIDE DEF d
  <2> QED  BY <1>1, <2>2 DEF Justified, d
<1> QED  BY <1>3, <1>4, <1>5

LEMMA NoAnswerIsJustified ==
  ASSUME NEW c \in OldClauses PROVE NoAnswer(c).ref = c.ref /\ Justified(NoAnswer(c), heard', Scope) /\ NoAnswer(c).method = "unresolved"
<1> DEFINE d == NoAnswer(c)
<1>1. /\ d.ref = c.ref /\ d.old = c /\ d.text = None /\ d.method = "unresolved" /\ d.confidence = 0
  BY ToDiffFields DEF NoAnswer, Unresolved
<1> HIDE DEF d
<1>2. Justified(d, heard', Scope)
  BY <1>1 DEF Justified
<1> QED  BY <1>1, <1>2 DEF d

\* A batch that is answered, or given up.
LEMMA NextBatchStep ==
  ASSUME DeltaInv, at = "align", NEW found, NextBatch(found),
         UNCHANGED <<event, targetLive, liveIn, liveObligations, firstUnder, diffEntries, oldTasks, proposal>>, heard \subseteq heard',
         \A d \in found : Justified(d, heard', Scope) /\ \E c \in ToSet(Batch) : d.ref = c.ref,
         \A h \in heard' \ heard : Doubted(h) => \E d \in found : d.ref = h[1] /\ d.method = "unresolved",
         \A c \in ToSet(Batch) : \E d \in found : d.ref = c.ref,
         \A d, e \in found : Single(d.ref) /\ d.ref = e.ref => d = e
  PROVE  DeltaInv'
<1>1. Scope' = Scope /\ DueRefs' = DueRefs /\ \A r : Single(r)' <=> Single(r)
  BY DEF Scope, DueRefs, Single
<1>2. /\ unmatched \in Seq(OldClauses) /\ \A j, k \in DOMAIN unmatched : unmatched[j] = unmatched[k] => j = k
      /\ unmatched' = SubSeq(unmatched, Len(Batch) + 1, Len(unmatched))
  BY DEF DeltaInv, Paired, NextBatch
<1>3. /\ unmatched' \in Seq(OldClauses) /\ \A j, k \in DOMAIN unmatched' : unmatched'[j] = unmatched'[k] => j = k
      /\ Waiting = ToSet(Batch) \cup Waiting' /\ ToSet(Batch) \cap Waiting' = {}
      /\ ToSet(Batch) \subseteq OldClauses
      /\ Len(unmatched) = Len(Batch) => unmatched' = <<>>
  BY <1>2, BatchIsTaken DEF Waiting
<1>4. diffs \cup found \subseteq diffs' /\ \A d \in diffs' \ (diffs \cup found) : Justified(d, heard', Scope) /\ \A c \in OldClauses : c.ref # d.ref
  <2> DEFINE Addition(i) == Direct(event.clauses[i].ref, None, Words(event.clauses[i]))
             all == diffs \cup found
  <2>1. \A d \in diffs' \ all : \E i : OldClauseOf(event.clauses[i].ref) = {} /\ d = Addition(i)
    BY Zenon DEF NextBatch
  <2>2. all \subseteq diffs'
    BY Zenon DEF NextBatch
  <2>3. ASSUME NEW i, OldClauseOf(event.clauses[i].ref) = {}
        PROVE  Justified(Addition(i), heard', Scope) /\ \A c \in OldClauses : c.ref # Addition(i).ref
    <3> DEFINE d == Direct(event.clauses[i].ref, None, Words(event.clauses[i]))
    <3>1. /\ d.ref = event.clauses[i].ref /\ d.old = None /\ d.method = "single_paragraph_direct" /\ d.confidence = 100
          /\ d.text = None => d.materiality = "unchanged"
      BY ToDiffFields DEF Direct, FULL_DOC_DIRECT_MATCH_CONFIDENCE
    <3> HIDE DEF d
    <3>2. Justified(d, heard', Scope)
      BY <3>1 DEF Justified
    <3> QED  BY <2>3, <3>1, <3>2 DEF OldClauseOf, d
  <2>4. ASSUME NEW d \in diffs' \ all PROVE Justified(d, heard', Scope) /\ \A c \in OldClauses : c.ref # d.ref
    <3>1. PICK i : OldClauseOf(event.clauses[i].ref) = {} /\ d = Addition(i)
      BY <2>1
    <3> HIDE DEF Addition
    <3> QED  BY <2>3, <3>1
  <2> HIDE DEF Addition
  <2> QED  BY <2>2, <2>4
<1>5. \A d \in diffs : Justified(d, heard, Scope) => Justified(d, heard', Scope)
  BY <1>1 DEF Justified
<1>6. /\ \A d \in diffs' : Justified(d, heard', Scope)
      /\ \A h \in heard' : Doubted(h) => \E d \in diffs' : d.ref = h[1] /\ d.method = "unresolved"
  BY <1>4, <1>5 DEF DeltaInv
<1>7. DueRefs' \subseteq {d.ref : d \in diffs'} \cup {c.ref : c \in Waiting'}
  BY <1>1, <1>3, <1>4 DEF DeltaInv, Paired
<1>8. \A d, e \in diffs' : Single(d.ref) /\ d.ref = e.ref => d = e
  <2>1. ASSUME NEW d \in diffs, NEW e \in found, d.ref = e.ref, Single(d.ref) PROVE FALSE
    BY <1>3, <2>1 DEF DeltaInv, Paired
  <2>2. \A d, e \in diffs : Single(d.ref) /\ d.ref = e.ref => d = e
    BY DEF DeltaInv, Paired
  <2>3. \A d \in diffs' : Single(d.ref) => d \in diffs \cup found
    BY <1>4 DEF Single
  <2> QED  BY <2>1, <2>2, <2>3
<1>9. \A c, e \in Waiting' : Single(c.ref) /\ c.ref = e.ref => c = e
  BY <1>3 DEF DeltaInv, Paired
<1>10. \A d \in diffs', c \in Waiting' : Single(d.ref) => d.ref # c.ref
  <2>1. ASSUME NEW d \in diffs, NEW c \in Waiting', Single(d.ref), d.ref = c.ref PROVE FALSE
    BY <1>3, <2>1 DEF DeltaInv, Paired
  <2>2. ASSUME NEW d \in found, NEW c \in Waiting', Single(d.ref), d.ref = c.ref PROVE FALSE
    <3>1. PICK b \in ToSet(Batch) : d.ref = b.ref
      OBVIOUS
    <3>2. b = c
      BY <1>3, <2>2, <3>1 DEF DeltaInv, Paired
    <3> QED  BY <1>3, <3>1, <3>2
  <2>3. \A d \in diffs' : Single(d.ref) => d \in diffs \cup found
    BY <1>4 DEF Single
  <2> QED  BY <2>1, <2>2, <2>3
<1>11. Paired'
  BY <1>1, <1>3, <1>7, <1>8, <1>9, <1>10 DEF Paired
<1>12. at' = IF Len(unmatched) = Len(Batch) THEN "classify" ELSE "align"
  BY DEF NextBatch
<1> QED  BY <1>1, <1>3, <1>6, <1>11, <1>12, SameReads DEF DeltaInv, ObligationsHaveOneFate, Doubted

LEMMA AlignStep == ASSUME DeltaInv, Align PROVE DeltaInv'
<1>0. PICK answered \in SUBSET ToSet(Batch) : \E answers \in [answered -> Answers] :
        /\ NextBatch({IF c \in answered THEN AnswerDiff(c, answers[c]) ELSE NoAnswer(c) : c \in ToSet(Batch)})
        /\ heard' = heard \cup {<<c.ref, answers[c]>> : c \in answered}
  BY Zenon DEF Align
<1>1. PICK answers \in [answered -> Answers] :
        /\ NextBatch({IF c \in answered THEN AnswerDiff(c, answers[c]) ELSE NoAnswer(c) : c \in ToSet(Batch)})
        /\ heard' = heard \cup {<<c.ref, answers[c]>> : c \in answered}
  BY <1>0
<1> DEFINE F(c) == IF c \in answered THEN AnswerDiff(c, answers[c]) ELSE NoAnswer(c)
           found == {F(c) : c \in ToSet(Batch)}
<1>2. at = "align" /\ UNCHANGED <<event, targetLive, liveIn, liveObligations, firstUnder, diffEntries, oldTasks, proposal>>
  BY DEF Align
<1>3. ToSet(Batch) \subseteq OldClauses /\ ToSet(Batch) \subseteq Waiting
  <2>1. unmatched \in Seq(OldClauses) /\ \A j, k \in DOMAIN unmatched : unmatched[j] = unmatched[k] => j = k
    BY <1>2 DEF DeltaInv, Paired
  <2> QED  BY <2>1, BatchIsTaken, ZenonT(60)
<1>4. ASSUME NEW c \in ToSet(Batch)
      PROVE  F(c).ref = c.ref /\ Justified(F(c), heard', Scope) /\ (c \in answered /\ Doubted(<<c.ref, answers[c]>>) => F(c).method = "unresolved")
  <2>1. CASE c \in answered
    <3>1. <<c.ref, answers[c]>> \in heard' /\ answers[c] \in Answers /\ F(c) = AnswerDiff(c, answers[c])
      BY <1>1, <2>1
    <3>2. LET d == AnswerDiff(c, answers[c])
          IN d.ref = c.ref /\ Justified(d, heard', Scope) /\ (Doubted(<<c.ref, answers[c]>>) => d.method = "unresolved")
      BY <1>2, <1>3, <3>1, AnswerIsJustified
    <3> QED  BY <2>1, <3>2
  <2>2. CASE c \notin answered
    <3>1. F(c) = NoAnswer(c)
      BY <2>2
    <3>2. NoAnswer(c).ref = c.ref /\ Justified(NoAnswer(c), heard', Scope)
      BY <1>3, NoAnswerIsJustified
    <3> QED  BY <2>2, <3>2
  <2> QED  BY <2>1, <2>2
<1> HIDE DEF F
<1>5. NextBatch(found)
  BY <1>1 DEF F
<1>6. \A d \in found : Justified(d, heard', Scope) /\ \E c \in ToSet(Batch) : d.ref = c.ref
  BY <1>4
<1>7. \A h \in heard' \ heard : Doubted(h) => \E d \in found : d.ref = h[1] /\ d.method = "unresolved"
  BY <1>1, <1>4
<1>8. \A c \in ToSet(Batch) : \E d \in found : d.ref = c.ref
  BY <1>4
<1>9. \A d, e \in found : Single(d.ref) /\ d.ref = e.ref => d = e
  <2>1. ASSUME NEW b \in ToSet(Batch), NEW c \in ToSet(Batch), Single(F(b).ref), F(b).ref = F(c).ref PROVE b = c
    <3>1. b \in Waiting /\ c \in Waiting /\ Single(b.ref) /\ b.ref = c.ref
      BY <1>3, <1>4, <2>1
    <3> QED  BY <1>2, <3>1 DEF DeltaInv, Paired
  <2> QED  BY <2>1
<1> HIDE DEF found
<1> QED  BY <1>1, <1>2, <1>5, <1>6, <1>7, <1>8, <1>9, NextBatchStep

LEMMA AlignFailsStep == ASSUME DeltaInv, AlignFails PROVE DeltaInv'
<1>1. at = "align" /\ UNCHANGED <<event, targetLive, liveIn, liveObligations, firstUnder, diffEntries, oldTasks, heard, proposal>>
  BY DEF AlignFails
<1>2. CASE attempt = 0
  <2>1. UNCHANGED <<unmatched, at, diffs>>
    BY <1>2 DEF AlignFails
  <2>2. Scope' = Scope /\ Paired' = Paired
    BY <1>1, <2>1, SamePairs
  <2> QED  BY <1>1, <2>1, <2>2, SameReads DEF DeltaInv, Doubted, ObligationsHaveOneFate
<1>3. CASE attempt # 0
  <2> DEFINE found == {NoAnswer(c) : c \in ToSet(Batch)}
  <2>1. NextBatch(found)
    BY <1>3 DEF AlignFails
  <2>2. ToSet(Batch) \subseteq OldClauses /\ ToSet(Batch) \subseteq Waiting
    <3>1. unmatched \in Seq(OldClauses) /\ \A j, k \in DOMAIN unmatched : unmatched[j] = unmatched[k] => j = k
      BY <1>1 DEF DeltaInv, Paired
    <3> QED  BY <3>1, BatchIsTaken, ZenonT(60)
  <2>3. \A c \in ToSet(Batch) : NoAnswer(c).ref = c.ref /\ Justified(NoAnswer(c), heard', Scope)
    BY <2>2, NoAnswerIsJustified
  <2>4. \A d \in found : Justified(d, heard', Scope) /\ \E c \in ToSet(Batch) : d.ref = c.ref
    BY <2>3
  <2>5. \A c \in ToSet(Batch) : \E d \in found : d.ref = c.ref
    BY <2>3
  <2>6. \A d, e \in found : Single(d.ref) /\ d.ref = e.ref => d = e
    BY <1>1, <2>2, <2>3 DEF DeltaInv, Paired
  <2> HIDE DEF found
  <2> QED  BY <1>1, <2>1, <2>4, <2>5, <2>6, NextBatchStep
<1> QED  BY <1>2, <1>3

\* What the pairing leaves to wait.
LEMMA CandidatesWait ==
  ASSUME NEW S \in SUBSET OldClauses, unmatched' = SetToSeq(S)
  PROVE  /\ unmatched' \in Seq(OldClauses) /\ \A j, k \in DOMAIN unmatched' : unmatched'[j] = unmatched'[k] => j = k
         /\ Waiting' = S /\ (S = {} => unmatched' = <<>>)
<1> DEFINE s == SetToSeq(S)
<1>1. IsFiniteSet(S)
  BY DeltaAssumption, FS_Subset
<1>2. /\ s \in Seq(S) /\ ToSet(s) = S
      /\ \A i, j \in DOMAIN s : s[i] = s[j] => i = j
  BY <1>1, SetToSeqLists
<1> HIDE DEF s
<1>3. s \in Seq(OldClauses)
  BY <1>2
<1>4. ASSUME S = {} PROVE s = <<>>
  <2>1. Len(s) \in Nat /\ DOMAIN s = 1..Len(s)
    BY <1>2
  <2>2. ASSUME Len(s) # 0 PROVE FALSE
    <3>1. 1 \in DOMAIN s
      BY <2>1, <2>2
    <3> QED  BY <1>2, <1>4, <3>1 DEF ToSet
  <2> QED  BY <1>3, <2>2
<1> QED  BY <1>2, <1>3, <1>4 DEF Waiting, s

LEMMA PairParagraphsStep ==
  ASSUME DeltaInv, at = "pair", Scope = "paragraph_amendment", NEW old \in OldChoices, PairParagraphs(old),
         UNCHANGED <<event, targetLive, liveIn, liveObligations, firstUnder, attempt, diffEntries, oldTasks, heard, proposal>>
  PROVE  DeltaInv'
<1> DEFINE sole == Cardinality(event.refs) = 1 /\ Len(event.clauses) = 1
           stated == IF sole THEN Stated(event.clauses[1]) ELSE None
           split == IF sole THEN None ELSE MarkerSplit(event.clauses, event.refs)
           candidates == {r \in event.refs : old[r] # None}
           Whole(r) == ToDiff(Resolution(r, old[r], stated, "single_paragraph_direct", SINGLE_PARAGRAPH_DIRECT_CONFIDENCE, None))
           Part(r) == ToDiff(Resolution(r, old[r], split[r], "marker_regex_split", MARKER_SPLIT_CONFIDENCE, None))
           Lost(r) == ToDiff(Resolution(r, None, None, "unresolved", 0, "old_clause_not_found"))
<1>1. Scope' = Scope /\ DueRefs' = event.refs /\ heard = {} /\ heard' = {} /\ unmatched = <<>>
  BY DEF Scope, DueRefs, DeltaInv
<1>2. ASSUME NEW r \in event.refs
      PROVE  /\ Whole(r).ref = r /\ Justified(Whole(r), heard', Scope)
             /\ Part(r).ref = r /\ Justified(Part(r), heard', Scope)
             /\ Lost(r).ref = r /\ Justified(Lost(r), heard', Scope)
  <2>1. Whole(r).ref = r /\ Justified(Whole(r), heard', Scope)
    <3> DEFINE d == Whole(r)
    <3>1. /\ d.ref = r /\ d.old = old[r] /\ d.text = stated /\ d.method = "single_paragraph_direct" /\ d.confidence = 95
          /\ d.text = None => d.materiality = "unchanged"
          /\ d.text # None /\ d.old # None /\ d.materiality # "unchanged" => ~(Similarity(d.old.text, d.text) >= CLAUSE_SIMILARITY_UNCHANGED_THRESHOLD)
      BY ToDiffFields DEF SINGLE_PARAGRAPH_DIRECT_CONFIDENCE
    <3> HIDE DEF d
    <3>2. Justified(d, heard', Scope)
      BY <3>1 DEF Justified
    <3> QED  BY <3>1, <3>2 DEF d
  <2>2. Part(r).ref = r /\ Justified(Part(r), heard', Scope)
    <3> DEFINE d == Part(r)
    <3>1. /\ d.ref = r /\ d.old = old[r] /\ d.text = split[r] /\ d.method = "marker_regex_split" /\ d.confidence = 95
          /\ d.text = None => d.materiality = "unchanged"
          /\ d.text # None /\ d.old # None /\ d.materiality # "unchanged" => ~(Similarity(d.old.text, d.text) >= CLAUSE_SIMILARITY_UNCHANGED_THRESHOLD)
      BY ToDiffFields DEF MARKER_SPLIT_CONFIDENCE
    <3> HIDE DEF d
    <3>2. Justified(d, heard', Scope)
      BY <3>1 DEF Justified
    <3> QED  BY <3>1, <3>2 DEF d
  <2>3. Lost(r).ref = r /\ Justified(Lost(r), heard', Scope)
    <3> DEFINE d == Lost(r)
    <3>1. /\ d.ref = r /\ d.old = None /\ d.text = None /\ d.method = "unresolved" /\ d.confidence = 0
      BY ToDiffFields
    <3> HIDE DEF d
    <3>2. Justified(d, heard', Scope)
      BY <3>1 DEF Justified
    <3> QED  BY <3>1, <3>2 DEF d
  <2> QED  BY <2>1, <2>2, <2>3
<1>3. \/ diffs' = {Whole(r) : r \in event.refs} /\ at' = "classify" /\ unmatched' = unmatched
      \/ diffs' = {Part(r) : r \in event.refs} /\ at' = "classify" /\ unmatched' = unmatched
      \/ /\ diffs' = {Lost(r) : r \in event.refs \ candidates} /\ unmatched' = SetToSeq({old[r] : r \in candidates})
         /\ at' = IF candidates = {} THEN "classify" ELSE "align"
  BY DEF PairParagraphs
<1>4. \A r \in candidates : old[r] \in OldClauses /\ old[r].ref = r
  BY DEF OldChoices, OldClauseOf
<1> HIDE DEF Whole, Part, Lost, candidates
<1>5. ASSUME unmatched' = unmatched, at' = "classify", \A d \in diffs' : Justified(d, heard', Scope) /\ d.ref \in event.refs,
             \A r \in event.refs : \E d \in diffs' : d.ref = r, \A d, e \in diffs' : d.ref = e.ref => d = e
      PROVE  DeltaInv'
  <2>1. unmatched' = <<>> /\ Waiting' = {}
    BY <1>1, <1>5 DEF Waiting, ToSet
  <2>2. Paired'
    BY <1>1, <1>5, <2>1 DEF Paired
  <2> QED  BY <1>1, <1>5, <2>1, <2>2, SameReads DEF DeltaInv, ObligationsHaveOneFate
<1>6. CASE diffs' = {Whole(r) : r \in event.refs} /\ at' = "classify" /\ unmatched' = unmatched
  <2>1. \A d \in diffs' : Justified(d, heard', Scope) /\ d.ref \in event.refs
    BY <1>2, <1>6
  <2>2. \A r \in event.refs : \E d \in diffs' : d.ref = r
    BY <1>2, <1>6
  <2>3. \A d, e \in diffs' : d.ref = e.ref => d = e
    BY <1>2, <1>6
  <2> QED  BY <1>5, <1>6, <2>1, <2>2, <2>3
<1>7. CASE diffs' = {Part(r) : r \in event.refs} /\ at' = "classify" /\ unmatched' = unmatched
  <2>1. \A d \in diffs' : Justified(d, heard', Scope) /\ d.ref \in event.refs
    BY <1>2, <1>7
  <2>2. \A r \in event.refs : \E d \in diffs' : d.ref = r
    BY <1>2, <1>7
  <2>3. \A d, e \in diffs' : d.ref = e.ref => d = e
    BY <1>2, <1>7
  <2> QED  BY <1>5, <1>7, <2>1, <2>2, <2>3
<1>8. CASE /\ diffs' = {Lost(r) : r \in event.refs \ candidates} /\ unmatched' = SetToSeq({old[r] : r \in candidates})
           /\ at' = IF candidates = {} THEN "classify" ELSE "align"
  <2> DEFINE S == {old[r] : r \in candidates}
  <2>1. S \in SUBSET OldClauses /\ (candidates = {} => S = {}) /\ \A c \in S : c.ref \in candidates
    BY <1>4
  <2>2. \A c, e \in S : c.ref = e.ref => c = e
    BY <1>4
  <2>3. \A r \in candidates : \E c \in S : c.ref = r
    BY <1>4
  <2>4. unmatched' = SetToSeq(S)
    BY <1>8
  <2> HIDE DEF S
  <2>5. /\ unmatched' \in Seq(OldClauses) /\ \A j, k \in DOMAIN unmatched' : unmatched'[j] = unmatched'[k] => j = k
        /\ Waiting' = S /\ (S = {} => unmatched' = <<>>)
    BY <2>1, <2>4, CandidatesWait
  <2>6. \A d \in diffs' : Justified(d, heard', Scope) /\ d.ref \in event.refs \ candidates
    BY <1>2, <1>8
  <2>7. \A r \in event.refs \ candidates : \E d \in diffs' : d.ref = r
    BY <1>2, <1>8
  <2>8. \A d, e \in diffs' : d.ref = e.ref => d = e
    BY <1>2, <1>8
  <2>9. Paired'
    BY <1>1, <2>1, <2>2, <2>3, <2>5, <2>6, <2>7, <2>8 DEF Paired
  <2> QED  BY <1>1, <1>8, <2>1, <2>5, <2>6, <2>9, SameReads DEF DeltaInv, ObligationsHaveOneFate
<1> QED  BY <1>3, <1>6, <1>7, <1>8

LEMMA PairDocumentStep ==
  ASSUME DeltaInv, at = "pair", Scope # "paragraph_amendment", PairDocument,
         UNCHANGED <<event, targetLive, liveIn, liveObligations, firstUnder, attempt, diffEntries, oldTasks, heard, proposal>>
  PROVE  DeltaInv'
<1> DEFINE newOf(ref) == {i \in DOMAIN event.clauses : event.clauses[i].ref = ref}
           matched == {c \in OldClauses : newOf(c.ref) # {}}
           Kept(c) == Direct(c.ref, c, Words(event.clauses[Max(newOf(c.ref))]))
           S == OldClauses \ matched
<1>1. Scope' = Scope /\ DueRefs' = {c.ref : c \in OldClauses} /\ heard = {} /\ heard' = {}
      /\ \A r : Single(r)' => \A c, e \in OldClauses : c.ref = r /\ e.ref = r => c = e
  BY SMTT(30) DEF Scope, DueRefs, DeltaInv, Single
<1>2. ASSUME NEW c \in OldClauses PROVE Kept(c).ref = c.ref /\ Justified(Kept(c), heard', Scope)
  <2> DEFINE text == Words(event.clauses[Max(newOf(c.ref))])
             d == Direct(c.ref, c, text)
  <2> HIDE DEF text
  <2>1. /\ d.ref = c.ref /\ d.old = c /\ d.text = text /\ d.method = "single_paragraph_direct" /\ d.confidence = 100
        /\ d.text = None => d.materiality = "unchanged"
        /\ d.text # None /\ d.old # None /\ d.materiality # "unchanged" => ~(Similarity(d.old.text, d.text) >= CLAUSE_SIMILARITY_UNCHANGED_THRESHOLD)
    BY ToDiffFields DEF Direct, FULL_DOC_DIRECT_MATCH_CONFIDENCE
  <2> HIDE DEF d
  <2>2. Justified(d, heard', Scope)
    BY <2>1 DEF Justified
  <2>3. d = Kept(c)
    BY DEF d, text
  <2> QED  BY <2>1, <2>2, <2>3
<1>3. /\ diffs' = {Kept(c) : c \in matched} /\ unmatched' = SetToSeq(S)
      /\ at' = IF S = {} THEN "classify" ELSE "align"
  BY DEF PairDocument
<1>4. \A c \in matched, e \in S : c \in OldClauses /\ e \in OldClauses /\ c.ref # e.ref
  OBVIOUS
<1>5. OldClauses = matched \cup S
  OBVIOUS
<1> HIDE DEF Kept, matched
<1>6. /\ unmatched' \in Seq(OldClauses) /\ \A j, k \in DOMAIN unmatched' : unmatched'[j] = unmatched'[k] => j = k
      /\ Waiting' = S /\ (S = {} => unmatched' = <<>>)
  BY <1>3, CandidatesWait
<1> HIDE DEF S
<1>7. \A d \in diffs' : Justified(d, heard', Scope) /\ \E c \in matched : d = Kept(c) /\ d.ref = c.ref
  BY <1>2, <1>3, <1>5
<1>8. \A c \in matched : \E d \in diffs' : d.ref = c.ref
  BY <1>2, <1>3, <1>5
<1>9. Paired'
  BY <1>1, <1>4, <1>5, <1>6, <1>7, <1>8 DEF Paired
<1> QED  BY <1>1, <1>3, <1>6, <1>7, <1>9, SameReads DEF DeltaInv, ObligationsHaveOneFate

LEMMA PairStep == ASSUME DeltaInv, Pair PROVE DeltaInv'
<1>1. at = "pair" /\ UNCHANGED <<event, targetLive, liveIn, liveObligations, firstUnder, attempt, diffEntries, oldTasks, heard, proposal>>
  BY DEF Pair
<1>2. CASE Scope = "paragraph_amendment"
  <2>1. PICK old \in OldChoices : PairParagraphs(old)
    BY <1>2 DEF Pair
  <2> QED  BY <1>1, <1>2, <2>1, PairParagraphsStep
<1>3. CASE Scope # "paragraph_amendment"
  BY <1>1, <1>3, PairDocumentStep DEF Pair
<1> QED  BY <1>2, <1>3

\* The reads of the graph, and what other runs do meanwhile.
LEMMA GetCircularStep == ASSUME DeltaInv, GetCircular PROVE DeltaInv'
<1>1. at' = "live" => Scope \in {"paragraph_amendment", "full_document_supersession"}
  BY DEF GetCircular, Scope, Fail
<1>2. UNCHANGED <<event, liveIn, liveObligations, firstUnder, unmatched, diffs, diffEntries, oldTasks, heard, proposal>> /\ at' \in {"live", "failed"} /\ at = "circular"
  BY DEF GetCircular, Fail
<1>3. Scope' = Scope
  BY <1>2, SamePairs
<1> QED  BY <1>1, <1>2, <1>3, SameReads DEF DeltaInv, Doubted, ObligationsHaveOneFate

LEMMA GetLiveObligationsStep == ASSUME DeltaInv, GetLiveObligations PROVE DeltaInv'
<1>1. Scope' = Scope
  BY SamePairs DEF GetLiveObligations
<1>2. Ordered'
  BY DEF GetLiveObligations, Ordered, Under
<1>3. TasksAreRead'
  BY DEF DeltaInv, GetLiveObligations, TasksAreRead
<1> QED  BY <1>1, <1>2, <1>3 DEF DeltaInv, GetLiveObligations, Doubted, ObligationsHaveOneFate

LEMMA GraphFailsStep == ASSUME DeltaInv, GraphFails PROVE DeltaInv'
<1>1. Scope' = Scope
  BY SamePairs DEF GraphFails, Fail
<1> QED  BY <1>1, SameReads DEF DeltaInv, GraphFails, Fail, Doubted, ObligationsHaveOneFate

LEMMA BesideStep == ASSUME DeltaInv, NEW o \in TargetObligations, Close(o) \/ GetTask(o) PROVE DeltaInv'
<1>1. /\ UNCHANGED <<event, at, liveObligations, firstUnder, unmatched, diffs, diffEntries, heard, proposal>>
      /\ at \notin {"done", "failed"} /\ liveIn' \subseteq liveIn
      /\ oldTasks' = oldTasks \/ at = "tasks"
  BY DEF Close, GetTask
<1>2. Scope' = Scope /\ Paired' = Paired
  BY <1>1, SamePairs
<1>3. UNION {EntriesOf(d) : d \in diffs}' = UNION {EntriesOf(d) : d \in diffs}
  BY <1>1, SameEntries
<1>4. Ordered'
  BY <1>1 DEF DeltaInv, Ordered, Under
<1>5. TasksAreRead'
  <2>1. CASE Close(o)
    BY <2>1, SameReads DEF Close, DeltaInv
  <2>2. CASE GetTask(o)
    BY <2>2 DEF GetTask, DeltaInv, TasksAreRead
  <2> QED  BY <2>1, <2>2
<1>6. (\A x \in oldTasks : x = <<x[1], x[2]>>) => \A x \in oldTasks' : x = <<x[1], x[2]>>
  BY DEF Close, GetTask
<1>7. ~(at' = "done")
  BY <1>1
<1> QED  BY <1>1, <1>2, <1>3, <1>4, <1>5, <1>6, <1>7 DEF DeltaInv, Doubted, ObligationsHaveOneFate

LEMMA ClassifyStep == ASSUME DeltaInv, Classify PROVE DeltaInv'
<1>1. /\ UNCHANGED <<event, liveIn, liveObligations, firstUnder, unmatched, diffs, oldTasks, heard, proposal>> /\ at = "classify" /\ at' = "tasks"
      /\ diffEntries' = UNION {EntriesOf(d) : d \in diffs}
  BY DEF Classify
<1>2. Scope' = Scope /\ Paired' = Paired
  BY <1>1, SamePairs
<1>3. UNION {EntriesOf(d) : d \in diffs}' = UNION {EntriesOf(d) : d \in diffs}
  BY <1>1, SameEntries
<1> QED  BY <1>1, <1>2, <1>3, SameReads DEF DeltaInv, Doubted, ObligationsHaveOneFate

-----------------------------------------------------------------------------
(***************************************************************************)
(* What is assembled.                                                      *)
(***************************************************************************)
\* Each obligation's fate is that of an entry of a diff of its paragraph.
LEMMA FatesAreEntries ==
  ASSUME DeltaInv, Assemble, NEW o \in TargetObligations, NEW v \in Fates(o)'
  PROVE  \E e \in diffEntries :
           e.old = o /\ Closing(e) /\ v = IF e.action = "superseded" THEN e.new ELSE "repealed"
<1>1. /\ proposal'.supersessions = {[old |-> e.old, new |-> e.new, redline |-> Redline(e.old)] : e \in Superseded}
      /\ proposal'.repeals = {e.old : e \in {x \in diffEntries : x.action = "repealed"}}
  BY DEF Assemble
<1>2. CASE \E s \in proposal'.supersessions : s.old = o /\ s.new = v
  <2>1. PICK e \in Superseded : e.old = o /\ e.new = v
    BY <1>1, <1>2
  <2> QED  BY <2>1 DEF Superseded, Closing
<1>3. CASE o \in proposal'.repeals /\ v = "repealed"
  BY <1>1, <1>3 DEF Closing
<1> QED  BY <1>2, <1>3 DEF Fates

LEMMA Assembled ==
  ASSUME DeltaInv, Assemble
  PROVE  /\ at = "tasks" /\ at' = "done"
         /\ UNCHANGED <<event, targetLive, liveIn, liveObligations, firstUnder, unmatched, attempt, diffs, diffEntries, oldTasks, heard>>
         /\ Scope' = Scope /\ Scope \in {"paragraph_amendment", "full_document_supersession"}
         /\ proposal'.circularSupersession <=> Scope = "full_document_supersession"
         /\ UnresolvedRefs' = {d.ref : d \in {x \in diffs : x.method = "unresolved"}}
         /\ \A d \in diffs : \A e \in EntriesOf(d) : e \in diffEntries
         /\ \A e \in diffEntries :
              /\ e.diff \in diffs /\ Justified(e.diff, heard, Scope) /\ e \in EntriesOf(e.diff)
              /\ Closing(e) =>
                   /\ e.old \in liveObligations /\ ClauseOf[e.old].ref = e.diff.ref /\ e.diff.method # "unresolved"
                   /\ e.diff.text = None => e.diff.materiality = "material"
                   /\ e.diff.text # None /\ e.diff.old # None => e.diff.materiality # "unchanged"
              /\ e.action \in {"superseded", "newly_added"} => e.diff.method # "unresolved" /\ e.score \in 0..100
<1>1. /\ at = "tasks" /\ at' = "done"
      /\ UNCHANGED <<event, targetLive, liveIn, liveObligations, firstUnder, unmatched, attempt, diffs, diffEntries, oldTasks, heard>>
  BY DEF Assemble
<1>2. Scope' = Scope
  BY <1>1, SamePairs
<1>3. Scope \in {"paragraph_amendment", "full_document_supersession"}
  BY <1>1 DEF DeltaInv
<1>4. proposal'.circularSupersession <=> Scope = "full_document_supersession"
  BY DEF Assemble
<1>5. UnresolvedRefs' = {d.ref : d \in {x \in diffs : x.method = "unresolved"}}
  <2>1. proposal'.unresolvedAlignments = {[ref |-> d.ref, reason |-> d.reason] : d \in {x \in diffs : x.method = "unresolved"}}
    BY DEF Assemble
  <2>2. ASSUME NEW d \in diffs, d.method = "unresolved" PROVE d.ref \in UnresolvedRefs'
    <3> DEFINE u == [ref |-> d.ref, reason |-> d.reason]
    <3>1. u \in proposal'.unresolvedAlignments /\ u.ref = d.ref
      BY <2>1, <2>2
    <3> QED  BY <3>1 DEF UnresolvedRefs
  <2>3. ASSUME NEW r \in UnresolvedRefs' PROVE \E d \in diffs : d.method = "unresolved" /\ d.ref = r
    <3>1. PICK u \in proposal'.unresolvedAlignments : u.ref = r
      BY DEF UnresolvedRefs
    <3> QED  BY <2>1, <3>1
  <2> QED  BY <2>2, <2>3
<1>6. diffEntries = UNION {EntriesOf(d) : d \in diffs} /\ event \in Events /\ Ordered
      /\ \A d \in diffs : Justified(d, heard, Scope)
  BY <1>1 DEF DeltaInv
<1>7. ASSUME NEW e \in diffEntries
      PROVE  /\ e.diff \in diffs /\ Justified(e.diff, heard, Scope) /\ e \in EntriesOf(e.diff)
             /\ Closing(e) =>
                  /\ e.old \in liveObligations /\ ClauseOf[e.old].ref = e.diff.ref /\ e.diff.method # "unresolved"
                  /\ e.diff.text = None => e.diff.materiality = "material"
                  /\ e.diff.text # None /\ e.diff.old # None => e.diff.materiality # "unchanged"
             /\ e.action \in {"superseded", "newly_added"} => e.diff.method # "unresolved" /\ e.score \in 0..100
  <2>1. PICK d \in diffs : e \in EntriesOf(d)
    BY <1>6
  <2>2. e.diff = d
    BY <1>6, <2>1, EntriesAreFates
  <2> QED  BY <1>6, <2>1, <2>2, EntriesAreFates
<1> QED  BY <1>1, <1>2, <1>3, <1>4, <1>5, <1>6, <1>7

LEMMA AssembledOnce == ASSUME DeltaInv, Assemble PROVE ClosedOnce'
<1>1. ASSUME NEW o \in TargetObligations, NEW v \in Fates(o)'
      PROVE  o \in liveObligations'
  BY <1>1, Assembled, FatesAreEntries
<1>2. ASSUME NEW o \in TargetObligations, ComparedOnce(o)'
      PROVE  Cardinality(Fates(o)') <= 1 /\ (Fates(o)' # {} => ClauseOf[o].ref \notin UnresolvedRefs')
  <2> DEFINE r == ClauseOf[o].ref
  <2>1. Single(r)
    <3>1. ClauseOf[o] \in OldClauses
      BY DeltaAssumption
    <3>2. Scope = "paragraph_amendment" \/ \A c \in OldClauses : c.ref = r => c = ClauseOf[o]
      BY <1>2, Assembled DEF ComparedOnce
    <3> QED  BY <3>1, <3>2 DEF Single
  <2>2. \A d, e \in diffs : d.ref = r /\ e.ref = r => d = e
    BY <2>1, Assembled DEF DeltaInv, Paired
  <2>3. ASSUME NEW v \in Fates(o)', NEW w \in Fates(o)' PROVE v = w
    <3>1. PICK e \in diffEntries : e.old = o /\ Closing(e) /\ v = IF e.action = "superseded" THEN e.new ELSE "repealed"
      BY FatesAreEntries
    <3>2. PICK f \in diffEntries : f.old = o /\ Closing(f) /\ w = IF f.action = "superseded" THEN f.new ELSE "repealed"
      BY FatesAreEntries
    <3>3. e.diff = f.diff /\ e \in EntriesOf(e.diff) /\ f \in EntriesOf(e.diff)
      BY <2>2, <3>1, <3>2, Assembled
    <3>4. e.action = f.action /\ e.new = f.new
      <4>1. event \in Events /\ Ordered
        BY DEF DeltaInv
      <4> QED  BY <3>1, <3>2, <3>3, <4>1, EntriesAreFates
    <3> QED  BY <3>1, <3>2, <3>4
  <2>4. Cardinality(Fates(o)') <= 1
    <3>1. CASE Fates(o)' = {}
      BY <3>1, FS_EmptySet
    <3>2. CASE Fates(o)' # {}
      <4>1. PICK v \in Fates(o)' : TRUE
        BY <3>2
      <4>2. Fates(o)' = {v}
        BY <2>3, <4>1
      <4> QED  BY <4>2, FS_Singleton
    <3> QED  BY <3>1, <3>2
  <2>5. ASSUME NEW v \in Fates(o)' PROVE r \notin UnresolvedRefs'
    <3>1. PICK e \in diffEntries : e.old = o /\ Closing(e)
      BY <2>5, FatesAreEntries
    <3>2. e.diff \in diffs /\ e.diff.ref = r /\ e.diff.method # "unresolved"
      BY <3>1, Assembled
    <3> QED  BY <2>2, <3>2, Assembled
  <2> QED  BY <2>4, <2>5
<1> QED  BY <1>1, <1>2 DEF ClosedOnce

LEMMA AssembledForCause == ASSUME DeltaInv, Assemble PROVE ClosedForCause'
<1>1. SUFFICES ASSUME NEW o \in TargetObligations, NEW v \in Fates(o)'
               PROVE  \E d \in diffs :
                        /\ d.ref = ClauseOf[o].ref
                        /\ d.text = None => proposal'.circularSupersession /\ \E h \in heard : h[1] = d.ref /\ h[2].text = None
                        /\ d.text # None /\ d.old # None => ~(Similarity(d.old.text, d.text) >= CLAUSE_SIMILARITY_UNCHANGED_THRESHOLD)
                        /\ d.method = "llm_aligned" => <<d.ref, [confidence |-> d.confidence, text |-> d.text]>> \in heard /\ d.confidence >= LLM_ALIGNMENT_CONFIDENCE_THRESHOLD
  BY Assembled DEF ClosedForCause
<1>2. PICK e \in diffEntries : e.old = o /\ Closing(e)
  BY FatesAreEntries
<1> DEFINE d == e.diff
<1>3. /\ d \in diffs /\ Justified(d, heard, Scope) /\ ClauseOf[o].ref = d.ref /\ d.method # "unresolved"
      /\ d.text = None => d.materiality = "material"
      /\ d.text # None /\ d.old # None => d.materiality # "unchanged"
      /\ proposal'.circularSupersession <=> Scope = "full_document_supersession"
  BY <1>2, Assembled
<1> HIDE DEF d
<1> QED  BY <1>3 DEF Justified

LEMMA EntriesGiveFates ==
  ASSUME DeltaInv, Assemble, NEW f \in diffEntries, Closing(f)
  PROVE  (IF f.action = "superseded" THEN f.new ELSE "repealed") \in Fates(f.old)'
<1>1. /\ proposal'.supersessions = {[old |-> e.old, new |-> e.new, redline |-> Redline(e.old)] : e \in Superseded}
      /\ proposal'.repeals = {e.old : e \in {x \in diffEntries : x.action = "repealed"}}
  BY DEF Assemble
<1>2. CASE f.action = "superseded"
  <2> DEFINE s == [old |-> f.old, new |-> f.new, redline |-> Redline(f.old)]
  <2>1. s \in proposal'.supersessions /\ s.old = f.old /\ s.new = f.new
    BY <1>1, <1>2 DEF Superseded
  <2> HIDE DEF s
  <2> QED  BY <1>2, <2>1 DEF Fates
<1>3. CASE f.action = "repealed"
  BY <1>1, <1>3 DEF Fates
<1> QED  BY <1>2, <1>3 DEF Closing

LEMMA AssembledWhole == ASSUME DeltaInv, Assemble PROVE NothingIsDropped'
<1>0. event \in Events /\ liveObligations \subseteq TargetObligations /\ Ordered
  BY DEF DeltaInv
<1>1. DueRefs \subseteq {d.ref : d \in diffs}
  <2>1. Waiting = {}
    BY Assembled DEF DeltaInv, Waiting, ToSet
  <2> QED  BY <2>1, Assembled DEF DeltaInv, Paired
<1>2. ASSUME NEW r \in IF proposal'.circularSupersession THEN {ClauseOf[o].ref : o \in liveObligations} ELSE event.refs
      PROVE  \E e \in diffEntries : e.diff.ref = r /\ (Under(r) # {} => e.old \in Under(r))
  <2>1. r \in DueRefs
    BY <1>0, <1>2, Assembled, DeltaAssumption DEF DueRefs
  <2>2. PICK d \in diffs : d.ref = r
    BY <1>1, <2>1
  <2>3. PICK e \in EntriesOf(d) : e.diff = d /\ (Under(r) # {} => e.old \in Under(r))
    BY <1>0, <2>2, EntriesAreFates
  <2> QED  BY <2>2, <2>3, Assembled
<1>3. ASSUME NEW o \in liveObligations, NEW p \in liveObligations, ClauseOf[o].ref = ClauseOf[p].ref
      PROVE  Fates(o)' \subseteq Fates(p)'
  <2>1. SUFFICES ASSUME NEW v \in Fates(o)' PROVE v \in Fates(p)'
    OBVIOUS
  <2>2. PICK e \in diffEntries : e.old = o /\ Closing(e) /\ v = IF e.action = "superseded" THEN e.new ELSE "repealed"
    BY <1>0, FatesAreEntries
  <2>3. e.diff \in diffs /\ e \in EntriesOf(e.diff) /\ p \in Under(e.diff.ref)
    BY <1>3, <2>2, Assembled DEF Under
  <2> DEFINE d == e.diff
  <2>4. \A g \in EntriesOf(d), q \in Under(d.ref) :
          Closing(g) => \E f \in EntriesOf(d) : f.old = q /\ f.action = g.action /\ f.new = g.new
    <3> HIDE DEF d
    <3> QED  BY <1>0, EntriesAreFates
  <2>5. PICK f \in EntriesOf(d) : f.old = p /\ f.action = e.action /\ f.new = e.new
    BY <2>2, <2>3, <2>4
  <2>6. f \in diffEntries
    BY <2>3, <2>5, Assembled
  <2> QED  BY <2>2, <2>5, <2>6, EntriesGiveFates DEF Closing
<1>4. ASSUME NEW h \in heard, Doubted(h) PROVE h[1] \in UnresolvedRefs'
  BY <1>4, Assembled DEF DeltaInv
<1>5. ASSUME NEW s \in proposal'.supersessions \cup proposal'.additions
      PROVE  \E d \in diffs : d.method # "unresolved" /\ proposal'.overallConfidence <= d.confidence
  <2> DEFINE used == Superseded \cup {e \in diffEntries : e.action = "newly_added"}
             S == {ContextConfidence} \cup {e.diff.confidence : e \in used} \cup {e.score : e \in used}
  <2>1. /\ proposal'.supersessions = {[old |-> e.old, new |-> e.new, redline |-> Redline(e.old)] : e \in Superseded}
        /\ proposal'.additions = {[new |-> e.new, redline |-> "new"] : e \in used \ Superseded}
        /\ proposal'.overallConfidence = Min(S)
    BY DEF Assemble
  <2>2. \A e \in used : e \in diffEntries /\ e.action \in {"superseded", "newly_added"}
    BY DEF Superseded
  <2>3. PICK e \in used : TRUE
    BY <2>1
  <2> HIDE DEF used
  <2>4. \A x \in used : x.diff \in diffs /\ x.diff.method # "unresolved" /\ x.diff.confidence \in 0..100 /\ x.score \in 0..100
    BY <2>2, Assembled DEF Justified
  <2>5. ContextConfidence \in 0..100
    BY <1>0, DeltaAssumption DEF ContextConfidence
  <2>6. S \in SUBSET Nat /\ e.diff.confidence \in S
    BY <2>3, <2>4, <2>5
  <2> HIDE DEF S
  <2>7. Min(S) <= e.diff.confidence
    BY <2>6, LeastNumber
  <2> QED  BY <2>1, <2>3, <2>4, <2>7
<1>6. liveObligations' = liveObligations /\ event' = event /\ diffEntries' = diffEntries /\ diffs' = diffs /\ heard' = heard
      /\ \A r : Under(r)' = Under(r)
  BY Assembled DEF Under
<1>7. \A o, p \in liveObligations : ClauseOf[o].ref = ClauseOf[p].ref => Fates(o)' = Fates(p)'
  BY <1>3
<1> QED  BY <1>2, <1>4, <1>5, <1>6, <1>7 DEF NothingIsDropped, Doubted

LEMMA AssembledTasks == ASSUME DeltaInv, Assemble PROVE TasksAreCarried'
<1>1. ASSUME NEW s \in proposal'.supersessions
      PROVE  IF s.redline = "modified" THEN TaskOf[s.old] # None ELSE TaskOf[s.old] = None \/ s.old \notin liveIn
  <2>1. PICK e \in Superseded : s.old = e.old /\ s.redline = Redline(e.old)
    BY DEF Assemble
  <2>2. PICK x \in oldTasks : x[1] = e.old
    BY <2>1 DEF Assemble
  <2>3. \A y \in oldTasks : IF y[2] = None THEN TaskOf[y[1]] = None \/ y[1] \notin liveIn ELSE y[2] = TaskOf[y[1]]
    BY DEF DeltaInv, TasksAreRead
  <2>4. CASE <<e.old, None>> \in oldTasks
    BY <2>1, <2>3, <2>4 DEF Redline
  <2>5. CASE <<e.old, None>> \notin oldTasks
    <3>1. x = <<x[1], x[2]>>
      BY <2>2 DEF DeltaInv
    <3>2. x[2] # None
      BY <2>2, <2>5, <3>1
    <3> QED  BY <2>1, <2>2, <2>3, <2>5, <3>2 DEF Redline
  <2> QED  BY <2>4, <2>5
<1> QED  BY <1>1, Assembled DEF TasksAreCarried

LEMMA AssembleStep == ASSUME DeltaInv, Assemble PROVE DeltaInv'
<1>1. ObligationsHaveOneFate'
  BY AssembledOnce, AssembledForCause, AssembledWhole, AssembledTasks DEF ObligationsHaveOneFate
<1> QED  BY <1>1, Assembled, SameReads DEF DeltaInv, Doubted

LEMMA NextDelta == ASSUME DeltaInv, [DeltaNext]_deltaVars PROVE DeltaInv'
<1>1. CASE DeltaNext
  BY <1>1, GetCircularStep, GetLiveObligationsStep, PairStep, AlignStep, AlignFailsStep, ClassifyStep, AssembleStep,
     GraphFailsStep, BesideStep DEF DeltaNext
<1>2. CASE UNCHANGED deltaVars
  <2>1. Scope' = Scope /\ Paired' = Paired
    BY <1>2, SamePairs DEF deltaVars
  <2>2. UNION {EntriesOf(d) : d \in diffs}' = UNION {EntriesOf(d) : d \in diffs}
    BY <1>2, SameEntries DEF deltaVars
  <2>3. ObligationsHaveOneFate' = ObligationsHaveOneFate
    <3>1. \A r : Under(r)' = Under(r)
      BY <1>2 DEF deltaVars, Under
    <3>2. /\ UNCHANGED <<at, event, liveIn, liveObligations, diffs, diffEntries, heard, proposal>>
          /\ UnresolvedRefs' = UnresolvedRefs /\ \A o : Fates(o)' = Fates(o) /\ (ComparedOnce(o)' <=> ComparedOnce(o))
      BY <1>2, <2>1 DEF deltaVars, Fates, UnresolvedRefs, ComparedOnce
    <3>3. ClosedOnce' = ClosedOnce
      BY <3>2 DEF ClosedOnce
    <3>4. ClosedForCause' = ClosedForCause
      BY <3>2 DEF ClosedForCause
    <3>5. NothingIsDropped' = NothingIsDropped
      BY <3>1, <3>2 DEF NothingIsDropped
    <3>6. TasksAreCarried' = TasksAreCarried
      BY <3>2 DEF TasksAreCarried
    <3> QED  BY <3>2, <3>3, <3>4, <3>5, <3>6 DEF ObligationsHaveOneFate
  <2> QED  BY <1>2, <2>1, <2>2, <2>3, SameReads DEF deltaVars, DeltaInv, Doubted
<1> QED  BY <1>1, <1>2

(***************************************************************************)
(* Every paragraph a proposal has to account for has one diff or waits for *)
(* its answer, and every diff says what was stated, numbered or answered   *)
(* (clause pairing and alignment, change-and-delta.core.ts).               *)
(***************************************************************************)
THEOREM DeltaInvAlways == DeltaSpec => []DeltaInv
  BY InitDelta, NextDelta, PTL DEF DeltaSpec

(***************************************************************************)
(* However the model answers, and whatever other runs close meanwhile, a   *)
(* proposal closes what was live, for a cause that was stated or answered; *)
(* each obligation of a paragraph compared once at most once; and it drops *)
(* nothing (classifyObligationDiffs, assembleChangeProposal).              *)
(***************************************************************************)
THEOREM ObligationsAlwaysHaveOneFate == DeltaSpec => []ObligationsHaveOneFate
<1>1. DeltaInv => ObligationsHaveOneFate
  BY DEF DeltaInv
<1> QED  BY <1>1, DeltaInvAlways, PTL

=============================================================================
