----------------------- MODULE TicketingOutboxProofs -----------------------
(***************************************************************************)
(* Proofs about TicketingOutbox: types; that no row is ticked off without  *)
(* its ticket, whatever fails and however many runs overlap; that no two   *)
(* runs work on one row; and that a task has one ticket, and the ledger    *)
(* tells the truth about it, but for what the history says befell it.      *)
(*                                                                         *)
(* A step is taken apart into what it does to the stores (StoresGo) and    *)
(* what it does to the run that takes it (WorkerGoes).                     *)
(***************************************************************************)
EXTENDS TicketingOutbox, SequenceTheorems, TLAPS

EntryType ==
  [type : {"TICKET_CREATED", "TICKET_CREATE_FAILED"}, task : Tasks, ticket : Nat \cup {None}]

\* What a run relies on where it is.
Coherent ==
  /\ \A w \in Workers :
       /\ pc[w] \in WorkerLabels \ {"claim"} => batch[w] # <<>>
       /\ pc[w] = "map" => made[w] # None
       /\ pc[w] = "succeed" => mapping[TaskOf(w)] # None
  /\ \A s \in Sweepers : pc[s] \in {"inFlight", "enqueue"} => at[s] \in Tasks

OutboxInv == ProgramTypes /\ Coherent /\ SucceededIsMapped

StoresGo ==
  /\ committed' \subseteq Tasks
  /\ rows' \in Seq(RowType)
  /\ \A n \in DOMAIN rows : n \in DOMAIN rows' /\ rows'[n].task = rows[n].task
  /\ mapping' \in [Tasks -> Nat \cup {None}]
  /\ \A t \in Tasks : mapping[t] # None => mapping'[t] # None
  /\ tickets' \in [Tasks -> Nat]
  /\ entries' \subseteq EntryType

ClaimType == [id : DOMAIN rows, attempts : Nat]

WorkerGoes(w) ==
  /\ pc' \in [Runs -> {"idle"} \cup WorkerLabels \cup SweeperLabels]
  /\ DOMAIN todo' = Runs /\ todo'[w] \subseteq DOMAIN rows
  /\ batch' \in [Workers -> Seq(ClaimType)]
  /\ guarded' \in [Workers -> BOOLEAN]
  /\ made' \in [Workers -> Nat \cup {None}]
  /\ at' = at
  /\ \A p \in Runs : p # w => pc'[p] = pc[p] /\ todo'[p] = todo[p]
  /\ \A v \in Workers : v # w => batch'[v] = batch[v] /\ made'[v] = made[v]
  /\ pc'[w] \in WorkerLabels \ {"claim"} => batch'[w] # <<>>
  /\ pc'[w] = "map" => made'[w] # None

-----------------------------------------------------------------------------
(* Sequences.                                                              *)

LEMMA HeadAndTail ==
  ASSUME NEW S, NEW q \in Seq(S), q # <<>>
  PROVE  /\ Head(q) \in S /\ Tail(q) \in Seq(S)
         /\ Len(q) # 1 => Tail(q) # <<>>
         /\ \A i \in DOMAIN Tail(q) : i + 1 \in DOMAIN q /\ Tail(q)[i] = q[i + 1]
<1>1. /\ Head(q) \in S /\ Tail(q) \in Seq(S) /\ Len(Tail(q)) = Len(q) - 1
      /\ \A i \in 1..Len(Tail(q)) : Tail(q)[i] = q[i + 1]
  BY HeadTailProperties
<1>2. Len(q) \in Nat \ {0} /\ Len(<<>>) = 0
  BY EmptySeq
<1>3. DOMAIN q = 1..Len(q) /\ DOMAIN Tail(q) = 1..Len(Tail(q))
  BY <1>1, LenProperties
<1>4. Len(q) # 1 => Tail(q) # <<>>
  <2>1. Tail(q) = <<>> => Len(Tail(q)) = Len(<<>>)
    BY Zenon
  <2> QED  BY <1>1, <1>2, <2>1
<1>5. \A i \in 1..Len(Tail(q)) : i + 1 \in 1..Len(q)
  BY <1>1, <1>2
<1> QED  BY <1>1, <1>3, <1>4, <1>5

-----------------------------------------------------------------------------
(* Rows.                                                                   *)

LEMMA RowsOfType ==
  ASSUME ProgramTypes, NEW n \in DOMAIN rows
  PROVE  rows[n] \in RowType
  BY DEF ProgramTypes

\* Setting the status of a row that is there keeps the rows and their tasks.
LEMMA SetRowSound ==
  ASSUME ProgramTypes, NEW n \in DOMAIN rows, NEW status \in Statuses,
         NEW attempts \in Nat, NEW due \in BOOLEAN,
         SetRow(n, status, attempts, due)
  PROVE  /\ rows' \in Seq(RowType)
         /\ DOMAIN rows' = DOMAIN rows
         /\ \A k \in DOMAIN rows : rows'[k].task = rows[k].task
         /\ \A k \in DOMAIN rows : k # n => rows'[k] = rows[k]
         /\ rows'[n].status = status
<1> DEFINE new == [rows[n] EXCEPT !.status = status, !.attempts = attempts, !.due = due]
<1>1. rows[n] \in RowType
  BY RowsOfType
<1>2. new \in RowType /\ new.task = rows[n].task /\ new.status = status
  BY <1>1 DEF RowType
<1>3. rows' = [rows EXCEPT ![n] = new]
  BY DEF SetRow
<1> HIDE DEF new
<1>4. rows \in Seq(RowType)
  BY DEF ProgramTypes
<1> QED  BY <1>2, <1>3, <1>4

\* A new row stands behind the others.
LEMMA EnqueuedSound ==
  ASSUME ProgramTypes, NEW t \in Tasks, rows' = Enqueued(t)
  PROVE  /\ rows' \in Seq(RowType)
         /\ \A k \in DOMAIN rows : k \in DOMAIN rows' /\ rows'[k] = rows[k]
         /\ \A k \in DOMAIN rows' : k \in DOMAIN rows \/ rows'[k].status = "pending"
<1> DEFINE new == [task |-> t, status |-> "pending", attempts |-> 0, due |-> TRUE]
<1>1. new \in RowType /\ new.status = "pending"
  BY DEF RowType, Statuses
<1>2. rows' = Append(rows, new) /\ rows \in Seq(RowType)
  BY DEF Enqueued, ProgramTypes
<1> HIDE DEF new
<1> QED  BY <1>1, <1>2

-----------------------------------------------------------------------------
(* Putting the two halves of a step together.                              *)

LEMMA WorkerStep ==
  ASSUME OutboxInv, NEW w \in Workers, StoresGo, WorkerGoes(w), SucceededIsMapped',
         pc'[w] = "succeed" => mapping'[rows'[Head(batch'[w]).id].task] # None
  PROVE  OutboxInv'
<1>1. DOMAIN rows \subseteq DOMAIN rows'
  BY DEF StoresGo
<1>2. w \notin Sweepers /\ w \in Runs
  BY OutboxAssumption DEF Runs
<1>3. ProgramTypes'
  <2>1. batch' \in [Workers -> Seq([id : DOMAIN rows', attempts : Nat])]
    <3>1. \A v \in Workers : batch'[v] \in Seq(ClaimType)
      BY DEF WorkerGoes
    <3>2. PICK old, new : old = ClaimType /\ new = [id : DOMAIN rows', attempts : Nat]
      OBVIOUS
    <3>3. old \subseteq new
      BY <1>1, <3>2 DEF ClaimType
    <3>4. \A v \in Workers : batch'[v] \in Seq(new)
      <4>1. ASSUME NEW v \in Workers PROVE batch'[v] \in Seq(new)
        <5>1. PICK q : q = batch'[v]
          OBVIOUS
        <5>2. q \in Seq(old)
          BY <3>1, <3>2, <5>1
        <5> QED  BY <3>3, <5>1, <5>2, SeqMonotonic
      <4> QED  BY <4>1
    <3> QED  BY <3>2, <3>4 DEF WorkerGoes
  <2>2. \A s \in Sweepers : todo'[s] \subseteq Tasks
    BY <1>2 DEF WorkerGoes, OutboxInv, ProgramTypes, Runs
  <2>3. \A v \in Workers : todo'[v] \subseteq DOMAIN rows'
    BY <1>1 DEF WorkerGoes, OutboxInv, ProgramTypes, Runs
  <2>4. at' \in [Sweepers -> Tasks \cup {None}]
    BY DEF WorkerGoes, OutboxInv, ProgramTypes
  <2> QED  BY <2>1, <2>2, <2>3, <2>4 DEF ProgramTypes, StoresGo, WorkerGoes, EntryType
<1>4. Coherent'
  <2>1. ASSUME NEW v \in Workers, v # w, pc'[v] = "succeed"
        PROVE  mapping'[TaskOf(v)'] # None
    <3>1. pc[v] = "succeed" /\ batch'[v] = batch[v]
      BY <2>1 DEF WorkerGoes, Runs
    <3>2. batch[v] \in Seq(ClaimType) /\ batch[v] # <<>> /\ mapping[TaskOf(v)] # None
      BY <3>1 DEF OutboxInv, ProgramTypes, Coherent, ClaimType, WorkerLabels
    <3>3. Head(batch[v]).id \in DOMAIN rows
      <4>1. PICK S, q : S = ClaimType /\ q = batch[v]
        OBVIOUS
      <4>2. Head(q) \in S
        BY <3>2, <4>1, HeadAndTail
      <4> QED  BY <4>1, <4>2 DEF ClaimType
    <3>4. rows[Head(batch[v]).id].task \in Tasks
      BY <3>3, RowsOfType DEF OutboxInv, RowType
    <3> QED  BY <3>1, <3>2, <3>3, <3>4 DEF StoresGo, TaskOf, Current
  <2>2. ASSUME NEW v \in Workers
        PROVE  /\ pc'[v] \in WorkerLabels \ {"claim"} => batch'[v] # <<>>
               /\ pc'[v] = "map" => made'[v] # None
    BY DEF WorkerGoes, OutboxInv, Coherent, Runs
  <2>3. \A s \in Sweepers : pc'[s] \in {"inFlight", "enqueue"} => at'[s] \in Tasks
    BY <1>2 DEF WorkerGoes, OutboxInv, Coherent, Runs
  <2> QED  BY <2>1, <2>2, <2>3 DEF Coherent, TaskOf, Current
<1> QED  BY <1>3, <1>4 DEF OutboxInv

\* Rows that are not newly "succeeded" keep what they have.
LEMMA StillMapped ==
  ASSUME OutboxInv, StoresGo,
         \A n \in DOMAIN rows' : rows'[n].status = "succeeded" =>
           \/ n \in DOMAIN rows /\ rows[n].status = "succeeded"
           \/ mapping'[rows'[n].task] # None
  PROVE  SucceededIsMapped'
<1> SUFFICES ASSUME NEW n \in DOMAIN rows', rows'[n].status = "succeeded",
                    n \in DOMAIN rows, rows[n].status = "succeeded"
             PROVE  mapping'[rows'[n].task] # None
  BY DEF SucceededIsMapped
<1>1. mapping[rows[n].task] # None /\ rows'[n].task = rows[n].task
  BY DEF OutboxInv, SucceededIsMapped, StoresGo
<1>2. rows[n].task \in Tasks
  BY RowsOfType DEF OutboxInv, RowType
<1> QED  BY <1>1, <1>2 DEF StoresGo

LEMMA StoresStay ==
  ASSUME OutboxInv, UNCHANGED <<committed, stores>>
  PROVE  StoresGo /\ SucceededIsMapped'
  BY DEF OutboxInv, ProgramTypes, StoresGo, SucceededIsMapped, stores, EntryType

\* Only the ledger has an entry more.
LEMMA EntriesGrow ==
  ASSUME OutboxInv, UNCHANGED <<committed, rows, mapping, tickets>>, entries' \subseteq EntryType
  PROVE  StoresGo /\ SucceededIsMapped'
  BY DEF OutboxInv, ProgramTypes, StoresGo, SucceededIsMapped

LEMMA TicketsGrow ==
  ASSUME OutboxInv, UNCHANGED <<committed, rows, mapping, entries>>, tickets' \in [Tasks -> Nat]
  PROVE  StoresGo /\ SucceededIsMapped'
  BY DEF OutboxInv, ProgramTypes, StoresGo, SucceededIsMapped, EntryType

LEMMA RowSet ==
  ASSUME OutboxInv, NEW n \in DOMAIN rows, NEW status \in Statuses,
         NEW attempts \in Nat, NEW due \in BOOLEAN,
         SetRow(n, status, attempts, due),
         UNCHANGED <<committed, mapping, tickets, entries>>,
         status = "succeeded" => mapping[rows[n].task] # None
  PROVE  StoresGo /\ SucceededIsMapped'
<1>1. /\ rows' \in Seq(RowType)
      /\ DOMAIN rows' = DOMAIN rows
      /\ \A k \in DOMAIN rows : rows'[k].task = rows[k].task
      /\ \A k \in DOMAIN rows : k # n => rows'[k] = rows[k]
      /\ rows'[n].status = status
  BY SetRowSound DEF OutboxInv
<1>2. StoresGo
  BY <1>1 DEF OutboxInv, ProgramTypes, StoresGo, EntryType
<1>3. \A k \in DOMAIN rows' : rows'[k].status = "succeeded" =>
        \/ k \in DOMAIN rows /\ rows[k].status = "succeeded"
        \/ mapping'[rows'[k].task] # None
  BY <1>1
<1> QED  BY <1>2, <1>3, StillMapped

-----------------------------------------------------------------------------
(* Where a worker goes.                                                    *)

LEMMA CurrentSound ==
  ASSUME OutboxInv, NEW w \in Workers, pc[w] \in WorkerLabels \ {"claim"}
  PROVE  /\ batch[w] # <<>>
         /\ Current(w).id \in DOMAIN rows /\ Current(w).attempts \in Nat
         /\ rows[Current(w).id] \in RowType
         /\ TaskOf(w) \in Tasks
<1>1. batch[w] \in Seq(ClaimType) /\ batch[w] # <<>>
  BY DEF OutboxInv, ProgramTypes, Coherent, ClaimType
<1>2. Current(w) \in ClaimType
  <2>1. PICK S, q : S = ClaimType /\ q = batch[w]
    OBVIOUS
  <2>2. Head(q) \in S
    BY <1>1, <2>1, HeadAndTail
  <2> QED  BY <2>1, <2>2 DEF Current
<1>3. rows[Current(w).id] \in RowType
  BY <1>2, RowsOfType DEF ClaimType, OutboxInv
<1> QED  BY <1>1, <1>2, <1>3 DEF ClaimType, TaskOf, RowType

LEMMA ProceedGoes ==
  ASSUME OutboxInv, NEW w \in Workers, pc[w] \in WorkerLabels \ {"claim"},
         NEW label \in WorkerLabels, Goto(w, label),
         UNCHANGED <<todo, at, batch, guarded>>,
         made' \in [Workers -> Nat \cup {None}],
         \A v \in Workers : v # w => made'[v] = made[v],
         label = "map" => made'[w] # None
  PROVE  WorkerGoes(w) /\ pc'[w] = label /\ batch' = batch
<1>1. pc'[w] = label /\ pc' \in [Runs -> {"idle"} \cup WorkerLabels \cup SweeperLabels]
      /\ \A p \in Runs : p # w => pc'[p] = pc[p]
  BY DEF Goto, OutboxInv, ProgramTypes, Runs
<1>2. batch[w] # <<>>
  BY CurrentSound
<1> QED  BY <1>1, <1>2 DEF WorkerGoes, OutboxInv, ProgramTypes, ClaimType

LEMMA FinishGoes ==
  ASSUME OutboxInv, NEW w \in Workers, pc[w] \in WorkerLabels \ {"claim"},
         Finish(w), UNCHANGED <<todo, at>>
  PROVE  WorkerGoes(w) /\ pc'[w] # "succeed"
<1>1. batch[w] \in Seq(ClaimType) /\ batch[w] # <<>>
  BY CurrentSound DEF OutboxInv, ProgramTypes, ClaimType
<1>2. Tail(batch[w]) \in Seq(ClaimType) /\ (Len(batch[w]) # 1 => Tail(batch[w]) # <<>>)
  <2>1. PICK S, q : S = ClaimType /\ q = batch[w]
    OBVIOUS
  <2>2. Tail(q) \in Seq(S) /\ (Len(q) # 1 => Tail(q) # <<>>)
    BY <1>1, <2>1, HeadAndTail
  <2> QED  BY <2>1, <2>2
<1>3. /\ pc'[w] = IF Len(batch[w]) = 1 THEN "idle" ELSE "find"
      /\ pc' \in [Runs -> {"idle"} \cup WorkerLabels \cup SweeperLabels]
      /\ \A p \in Runs : p # w => pc'[p] = pc[p]
  BY DEF Finish, Goto, OutboxInv, ProgramTypes, Runs, WorkerLabels
<1>4. /\ batch' \in [Workers -> Seq(ClaimType)] /\ batch'[w] = Tail(batch[w])
      /\ \A v \in Workers : v # w => batch'[v] = batch[v]
  BY <1>2 DEF Finish, OutboxInv, ProgramTypes, ClaimType
<1>5. /\ guarded' \in [Workers -> BOOLEAN] /\ made' \in [Workers -> Nat \cup {None}]
      /\ \A v \in Workers : v # w => made'[v] = made[v]
  BY DEF Finish, OutboxInv, ProgramTypes
<1>6. /\ pc'[w] \in WorkerLabels \ {"claim"} => batch'[w] # <<>>
      /\ pc'[w] # "map" /\ pc'[w] # "succeed"
  BY <1>2, <1>3, <1>4 DEF WorkerLabels
<1>7. DOMAIN todo' = Runs /\ todo'[w] \subseteq DOMAIN rows /\ todo' = todo /\ at' = at
  BY DEF OutboxInv, ProgramTypes
<1> QED  BY <1>3, <1>4, <1>5, <1>6, <1>7 DEF WorkerGoes

LEMMA AbandonGoes ==
  ASSUME OutboxInv, NEW w \in Workers, Abandon(w), at' = at
  PROVE  WorkerGoes(w) /\ pc'[w] # "succeed"
<1>1. <<>> \in Seq(ClaimType)
  OBVIOUS
<1>2. /\ pc'[w] = "idle"
      /\ pc' \in [Runs -> {"idle"} \cup WorkerLabels \cup SweeperLabels]
      /\ \A p \in Runs : p # w => pc'[p] = pc[p]
  BY DEF Abandon, Goto, OutboxInv, ProgramTypes, Runs
<1>3. /\ batch' \in [Workers -> Seq(ClaimType)]
      /\ \A v \in Workers : v # w => batch'[v] = batch[v]
  BY <1>1 DEF Abandon, OutboxInv, ProgramTypes, ClaimType
<1>4. /\ guarded' \in [Workers -> BOOLEAN] /\ made' \in [Workers -> Nat \cup {None}]
      /\ \A v \in Workers : v # w => made'[v] = made[v]
  BY DEF Abandon, OutboxInv, ProgramTypes
<1>5. /\ DOMAIN todo' = Runs /\ todo'[w] \subseteq DOMAIN rows
      /\ \A p \in Runs : p # w => todo'[p] = todo[p]
  BY DEF Abandon, OutboxInv, ProgramTypes, Runs
<1>6. pc'[w] \notin WorkerLabels /\ pc'[w] # "map" /\ pc'[w] # "succeed"
  BY <1>2 DEF WorkerLabels
<1> QED  BY <1>2, <1>3, <1>4, <1>5, <1>6 DEF WorkerGoes

LEMMA CaughtGoes ==
  ASSUME OutboxInv, NEW w \in Workers, pc[w] \in WorkerLabels \ {"claim"},
         Caught(w), at' = at
  PROVE  WorkerGoes(w) /\ pc'[w] # "succeed"
<1>1. CASE guarded[w]
  <2>1. PICK label \in {"retry", "giveUp"} : Goto(w, label)
    BY <1>1 DEF Caught, HandleRetryable
  <2>2. /\ pc'[w] = label
        /\ pc' \in [Runs -> {"idle"} \cup WorkerLabels \cup SweeperLabels]
        /\ \A p \in Runs : p # w => pc'[p] = pc[p]
    BY <2>1 DEF Goto, OutboxInv, ProgramTypes, Runs, WorkerLabels
  <2>3. guarded' \in [Workers -> BOOLEAN] /\ UNCHANGED <<todo, batch, made>>
    BY <1>1 DEF Caught, OutboxInv, ProgramTypes
  <2>4. batch[w] # <<>>
    BY CurrentSound
  <2> QED  BY <2>2, <2>3, <2>4 DEF WorkerGoes, OutboxInv, ProgramTypes, ClaimType, Runs
<1>2. CASE ~guarded[w]
  BY <1>2, AbandonGoes DEF Caught
<1> QED  BY <1>1, <1>2

-----------------------------------------------------------------------------
(* One lemma for each action of a worker.                                  *)

\* A step that goes anywhere but to "succeed".
LEMMA WorkerDone ==
  ASSUME OutboxInv, NEW w \in Workers, StoresGo, SucceededIsMapped',
         WorkerGoes(w) /\ pc'[w] # "succeed"
  PROVE  OutboxInv'
  BY WorkerStep

LEMMA FindMappingStep ==
  ASSUME OutboxInv, NEW w \in Workers, FindMapping(w) PROVE OutboxInv'
<1>1. pc[w] \in WorkerLabels \ {"claim"}
  BY DEF FindMapping, WorkerLabels
<1>2. StoresGo /\ SucceededIsMapped'
  BY StoresStay DEF FindMapping
<1>3. PICK label \in {"succeed", "lineage"} :
        Goto(w, label) /\ (label = "succeed" => mapping[TaskOf(w)] # None)
  BY DEF FindMapping, Proceed
<1>4. WorkerGoes(w) /\ pc'[w] = label /\ batch' = batch
  BY <1>1, <1>3, ProceedGoes DEF FindMapping, Proceed, WorkerLabels, OutboxInv, ProgramTypes
<1> QED  BY <1>2, <1>3, <1>4, WorkerStep DEF FindMapping, TaskOf, Current, stores

LEMMA LineageStep ==
  ASSUME OutboxInv, NEW w \in Workers, Lineage(w) PROVE OutboxInv'
<1>1. pc[w] \in WorkerLabels \ {"claim"}
  BY DEF Lineage, WorkerLabels
<1>2. StoresGo /\ SucceededIsMapped'
  BY StoresStay DEF Lineage
<1>3. PICK label \in {"giveUp", "create"} : Goto(w, label)
  BY DEF Lineage, Proceed
<1>4. WorkerGoes(w) /\ pc'[w] # "succeed"
  BY <1>1, <1>3, ProceedGoes DEF Lineage, Proceed, WorkerLabels, OutboxInv, ProgramTypes
<1> QED  BY <1>2, <1>4, WorkerDone

LEMMA CreateTicketStep ==
  ASSUME OutboxInv, NEW w \in Workers, CreateTicket(w) PROVE OutboxInv'
<1>1. pc[w] \in WorkerLabels \ {"claim"} /\ TaskOf(w) \in Tasks
  BY CurrentSound DEF CreateTicket, WorkerLabels
<1>2. tickets' \in [Tasks -> Nat] /\ tickets'[TaskOf(w)] \in Nat
  <2>1. tickets[TaskOf(w)] + 1 \in Nat
    BY <1>1 DEF OutboxInv, ProgramTypes
  <2> QED  BY <1>1, <2>1 DEF CreateTicket, NewTicket, OutboxInv, ProgramTypes
<1>3. StoresGo /\ SucceededIsMapped'
  BY <1>2, TicketsGrow DEF CreateTicket
<1>4. made' \in [Workers -> Nat \cup {None}] /\ made'[w] # None
      /\ \A v \in Workers : v # w => made'[v] = made[v]
  BY <1>2, OutboxAssumption DEF CreateTicket, OutboxInv, ProgramTypes
<1>5. WorkerGoes(w) /\ pc'[w] # "succeed"
  BY <1>1, <1>4, ProceedGoes DEF CreateTicket, WorkerLabels
<1> QED  BY <1>3, <1>5, WorkerDone

LEMMA CreateFailsStep ==
  ASSUME OutboxInv, NEW w \in Workers, CreateFails(w) PROVE OutboxInv'
<1>1. pc[w] \in WorkerLabels \ {"claim"} /\ TaskOf(w) \in Tasks
  BY CurrentSound DEF CreateFails, WorkerLabels
<1>2. tickets' \in [Tasks -> Nat]
  <2>1. tickets[TaskOf(w)] + 1 \in Nat
    BY <1>1 DEF OutboxInv, ProgramTypes
  <2> QED  BY <1>1, <2>1 DEF CreateFails, NewTicket, OutboxInv, ProgramTypes
<1>3. StoresGo /\ SucceededIsMapped'
  BY <1>2, TicketsGrow DEF CreateFails
<1>4. PICK label \in {"retry", "giveUp"} : Goto(w, label)
  BY DEF CreateFails, HandleRetryable
<1>5. WorkerGoes(w) /\ pc'[w] # "succeed"
  BY <1>1, <1>4, ProceedGoes DEF CreateFails, WorkerLabels, locals, OutboxInv, ProgramTypes
<1> QED  BY <1>3, <1>5, WorkerDone

\* The mapping is there before the row is ticked off: FR-15.
LEMMA InsertMappingStep ==
  ASSUME OutboxInv, NEW w \in Workers, InsertMapping(w) PROVE OutboxInv'
<1>1. pc[w] \in WorkerLabels \ {"claim"} /\ TaskOf(w) \in Tasks /\ made[w] \in Nat
  BY CurrentSound DEF InsertMapping, WorkerLabels, OutboxInv, ProgramTypes, Coherent
<1>2. /\ mapping' \in [Tasks -> Nat \cup {None}]
      /\ mapping'[TaskOf(w)] # None
      /\ \A t \in Tasks : mapping[t] # None => mapping'[t] # None
  BY <1>1, OutboxAssumption DEF InsertMapping, OutboxInv, ProgramTypes
<1>3. StoresGo
  BY <1>2, SMTT(30) DEF StoresGo, InsertMapping, OutboxInv, ProgramTypes, EntryType
<1>4. SucceededIsMapped'
  BY <1>3, StillMapped DEF InsertMapping
<1>5. CASE Proceed(w, "succeed")
  <2>1. WorkerGoes(w) /\ batch' = batch
    BY <1>1, <1>5, ProceedGoes DEF InsertMapping, Proceed, WorkerLabels, OutboxInv, ProgramTypes
  <2> QED  BY <1>2, <1>3, <1>4, <2>1, WorkerStep DEF InsertMapping, TaskOf, Current
<1>6. CASE AnswerLost(w)
  <2>1. WorkerGoes(w) /\ pc'[w] # "succeed"
    BY <1>1, <1>6, CaughtGoes DEF AnswerLost, InsertMapping
  <2> QED  BY <1>3, <1>4, <2>1, WorkerDone
<1> QED  BY <1>5, <1>6 DEF InsertMapping

LEMMA MarkSucceededStep ==
  ASSUME OutboxInv, NEW w \in Workers, MarkSucceeded(w) PROVE OutboxInv'
<1>1. /\ pc[w] \in WorkerLabels \ {"claim"}
      /\ Current(w).id \in DOMAIN rows /\ rows[Current(w).id] \in RowType
  BY CurrentSound DEF MarkSucceeded, WorkerLabels
<1>2. StoresGo /\ SucceededIsMapped'
  <2>1. mapping[rows[Current(w).id].task] # None
    BY DEF MarkSucceeded, OutboxInv, Coherent, TaskOf
  <2> QED  BY <1>1, <2>1, RowSet DEF MarkSucceeded, SetStatus, RowType, Statuses
<1>3. WorkerGoes(w) /\ pc'[w] # "succeed"
  <2>1. CASE Finish(w) /\ UNCHANGED todo
    BY <1>1, <2>1, FinishGoes DEF MarkSucceeded
  <2>2. CASE Proceed(w, "announce")
    BY <1>1, <2>2, ProceedGoes DEF MarkSucceeded, Proceed, WorkerLabels, OutboxInv, ProgramTypes
  <2>3. CASE AnswerLost(w)
    BY <1>1, <2>3, CaughtGoes DEF MarkSucceeded, AnswerLost
  <2> QED  BY <2>1, <2>2, <2>3 DEF MarkSucceeded
<1> QED  BY <1>2, <1>3, WorkerDone

LEMMA AnnounceStep ==
  ASSUME OutboxInv, NEW w \in Workers, Announce(w) \/ AnnounceFailure(w) PROVE OutboxInv'
<1>1. pc[w] \in WorkerLabels \ {"claim"} /\ TaskOf(w) \in Tasks
  BY CurrentSound DEF Announce, AnnounceFailure, WorkerLabels
<1>2. entries' \subseteq EntryType
  BY <1>1 DEF Announce, AnnounceFailure, Record, EntryType, OutboxInv, ProgramTypes
<1>3. StoresGo /\ SucceededIsMapped'
  BY <1>2, EntriesGrow DEF Announce, AnnounceFailure
<1>4. WorkerGoes(w) /\ pc'[w] # "succeed"
  BY <1>1, FinishGoes DEF Announce, AnnounceFailure
<1> QED  BY <1>3, <1>4, WorkerDone

LEMMA MarkRetryableStep ==
  ASSUME OutboxInv, NEW w \in Workers, MarkRetryable(w) PROVE OutboxInv'
<1>1. /\ pc[w] \in WorkerLabels \ {"claim"}
      /\ Current(w).id \in DOMAIN rows /\ rows[Current(w).id] \in RowType
  BY CurrentSound DEF MarkRetryable, WorkerLabels
<1>2. StoresGo /\ SucceededIsMapped'
  <2>1. rows[Current(w).id].attempts + 1 \in Nat
    BY <1>1 DEF RowType
  <2> QED  BY <1>1, <2>1, RowSet DEF MarkRetryable, Statuses
<1>3. WorkerGoes(w) /\ pc'[w] # "succeed"
  BY <1>1, FinishGoes, CaughtGoes DEF MarkRetryable, AnswerLost
<1> QED  BY <1>2, <1>3, WorkerDone

LEMMA MarkPermanentFailureStep ==
  ASSUME OutboxInv, NEW w \in Workers, MarkPermanentFailure(w) PROVE OutboxInv'
<1>1. /\ pc[w] \in WorkerLabels \ {"claim"}
      /\ Current(w).id \in DOMAIN rows /\ rows[Current(w).id] \in RowType
  BY CurrentSound DEF MarkPermanentFailure, WorkerLabels
<1>2. StoresGo /\ SucceededIsMapped'
  <2>1. rows[Current(w).id].attempts + 1 \in Nat /\ rows[Current(w).id].due \in BOOLEAN
    BY <1>1 DEF RowType
  <2> QED  BY <1>1, <2>1, RowSet DEF MarkPermanentFailure, Statuses
<1>3. WorkerGoes(w) /\ pc'[w] # "succeed"
  <2>1. CASE Proceed(w, "announceFailure")
    BY <1>1, <2>1, ProceedGoes DEF MarkPermanentFailure, Proceed, WorkerLabels, OutboxInv, ProgramTypes
  <2>2. CASE AnswerLost(w)
    BY <1>1, <2>2, CaughtGoes DEF MarkPermanentFailure, AnswerLost
  <2> QED  BY <2>1, <2>2 DEF MarkPermanentFailure
<1> QED  BY <1>2, <1>3, WorkerDone

LEMMA QueryFailsStep ==
  ASSUME OutboxInv, NEW w \in Workers, QueryFails(w) \/ Crash(w) PROVE OutboxInv'
<1>1. StoresGo /\ SucceededIsMapped'
  BY StoresStay DEF QueryFails, Crash
<1>2. WorkerGoes(w) /\ pc'[w] # "succeed"
  <2>1. CASE Abandon(w)
    BY <2>1, AbandonGoes DEF QueryFails, Crash
  <2>2. CASE Caught(w) /\ pc[w] \in {"find", "lineage", "map", "succeed", "retry", "giveUp"}
    BY <2>2, CaughtGoes DEF QueryFails, Crash, WorkerLabels
  <2> QED  BY <2>1, <2>2 DEF QueryFails, Crash
<1> QED  BY <1>1, <1>2, WorkerDone

LEMMA PollStep ==
  ASSUME OutboxInv, NEW w \in Workers, Poll(w) PROVE OutboxInv'
<1>1. StoresGo /\ SucceededIsMapped'
  BY StoresStay DEF Poll
<1>2. WorkerGoes(w) /\ pc'[w] # "succeed"
  <2>1. /\ pc'[w] = "claim"
        /\ pc' \in [Runs -> {"idle"} \cup WorkerLabels \cup SweeperLabels]
        /\ \A p \in Runs : p # w => pc'[p] = pc[p]
    BY DEF Poll, Goto, OutboxInv, ProgramTypes, Runs, WorkerLabels
  <2>2. /\ DOMAIN todo' = Runs /\ todo'[w] \subseteq DOMAIN rows
        /\ \A p \in Runs : p # w => todo'[p] = todo[p]
    BY DEF Poll, Candidates, OutboxInv, ProgramTypes, Runs
  <2> QED  BY <2>1, <2>2 DEF Poll, WorkerGoes, OutboxInv, ProgramTypes, ClaimType
<1> QED  BY <1>1, <1>2, WorkerDone

\* A candidate is tried: what a claimed row adds is a row that is there.
LEMMA TriedGoes ==
  ASSUME OutboxInv, NEW w \in Workers, NEW n \in todo[w], pc[w] = "claim",
         NEW claimed \in Seq(ClaimType), Tried(w, n, claimed), at' = at
  PROVE  WorkerGoes(w) /\ pc'[w] # "succeed"
<1>1. /\ batch' \in [Workers -> Seq(ClaimType)]
      /\ \A v \in Workers : v # w => batch'[v] = batch[v]
  <2>1. PICK S : S = ClaimType
    OBVIOUS
  <2>2. batch \in [Workers -> Seq(S)] /\ claimed \in Seq(S)
    BY <2>1 DEF OutboxInv, ProgramTypes, ClaimType
  <2>3. batch[w] \o claimed \in Seq(S)
    BY <2>2, ConcatProperties
  <2> QED  BY <2>1, <2>2, <2>3 DEF Tried
<1>2. /\ pc' \in [Runs -> {"idle"} \cup WorkerLabels \cup SweeperLabels]
      /\ pc'[w] \in {"claim", "find", "idle"}
      /\ pc'[w] = "find" => batch'[w] # <<>>
      /\ \A p \in Runs : p # w => pc'[p] = pc[p]
  BY DEF Tried, Goto, OutboxInv, ProgramTypes, Runs, WorkerLabels
<1>3. /\ DOMAIN todo' = Runs /\ todo'[w] \subseteq DOMAIN rows
      /\ \A p \in Runs : p # w => todo'[p] = todo[p]
  BY DEF Tried, OutboxInv, ProgramTypes, Runs
<1>4. /\ pc'[w] \in WorkerLabels \ {"claim"} => batch'[w] # <<>>
      /\ pc'[w] # "map" /\ pc'[w] # "succeed"
  BY <1>2 DEF WorkerLabels
<1> QED  BY <1>1, <1>2, <1>3, <1>4 DEF Tried, WorkerGoes, OutboxInv, ProgramTypes

LEMMA ClaimRowStep ==
  ASSUME OutboxInv, NEW w \in Workers, ClaimRow(w) PROVE OutboxInv'
<1>1. PICK n \in todo[w] :
        IF StillClaimable(n)
        THEN /\ SetStatus(n, "processing")
             /\ \/ Tried(w, n, <<[id |-> n, attempts |-> rows[n].attempts]>>)
                \/ "claim" \in Ambiguous /\ Abandon(w)
        ELSE Tried(w, n, <<>>) /\ UNCHANGED rows
  BY DEF ClaimRow
<1>2. n \in DOMAIN rows /\ rows[n] \in RowType
  BY RowsOfType DEF OutboxInv, ProgramTypes
<1>3. StoresGo /\ SucceededIsMapped'
  <2>1. CASE StillClaimable(n)
    BY <1>1, <1>2, <2>1, RowSet DEF SetStatus, RowType, Statuses, ClaimRow
  <2>2. CASE ~StillClaimable(n)
    BY <1>1, <2>2, StoresStay DEF ClaimRow, stores
  <2> QED  BY <2>1, <2>2
<1>4. WorkerGoes(w) /\ pc'[w] # "succeed"
  <2>1. [id |-> n, attempts |-> rows[n].attempts] \in ClaimType
    BY <1>2 DEF ClaimType, RowType
  <2>2. /\ <<[id |-> n, attempts |-> rows[n].attempts]>> \in Seq(ClaimType)
        /\ <<>> \in Seq(ClaimType)
    BY <2>1
  <2>3. CASE Abandon(w)
    BY <2>3, AbandonGoes DEF ClaimRow
  <2>4. CASE Tried(w, n, <<[id |-> n, attempts |-> rows[n].attempts]>>)
    <3>1. PICK claimed : claimed = <<[id |-> n, attempts |-> rows[n].attempts]>>
      OBVIOUS
    <3> QED  BY <2>2, <2>4, <3>1, TriedGoes DEF ClaimRow
  <2>5. CASE Tried(w, n, <<>>)
    BY <2>2, <2>5, TriedGoes DEF ClaimRow
  <2> QED  BY <1>1, <2>3, <2>4, <2>5
<1> QED  BY <1>3, <1>4, WorkerDone

-----------------------------------------------------------------------------
(* Steps of a sweeper and of the environment.                              *)

LEMMA OtherStep ==
  ASSUME OutboxInv, StoresGo, SucceededIsMapped', UNCHANGED <<batch, guarded, made>>,
         pc' \in [Runs -> {"idle"} \cup WorkerLabels \cup SweeperLabels],
         DOMAIN todo' = Runs,
         \A w \in Workers : pc'[w] = pc[w] /\ todo'[w] = todo[w],
         \A s \in Sweepers : todo'[s] \subseteq Tasks,
         at' \in [Sweepers -> Tasks \cup {None}],
         \A s \in Sweepers : pc'[s] \in {"inFlight", "enqueue"} => at'[s] \in Tasks
  PROVE  OutboxInv'
<1>1. DOMAIN rows \subseteq DOMAIN rows'
  BY DEF StoresGo
<1>2. ProgramTypes'
  <2>1. batch' \in [Workers -> Seq([id : DOMAIN rows', attempts : Nat])]
    <3>1. PICK old, new : old = ClaimType /\ new = [id : DOMAIN rows', attempts : Nat]
      OBVIOUS
    <3>2. old \subseteq new
      BY <1>1, <3>1 DEF ClaimType
    <3>3. PICK b : b = batch
      OBVIOUS
    <3>4. b \in [Workers -> Seq(old)]
      BY <3>1, <3>3 DEF OutboxInv, ProgramTypes, ClaimType
    <3>5. b \in [Workers -> Seq(new)]
      BY <3>2, <3>4, SeqMonotonic
    <3> QED  BY <3>1, <3>3, <3>5
  <2>2. \A w \in Workers : todo'[w] \subseteq DOMAIN rows'
    BY <1>1 DEF OutboxInv, ProgramTypes
  <2> QED  BY <2>1, <2>2 DEF ProgramTypes, StoresGo, OutboxInv, EntryType
<1>3. Coherent'
  <2>1. ASSUME NEW w \in Workers, pc[w] = "succeed"
        PROVE  mapping'[TaskOf(w)'] # None
    <3>1. Current(w).id \in DOMAIN rows /\ TaskOf(w) \in Tasks /\ mapping[TaskOf(w)] # None
      BY <2>1, CurrentSound DEF OutboxInv, Coherent, WorkerLabels
    <3> QED  BY <3>1 DEF StoresGo, TaskOf, Current
  <2> QED  BY <2>1 DEF Coherent, OutboxInv
<1> QED  BY <1>2, <1>3 DEF OutboxInv

\* A step of nobody's run.
LEMMA StoreStep ==
  ASSUME OutboxInv, StoresGo, SucceededIsMapped', UNCHANGED <<pc, locals>>
  PROVE  OutboxInv'
  BY OtherStep DEF OutboxInv, ProgramTypes, Coherent, locals, Runs

LEMMA EnqueueGoes ==
  ASSUME OutboxInv, NEW t \in Tasks, rows' = Enqueued(t),
         UNCHANGED <<committed, mapping, tickets, entries>>
  PROVE  StoresGo /\ SucceededIsMapped'
<1>1. /\ rows' \in Seq(RowType)
      /\ \A k \in DOMAIN rows : k \in DOMAIN rows' /\ rows'[k] = rows[k]
      /\ \A k \in DOMAIN rows' : k \in DOMAIN rows \/ rows'[k].status = "pending"
  BY EnqueuedSound DEF OutboxInv
<1>2. StoresGo
  BY <1>1 DEF StoresGo, OutboxInv, ProgramTypes, EntryType
<1> QED  BY <1>1, <1>2, StillMapped

LEMMA CommitStep ==
  ASSUME OutboxInv, NEW t \in Tasks, Commit(t) PROVE OutboxInv'
<1>1. StoresGo /\ SucceededIsMapped'
  BY DEF Commit, stores, StoresGo, SucceededIsMapped, OutboxInv, ProgramTypes, EntryType
<1> QED  BY <1>1, StoreStep DEF Commit

LEMMA TriggerStep ==
  ASSUME OutboxInv, NEW t \in Tasks, Trigger(t) PROVE OutboxInv'
  BY EnqueueGoes, StoreStep DEF Trigger

LEMMA DueStep ==
  ASSUME OutboxInv, NEW n \in DOMAIN rows, Due(n) \/ Reset(n) PROVE OutboxInv'
<1>1. rows[n] \in RowType
  BY RowsOfType DEF OutboxInv
<1>2. CASE Due(n)
  <2>1. rows[n].status = "succeeded" => mapping[rows[n].task] # None
    BY DEF OutboxInv, SucceededIsMapped
  <2>2. StoresGo /\ SucceededIsMapped'
    BY <1>1, <1>2, <2>1, RowSet DEF Due, RowType
  <2> QED  BY <1>2, <2>2, StoreStep DEF Due
<1>3. CASE Reset(n)
  <2>1. StoresGo /\ SucceededIsMapped'
    BY <1>1, <1>3, RowSet DEF Reset, RowType, Statuses
  <2> QED  BY <1>3, <2>1, StoreStep DEF Reset
<1> QED  BY <1>2, <1>3

LEMMA SweepStep ==
  ASSUME OutboxInv, NEW s \in Sweepers, Sweep(s) \/ AbandonSweep(s) PROVE OutboxInv'
<1>1. s \in Runs /\ s \notin Workers
  BY OutboxAssumption DEF Runs
<1>2. StoresGo /\ SucceededIsMapped'
  <2>1. CASE SweepEnqueue(s)
    BY <2>1, EnqueueGoes DEF SweepEnqueue, OutboxInv, Coherent
  <2>2. CASE ~SweepEnqueue(s)
    BY <2>2, StoresStay DEF Sweep, BeginSweep, SweepMapping, SweepInFlight, AbandonSweep
  <2> QED  BY <2>1, <2>2
<1>3. /\ UNCHANGED <<batch, guarded, made>>
      /\ pc' \in [Runs -> {"idle"} \cup WorkerLabels \cup SweeperLabels]
      /\ \A p \in Runs : p # s => pc'[p] = pc[p]
  BY <1>1 DEF Sweep, BeginSweep, SweepMapping, SweepInFlight, SweepEnqueue, AbandonSweep,
              NextCandidate, Goto, SweeperLabels, OutboxInv, ProgramTypes
<1>4. /\ DOMAIN todo' = Runs /\ todo'[s] \subseteq Tasks
      /\ \A p \in Runs : p # s => todo'[p] = todo[p]
  BY <1>1, ZenonT(60) DEF Sweep, BeginSweep, SweepMapping, SweepInFlight, SweepEnqueue, AbandonSweep,
              OutboxInv, ProgramTypes
<1>5. /\ at' \in [Sweepers -> Tasks \cup {None}]
      /\ pc'[s] \in {"inFlight", "enqueue"} => at'[s] \in Tasks
      /\ \A o \in Sweepers : o # s => at'[o] = at[o]
  BY <1>1, ZenonT(60) DEF Sweep, BeginSweep, SweepMapping, SweepInFlight, SweepEnqueue, AbandonSweep,
              NextCandidate, Goto, OutboxInv, ProgramTypes, Coherent
<1>6. \A o \in Sweepers : /\ todo'[o] \subseteq Tasks
                          /\ pc'[o] \in {"inFlight", "enqueue"} => at'[o] \in Tasks
  BY <1>3, <1>4, <1>5 DEF OutboxInv, ProgramTypes, Coherent, Runs
<1> QED  BY <1>1, <1>2, <1>3, <1>4, <1>5, <1>6, OtherStep DEF Runs

-----------------------------------------------------------------------------
(* The theorems.                                                           *)

LEMMA InitOutbox == Init => OutboxInv
<1> SUFFICES ASSUME Init PROVE OutboxInv
  OBVIOUS
<1>1. <<>> \in Seq(RowType) /\ <<>> \in Seq(ClaimType)
  OBVIOUS
<1>2. rows = <<>> /\ DOMAIN rows = {}
  BY DEF Init
<1>3. ProgramTypes
  BY <1>1, <1>2 DEF Init, ProgramTypes, ClaimType, Runs
<1> QED  BY <1>2, <1>3 DEF Init, OutboxInv, Coherent, SucceededIsMapped, WorkerLabels, Runs

LEMMA NextOutbox == OutboxInv /\ [Next]_vars => OutboxInv'
<1> SUFFICES ASSUME OutboxInv, [Next]_vars PROVE OutboxInv'
  OBVIOUS
<1>1. ASSUME NEW w \in Workers, Process(w) PROVE OutboxInv'
  BY <1>1, FindMappingStep, LineageStep, CreateTicketStep, CreateFailsStep,
     InsertMappingStep, MarkSucceededStep, AnnounceStep, MarkRetryableStep,
     MarkPermanentFailureStep DEF Process
<1>2. ASSUME NEW w \in Workers, Poll(w) \/ ClaimRow(w) \/ QueryFails(w) \/ Crash(w)
      PROVE  OutboxInv'
  BY <1>2, PollStep, ClaimRowStep, QueryFailsStep
<1>3. ASSUME NEW t \in Tasks, Commit(t) \/ Trigger(t) PROVE OutboxInv'
  BY <1>3, CommitStep, TriggerStep
<1>4. CASE UNCHANGED vars
  <2>1. StoresGo /\ SucceededIsMapped'
    BY <1>4, StoresStay DEF vars, program
  <2> QED  BY <1>4, <2>1, StoreStep DEF vars, program
<1> QED  BY <1>1, <1>2, <1>3, <1>4, SweepStep, DueStep DEF Next, Step

(***************************************************************************)
(* The inductive invariant: what a run relies on where it is, and what the *)
(* rows that are ticked off rest on.                                       *)
(***************************************************************************)
THEOREM OutboxInvAlways == Spec => []OutboxInv
  BY InitOutbox, NextOutbox, PTL DEF Spec

\* What befalls a run befalls the task of a row it holds.
LEMMA MishapsAreOfTasks == ASSUME OutboxInv, OutboxInv' PROVE Befalls \subseteq Tasks \X Mishaps
<1>1. \A w \in Workers : pc[w] \in {"find", "create", "map", "succeed", "announce"} => TaskOf(w) \in Tasks
  BY CurrentSound DEF WorkerLabels, TaskOf
<1>2. \A w \in Workers : Unseen(w) \/ Unmapped(w) \/ Unfinished(w) => TaskOf(w) \in Tasks
  BY <1>1 DEF Unseen, Unmapped, Unfinished
<1> QED  BY <1>2 DEF Befalls, Mishaps

(***************************************************************************)
(* Every variable keeps its type.                                          *)
(***************************************************************************)
THEOREM OutboxTypeCorrect == Spec => []TypeOK
<1> DEFINE Typed == mishaps \subseteq Tasks \X Mishaps
<1>1. Init => Typed
  BY DEF Init
<1>2. OutboxInv /\ OutboxInv' /\ Typed /\ [Next]_vars => Typed'
  <2>1. ASSUME OutboxInv, OutboxInv', Typed, Next PROVE Typed'
    BY <2>1, MishapsAreOfTasks DEF Next
  <2> QED  BY <2>1 DEF vars
<1>3. OutboxInv /\ Typed => TypeOK
  BY DEF OutboxInv, TypeOK
<1> HIDE DEF Typed
<1> QED  BY <1>1, <1>2, <1>3, OutboxInvAlways, PTL DEF Spec

(***************************************************************************)
(* A row is ticked off only when its task has its ticket, whichever        *)
(* queries fail or lose their answers, wherever a process stops, and       *)
(* whatever rows an operator resets.                                       *)
(***************************************************************************)
THEOREM SucceededAlwaysMapped == Spec => []SucceededIsMapped
<1>1. OutboxInv => SucceededIsMapped
  BY DEF OutboxInv
<1> QED  BY <1>1, OutboxInvAlways, PTL

-----------------------------------------------------------------------------
(***************************************************************************)
(* FR-14.  What a run has claimed is "processing" or has been ticked off,  *)
(* so nobody else can claim it; it leaves the run's hands before it is     *)
(* free again.  That needs two things of the environment: the answer of    *)
(* the query that frees a row is not lost (else the run has the row still  *)
(* when it is free), and an operator resets only what failed for good.     *)
(***************************************************************************)
FreedForSure ==
  /\ Ambiguous \cap {"retry", "giveUp"} = {}
  /\ Resettable \subseteq {"failed_permanent"}

Busy == {"processing", "succeeded"}
Free == Claimable \cup {"failed_permanent"}

ClaimedOnce(w) == \A i, j \in DOMAIN batch[w] : batch[w][i].id = batch[w][j].id => i = j

Exclusive ==
  /\ \A w \in Workers : ClaimedOnce(w)
  /\ \A w \in Workers : \A n \in Held(w) : rows[n].status \in Busy
  /\ OneWorkerPerRow

ExclusiveInv == OutboxInv /\ Exclusive

\* The step leaves alone whatever another run may hold.
RowsOfOthersStay(w) ==
  \A n \in DOMAIN rows : rows[n].status \in Busy /\ n \notin Held(w) =>
    rows'[n].status = rows[n].status

\* What the run holds after the step was its own or free.
HoldsItsOwn(w) ==
  /\ ClaimedOnce(w)'
  /\ \A n \in Held(w)' : n \in Held(w) \/ (n \in DOMAIN rows /\ rows[n].status \in Free)
  /\ \A n \in Held(w)' : rows'[n].status \in Busy

LEMMA HeldIsRow ==
  ASSUME ProgramTypes, NEW w \in Workers PROVE Held(w) \subseteq DOMAIN rows
<1>1. batch[w] \in Seq(ClaimType)
  BY DEF ProgramTypes, ClaimType
<1>2. \A i \in DOMAIN batch[w] : batch[w][i] \in ClaimType
  BY <1>1
<1> QED  BY <1>2 DEF Held, ClaimType

LEMMA ExclusiveStep ==
  ASSUME ExclusiveInv, NEW w \in Workers, HoldsItsOwn(w), RowsOfOthersStay(w),
         \A v \in Workers : v # w => batch'[v] = batch[v] /\ pc'[v] = pc[v]
  PROVE  Exclusive'
<1>1. \A v \in Workers : v # w => Held(v)' = Held(v) /\ (ClaimedOnce(v) => ClaimedOnce(v)')
  BY DEF Held, ClaimedOnce
<1>2. ASSUME NEW v \in Workers, v # w, NEW n \in Held(v)
      PROVE  n \in DOMAIN rows /\ rows[n].status \in Busy /\ n \notin Held(w)
             /\ rows'[n].status \in Busy
  BY <1>2, HeldIsRow DEF ExclusiveInv, OutboxInv, Exclusive, OneWorkerPerRow, RowsOfOthersStay
<1>3. ASSUME NEW v \in Workers, v # w, NEW n \in Held(v), n \in Held(w)' PROVE FALSE
  BY <1>2, <1>3 DEF HoldsItsOwn, Busy, Free, Claimable
<1>4. \A v \in Workers : ClaimedOnce(v)'
  BY <1>1 DEF HoldsItsOwn, ExclusiveInv, Exclusive
<1>5. \A v \in Workers : \A n \in Held(v)' : rows'[n].status \in Busy
  BY <1>1, <1>2 DEF HoldsItsOwn
<1>6. ASSUME NEW u \in Workers, NEW v \in Workers, u # v
      PROVE  Held(u)' \cap Held(v)' = {}
  <2>1. CASE u # w /\ v # w
    BY <1>1, <1>6, <2>1 DEF ExclusiveInv, Exclusive, OneWorkerPerRow
  <2>2. CASE u = w \/ v = w
    BY <1>1, <1>3, <1>6, <2>2
  <2> QED  BY <2>1, <2>2
<1> QED  BY <1>4, <1>5, <1>6 DEF Exclusive, OneWorkerPerRow

\* A step that is no run's.
LEMMA ExclusiveStays ==
  ASSUME ExclusiveInv, UNCHANGED batch, \A w \in Workers : pc'[w] = pc[w],
         \A n \in DOMAIN rows : rows[n].status \in Busy => rows'[n].status \in Busy
  PROVE  Exclusive'
<1>1. \A w \in Workers : Held(w)' = Held(w) /\ (ClaimedOnce(w) => ClaimedOnce(w)')
  BY DEF Held, ClaimedOnce
<1>2. \A w \in Workers : Held(w) \subseteq DOMAIN rows
  BY HeldIsRow DEF ExclusiveInv, OutboxInv
<1> QED  BY <1>1, <1>2 DEF ExclusiveInv, Exclusive, OneWorkerPerRow

-----------------------------------------------------------------------------
(* What a run holds after each kind of step.                               *)

\* The row a run is at is one it holds, but for a ledger entry left to write.
LEMMA CurrentIsHeld ==
  ASSUME OutboxInv, NEW w \in Workers, pc[w] \in WorkerLabels \ {"claim", "announceFailure"}
  PROVE  Current(w).id \in Held(w)
<1>1. batch[w] \in Seq(ClaimType) /\ batch[w] # <<>>
  BY CurrentSound DEF OutboxInv, ProgramTypes, ClaimType
<1>2. 1 \in DOMAIN batch[w] /\ Head(batch[w]) = batch[w][1]
  BY <1>1, EmptySeq
<1> QED  BY <1>2 DEF Held, Current

LEMMA KeepHeld ==
  ASSUME ExclusiveInv, NEW w \in Workers, batch'[w] = batch[w],
         pc[w] # "announceFailure"
  PROVE  /\ ClaimedOnce(w)' /\ Held(w)' \subseteq Held(w)
         /\ pc'[w] = "announceFailure" => Current(w).id \notin Held(w)'
<1>1. ClaimedOnce(w)' /\ Held(w)' \subseteq Held(w)
  BY DEF ExclusiveInv, Exclusive, ClaimedOnce, Held
<1>2. ASSUME pc'[w] = "announceFailure", Current(w).id \in Held(w)' PROVE FALSE
  <2>1. PICK i \in DOMAIN batch[w] : i # 1 /\ batch[w][i].id = Current(w).id
    BY <1>2 DEF Held
  <2>2. batch[w] \in Seq(ClaimType)
    BY DEF ExclusiveInv, OutboxInv, ProgramTypes, ClaimType
  <2>3. 1 \in DOMAIN batch[w] /\ Current(w) = batch[w][1]
    BY <2>1, <2>2 DEF Current
  <2> QED  BY <2>1, <2>3 DEF ExclusiveInv, Exclusive, ClaimedOnce
<1> QED  BY <1>1, <1>2

LEMMA FinishHeld ==
  ASSUME ExclusiveInv, NEW w \in Workers, pc[w] \in WorkerLabels \ {"claim"}, Finish(w)
  PROVE  /\ ClaimedOnce(w)' /\ Held(w)' \subseteq Held(w)
         /\ Current(w).id \notin Held(w)'
<1>1. batch[w] \in Seq(ClaimType) /\ batch[w] # <<>>
  BY CurrentSound DEF ExclusiveInv, OutboxInv, ProgramTypes, ClaimType
<1>2. batch'[w] = Tail(batch[w]) /\ pc'[w] # "announceFailure"
  BY DEF Finish, Goto, ExclusiveInv, OutboxInv, ProgramTypes, Runs
<1>3. \A i \in DOMAIN batch'[w] : i + 1 \in DOMAIN batch[w] /\ batch'[w][i] = batch[w][i + 1]
  <2>1. PICK S, q : S = ClaimType /\ q = batch[w]
    OBVIOUS
  <2> QED  BY <1>1, <1>2, <2>1, HeadAndTail
<1>4. DOMAIN batch'[w] \subseteq Nat \ {0} /\ 1 \in DOMAIN batch[w] /\ Current(w) = batch[w][1]
  <2>1. Tail(batch[w]) \in Seq(ClaimType)
    BY <1>1, HeadTailProperties
  <2> QED  BY <1>1, <1>2, <2>1, EmptySeq DEF Current
<1>5. ClaimedOnce(w)'
  <2> SUFFICES ASSUME NEW i \in DOMAIN batch'[w], NEW j \in DOMAIN batch'[w],
                      batch'[w][i].id = batch'[w][j].id
               PROVE  i = j
    BY DEF ClaimedOnce
  <2>1. i + 1 = j + 1
    BY <1>3 DEF ExclusiveInv, Exclusive, ClaimedOnce
  <2> QED  BY <1>4, <2>1
<1>6. Held(w)' = {batch'[w][i].id : i \in DOMAIN batch'[w]}
  BY <1>2 DEF Held
<1>7. ASSUME NEW i \in DOMAIN batch'[w]
      PROVE  batch'[w][i].id \in Held(w) /\ batch'[w][i].id # Current(w).id
  <2>1. i + 1 \in DOMAIN batch[w] /\ i + 1 # 1 /\ batch'[w][i] = batch[w][i + 1]
    BY <1>3, <1>4
  <2> QED  BY <1>4, <2>1 DEF Held, ExclusiveInv, Exclusive, ClaimedOnce
<1> QED  BY <1>5, <1>6, <1>7

LEMMA AbandonHeld ==
  ASSUME ExclusiveInv, NEW w \in Workers, Abandon(w)
  PROVE  ClaimedOnce(w)' /\ Held(w)' = {}
<1>1. batch'[w] = <<>> /\ DOMAIN batch'[w] = {}
  BY DEF Abandon, ExclusiveInv, OutboxInv, ProgramTypes
<1> QED  BY <1>1 DEF ClaimedOnce, Held

LEMMA CaughtHeld ==
  ASSUME ExclusiveInv, NEW w \in Workers, pc[w] # "announceFailure", Caught(w)
  PROVE  ClaimedOnce(w)' /\ Held(w)' \subseteq Held(w)
<1>1. CASE guarded[w]
  BY <1>1, KeepHeld DEF Caught
<1>2. CASE ~guarded[w]
  BY <1>2, AbandonHeld DEF Caught
<1> QED  BY <1>1, <1>2

-----------------------------------------------------------------------------
(* The steps of a run.                                                     *)

LEMMA OthersStand ==
  ASSUME OutboxInv, NEW w \in Workers,
         Poll(w) \/ ClaimRow(w) \/ Process(w) \/ QueryFails(w) \/ Crash(w)
  PROVE  \A v \in Workers : v # w =>
           /\ batch'[v] = batch[v] /\ pc'[v] = pc[v]
           /\ made'[v] = made[v] /\ guarded'[v] = guarded[v]
  BY ZenonT(60) DEF OutboxInv, ProgramTypes, Runs, Poll, ClaimRow, Tried, Process, QueryFails, Crash,
         FindMapping, Lineage, CreateTicket, CreateFails, InsertMapping, MarkSucceeded,
         Announce, MarkRetryable, MarkPermanentFailure, AnnounceFailure, HandleRetryable,
         AnswerLost, Caught, Proceed, Finish, Abandon, Goto, locals

\* A step that sets no row.
LEMMA RowlessStep ==
  ASSUME ExclusiveInv, NEW w \in Workers, UNCHANGED rows,
         ClaimedOnce(w)' /\ Held(w)' \subseteq Held(w),
         \A v \in Workers : v # w => batch'[v] = batch[v] /\ pc'[v] = pc[v]
  PROVE  Exclusive'
<1>1. HoldsItsOwn(w)
  BY DEF HoldsItsOwn, ExclusiveInv, Exclusive
<1> QED  BY <1>1, ExclusiveStep DEF RowsOfOthersStay

LEMMA RowlessSteps ==
  ASSUME ExclusiveInv, NEW w \in Workers,
         \/ Poll(w) \/ FindMapping(w) \/ Lineage(w) \/ CreateTicket(w) \/ CreateFails(w)
         \/ InsertMapping(w) \/ Announce(w) \/ AnnounceFailure(w)
         \/ QueryFails(w) \/ Crash(w)
  PROVE  Exclusive'
<1>1. \A v \in Workers : v # w => batch'[v] = batch[v] /\ pc'[v] = pc[v]
  BY OthersStand DEF Process, ExclusiveInv
<1>2. UNCHANGED rows
  BY DEF Poll, FindMapping, Lineage, CreateTicket, CreateFails, InsertMapping, Announce,
         AnnounceFailure, QueryFails, Crash, stores
<1>3. ClaimedOnce(w)' /\ Held(w)' \subseteq Held(w)
  <2>1. CASE Poll(w) \/ FindMapping(w) \/ Lineage(w) \/ CreateTicket(w) \/ CreateFails(w)
    BY <2>1, KeepHeld DEF Poll, FindMapping, Lineage, CreateTicket, CreateFails, Proceed, locals
  <2>2. CASE InsertMapping(w)
    BY <2>2, KeepHeld, CaughtHeld DEF InsertMapping, Proceed, AnswerLost
  <2>3. CASE Announce(w) \/ AnnounceFailure(w)
    BY <2>3, FinishHeld DEF Announce, AnnounceFailure, WorkerLabels
  <2>4. CASE QueryFails(w) \/ Crash(w)
    BY <2>4, AbandonHeld, CaughtHeld DEF QueryFails, Crash
  <2> QED  BY <2>1, <2>2, <2>3, <2>4
<1> QED  BY <1>1, <1>2, <1>3, RowlessStep

\* A step that sets the row the run is at: ticked off, or out of its hands.
LEMMA CurrentSet ==
  ASSUME ExclusiveInv, NEW w \in Workers, pc[w] \in WorkerLabels \ {"claim", "announceFailure"},
         NEW status \in Statuses, NEW attempts \in Nat, NEW due \in BOOLEAN,
         SetRow(Current(w).id, status, attempts, due),
         ClaimedOnce(w)' /\ Held(w)' \subseteq Held(w),
         status \in Busy \/ Current(w).id \notin Held(w)',
         \A v \in Workers : v # w => batch'[v] = batch[v] /\ pc'[v] = pc[v]
  PROVE  Exclusive'
<1>1. Current(w).id \in Held(w) /\ Current(w).id \in DOMAIN rows
  BY CurrentIsHeld, CurrentSound DEF ExclusiveInv
<1>2. /\ \A k \in DOMAIN rows : k # Current(w).id => rows'[k] = rows[k]
      /\ rows'[Current(w).id].status = status
  BY <1>1, SetRowSound DEF ExclusiveInv, OutboxInv
<1>3. HoldsItsOwn(w)
  BY <1>1, <1>2, HeldIsRow DEF HoldsItsOwn, ExclusiveInv, OutboxInv, Exclusive
<1>4. RowsOfOthersStay(w)
  BY <1>1, <1>2 DEF RowsOfOthersStay
<1> QED  BY <1>3, <1>4, ExclusiveStep

LEMMA MarkSucceededExclusive ==
  ASSUME ExclusiveInv, NEW w \in Workers, MarkSucceeded(w) PROVE Exclusive'
<1>1. /\ pc[w] \in WorkerLabels \ {"claim", "announceFailure"}
      /\ rows[Current(w).id] \in RowType
  BY CurrentSound DEF MarkSucceeded, WorkerLabels, ExclusiveInv
<1>2. ClaimedOnce(w)' /\ Held(w)' \subseteq Held(w)
  BY <1>1, KeepHeld, FinishHeld, CaughtHeld DEF MarkSucceeded, AnswerLost, Proceed
<1>3. \A v \in Workers : v # w => batch'[v] = batch[v] /\ pc'[v] = pc[v]
  BY OthersStand DEF Process, ExclusiveInv
<1> QED  BY <1>1, <1>2, <1>3, CurrentSet DEF MarkSucceeded, SetStatus, RowType, Statuses, Busy

LEMMA MarkRetryableExclusive ==
  ASSUME ExclusiveInv, FreedForSure, NEW w \in Workers, MarkRetryable(w) PROVE Exclusive'
<1>1. /\ pc[w] \in WorkerLabels \ {"claim", "announceFailure"}
      /\ rows[Current(w).id] \in RowType
  BY CurrentSound DEF MarkRetryable, WorkerLabels, ExclusiveInv
<1>2. Finish(w)
  BY DEF MarkRetryable, AnswerLost, FreedForSure
<1>3. ClaimedOnce(w)' /\ Held(w)' \subseteq Held(w) /\ Current(w).id \notin Held(w)'
  BY <1>1, <1>2, FinishHeld
<1>4. \A v \in Workers : v # w => batch'[v] = batch[v] /\ pc'[v] = pc[v]
  BY OthersStand DEF Process, ExclusiveInv
<1>5. rows[Current(w).id].attempts + 1 \in Nat
  BY <1>1 DEF RowType
<1> QED  BY <1>1, <1>3, <1>4, <1>5, CurrentSet DEF MarkRetryable, Statuses

LEMMA MarkPermanentFailureExclusive ==
  ASSUME ExclusiveInv, FreedForSure, NEW w \in Workers, MarkPermanentFailure(w) PROVE Exclusive'
<1>1. /\ pc[w] \in WorkerLabels \ {"claim", "announceFailure"}
      /\ rows[Current(w).id] \in RowType
  BY CurrentSound DEF MarkPermanentFailure, WorkerLabels, ExclusiveInv
<1>2. batch'[w] = batch[w] /\ pc'[w] = "announceFailure"
  BY DEF MarkPermanentFailure, AnswerLost, FreedForSure, Proceed, Goto,
         ExclusiveInv, OutboxInv, ProgramTypes, Runs
<1>3. ClaimedOnce(w)' /\ Held(w)' \subseteq Held(w) /\ Current(w).id \notin Held(w)'
  BY <1>1, <1>2, KeepHeld
<1>4. \A v \in Workers : v # w => batch'[v] = batch[v] /\ pc'[v] = pc[v]
  BY OthersStand DEF Process, ExclusiveInv
<1>5. rows[Current(w).id].attempts + 1 \in Nat /\ rows[Current(w).id].due \in BOOLEAN
  BY <1>1 DEF RowType
<1> QED  BY <1>1, <1>3, <1>4, <1>5, CurrentSet DEF MarkPermanentFailure, Statuses

\* What is claimed was free, so neither this run nor another has it.
LEMMA TriedExclusive ==
  ASSUME ExclusiveInv, NEW w \in Workers, pc[w] = "claim", NEW n \in DOMAIN rows,
         StillClaimable(n), rows'[n].status = "processing",
         \A k \in DOMAIN rows : k # n => rows'[k] = rows[k],
         Tried(w, n, <<[id |-> n, attempts |-> rows[n].attempts]>>)
  PROVE  HoldsItsOwn(w)
<1> DEFINE claim == [id |-> n, attempts |-> rows[n].attempts]
<1>1. batch[w] \in Seq(ClaimType) /\ claim \in ClaimType
  BY RowsOfType DEF ExclusiveInv, OutboxInv, ProgramTypes, ClaimType, RowType
<1>2. batch'[w] = Append(batch[w], claim)
  <2>1. batch'[w] = batch[w] \o <<claim>>
    BY DEF Tried, ExclusiveInv, OutboxInv, ProgramTypes
  <2> QED  BY <1>1, <2>1
<1>3. pc'[w] # "announceFailure"
  BY DEF Tried, Goto, ExclusiveInv, OutboxInv, ProgramTypes, Runs
<1>4. claim.id = n
  OBVIOUS
<1> HIDE DEF claim
<1>5. /\ DOMAIN batch'[w] = DOMAIN batch[w] \cup {Len(batch[w]) + 1}
      /\ Len(batch[w]) + 1 \notin DOMAIN batch[w]
      /\ \A i \in DOMAIN batch[w] : batch'[w][i] = batch[w][i]
      /\ batch'[w][Len(batch[w]) + 1] = claim
  BY <1>1, <1>2
<1>6. Held(w) = {batch[w][i].id : i \in DOMAIN batch[w]} /\ Held(w)' = Held(w) \cup {n}
  BY <1>3, <1>4, <1>5 DEF Held
<1>7. n \notin Held(w)
  BY DEF StillClaimable, Claimable, Busy, ExclusiveInv, Exclusive
<1>8. ClaimedOnce(w)'
  BY <1>4, <1>5, <1>6, <1>7 DEF ClaimedOnce, ExclusiveInv, Exclusive
<1>9. \A k \in Held(w)' : rows'[k].status \in Busy
  BY <1>6, <1>7, HeldIsRow DEF ExclusiveInv, OutboxInv, Exclusive, Busy
<1> QED  BY <1>6, <1>8, <1>9 DEF HoldsItsOwn, StillClaimable, Free

LEMMA ClaimRowExclusive ==
  ASSUME ExclusiveInv, NEW w \in Workers, ClaimRow(w) PROVE Exclusive'
<1>1. PICK n \in todo[w] :
        IF StillClaimable(n)
        THEN /\ SetStatus(n, "processing")
             /\ \/ Tried(w, n, <<[id |-> n, attempts |-> rows[n].attempts]>>)
                \/ "claim" \in Ambiguous /\ Abandon(w)
        ELSE Tried(w, n, <<>>) /\ UNCHANGED rows
  BY DEF ClaimRow
<1>2. n \in DOMAIN rows /\ rows[n] \in RowType
  BY RowsOfType DEF ExclusiveInv, OutboxInv, ProgramTypes
<1>3. \A v \in Workers : v # w => batch'[v] = batch[v] /\ pc'[v] = pc[v]
  BY OthersStand DEF ExclusiveInv
<1>4. CASE StillClaimable(n)
  <2>1. /\ \A k \in DOMAIN rows : k # n => rows'[k] = rows[k]
        /\ rows'[n].status = "processing"
    BY <1>1, <1>2, <1>4, SetRowSound DEF SetStatus, RowType, Statuses, ExclusiveInv, OutboxInv
  <2>2. RowsOfOthersStay(w)
    BY <1>4, <2>1 DEF RowsOfOthersStay, StillClaimable, Claimable, Busy
  <2>3. HoldsItsOwn(w)
    <3>1. CASE Abandon(w)
      BY <3>1, AbandonHeld DEF HoldsItsOwn
    <3>2. CASE ~Abandon(w)
      BY <1>1, <1>2, <1>4, <2>1, <3>2, TriedExclusive DEF ClaimRow
    <3> QED  BY <3>1, <3>2
  <2> QED  BY <1>3, <2>2, <2>3, ExclusiveStep
<1>5. CASE ~StillClaimable(n)
  <2>1. batch'[w] = batch[w]
    <3>1. PICK q : q = batch[w] /\ q \in Seq(ClaimType)
      BY DEF ExclusiveInv, OutboxInv, ProgramTypes, ClaimType
    <3>2. q \o <<>> = q
      BY <3>1, ConcatEmptySeq
    <3> QED  BY <1>1, <1>5, <3>1, <3>2 DEF Tried, ExclusiveInv, OutboxInv, ProgramTypes
  <2> QED  BY <1>1, <1>3, <1>5, <2>1, KeepHeld, RowlessStep DEF ClaimRow
<1> QED  BY <1>4, <1>5

LEMMA OtherStepsExclusive ==
  ASSUME ExclusiveInv, FreedForSure,
         \/ \E t \in Tasks : Commit(t) \/ Trigger(t)
         \/ \E s \in Sweepers : Sweep(s) \/ AbandonSweep(s)
         \/ \E n \in DOMAIN rows : Due(n) \/ Reset(n)
         \/ UNCHANGED vars
  PROVE  Exclusive'
<1>1. UNCHANGED batch /\ \A w \in Workers : pc'[w] = pc[w]
  <2>1. ASSUME NEW s \in Sweepers, Sweep(s) \/ AbandonSweep(s)
        PROVE  UNCHANGED batch /\ \A p \in Runs : p # s => pc'[p] = pc[p]
    BY <2>1 DEF Sweep, BeginSweep, SweepMapping, SweepInFlight, SweepEnqueue, AbandonSweep,
                NextCandidate, Goto, ExclusiveInv, OutboxInv, ProgramTypes
  <2> QED  BY <2>1, OutboxAssumption DEF Runs, Commit, Trigger, Due, Reset, locals, vars, program
<1>2. ASSUME NEW k \in DOMAIN rows, rows[k].status \in Busy
      PROVE  rows'[k].status \in Busy
  <2>1. ASSUME NEW t \in Tasks, rows' = Enqueued(t) PROVE rows'[k].status \in Busy
    BY <1>2, <2>1, EnqueuedSound DEF ExclusiveInv, OutboxInv
  <2>2. ASSUME NEW s \in Sweepers, SweepEnqueue(s) PROVE at[s] \in Tasks
    BY <2>2 DEF SweepEnqueue, ExclusiveInv, OutboxInv, Coherent
  <2>3. ASSUME NEW s \in Sweepers, Sweep(s) \/ AbandonSweep(s) PROVE rows'[k].status \in Busy
    BY <1>2, <2>1, <2>2, <2>3 DEF Sweep, BeginSweep, SweepMapping, SweepInFlight, SweepEnqueue,
                                  AbandonSweep, stores
  <2>4. ASSUME NEW n \in DOMAIN rows, Due(n) PROVE rows'[k].status \in Busy
    BY <1>2, <2>4, RowsOfType, SetRowSound DEF Due, RowType, ExclusiveInv, OutboxInv
  <2>5. ASSUME NEW n \in DOMAIN rows, Reset(n) PROVE rows'[k].status \in Busy
    <3>1. k # n
      BY <1>2, <2>5 DEF Reset, FreedForSure, Busy
    <3> QED  BY <1>2, <2>5, <3>1, SetRowSound DEF Reset, Statuses, ExclusiveInv, OutboxInv
  <2> QED  BY <1>2, <2>1, <2>3, <2>4, <2>5 DEF Commit, Trigger, stores, vars, program
<1> QED  BY <1>1, <1>2, ExclusiveStays

LEMMA InitExclusive == Init => Exclusive
<1> SUFFICES ASSUME Init PROVE Exclusive
  OBVIOUS
<1>1. \A w \in Workers : batch[w] = <<>> /\ DOMAIN batch[w] = {}
  BY DEF Init
<1> QED  BY <1>1 DEF Exclusive, OneWorkerPerRow, ClaimedOnce, Held

LEMMA NextExclusive ==
  ASSUME FreedForSure, OutboxInv, Exclusive, [Next]_vars PROVE Exclusive'
<1>1. ExclusiveInv
  BY DEF ExclusiveInv
<1>2. ASSUME NEW w \in Workers,
             Poll(w) \/ ClaimRow(w) \/ Process(w) \/ QueryFails(w) \/ Crash(w)
      PROVE  Exclusive'
  BY <1>1, <1>2, RowlessSteps, ClaimRowExclusive, MarkSucceededExclusive,
     MarkRetryableExclusive, MarkPermanentFailureExclusive DEF Process
<1> QED  BY <1>1, <1>2, OtherStepsExclusive DEF Next, Step

(***************************************************************************)
(* No two runs work on the same row, however many there are and whichever  *)
(* other query or request fails.                                           *)
(***************************************************************************)
THEOREM OneWorkerAlways ==
  ASSUME FreedForSure PROVE Spec => []OneWorkerPerRow
<1>1. OutboxInv /\ Exclusive /\ [Next]_vars => Exclusive'
  BY NextExclusive
<1>2. Exclusive => OneWorkerPerRow
  BY DEF Exclusive
<1> QED  BY InitExclusive, OutboxInvAlways, <1>1, <1>2, PTL DEF Spec

-----------------------------------------------------------------------------
(***************************************************************************)
(* One ticket for a task, known to the ledger, but for what has befallen   *)
(* the task.  Between the ticket and its row in ticket_mapping nothing but *)
(* the run itself knows of the ticket; and what a run has read of the      *)
(* mapping stays so while no other run is past the same lookup.            *)
(***************************************************************************)
TicketsKnown ==
  \A t \in Tasks :
    \/ Met(t, "together") \/ Met(t, "unmapped")
    \/ /\ tickets[t] <= 1
       /\ tickets[t] # 0 => mapping[t] # None \/ \E w \in Workers : pc[w] = "map" /\ TaskOf(w) = t

TogetherIsKnown == \A t \in Tasks : Together(t) => Met(t, "together")

\* What a run has in its hands where it is.
Hands(w) ==
  /\ pc[w] \in {"idle", "claim", "find", "lineage", "create"} => made[w] = None
  /\ pc[w] \in {"idle", "claim", "find", "lineage", "create", "map", "succeed"} => guarded[w]
  /\ pc[w] = "retry" => MayTryAgain(w)

\* What a run that found no mapping knows of its task.
KnowsNone(w) ==
  pc[w] \in FoundNone =>
    \/ mapping[TaskOf(w)] = None \/ Met(TaskOf(w), "together")
    \/ pc[w] \in {"giveUp", "announceFailure"} /\ (Met(TaskOf(w), "unseen") \/ Met(TaskOf(w), "unfinished"))

Accounted ==
  /\ TicketsKnown /\ TogetherIsKnown /\ MappedIsAnnounced
  /\ \A w \in Workers : Hands(w) /\ KnowsNone(w)

AccountInv == OutboxInv /\ Accounted

\* What a step of a run leaves alone.
Moves(w) ==
  /\ \A v \in Workers : v # w =>
       /\ pc'[v] = pc[v] /\ batch'[v] = batch[v]
       /\ made'[v] = made[v] /\ guarded'[v] = guarded[v]
  /\ \A n \in DOMAIN rows : n \in DOMAIN rows' /\ rows'[n].task = rows[n].task
  /\ entries \subseteq entries'
  /\ \/ mapping' = mapping
     \/ pc[w] = "map" /\ mapping[TaskOf(w)] = None /\ mapping' = [mapping EXCEPT ![TaskOf(w)] = made[w]]
  /\ \/ tickets' = tickets
     \/ pc[w] = "create" /\ tickets' = [tickets EXCEPT ![TaskOf(w)] = @ + 1]

\* From where to where it goes.
Route(w) ==
  /\ pc[w] = "create" /\ tickets' # tickets => pc'[w] # "create"
  /\ pc[w] = "map" =>
       /\ pc'[w] # "map"
       /\ pc'[w] = "succeed" => batch'[w] = batch[w] /\ made'[w] = made[w] /\ mapping'[TaskOf(w)] # None
  /\ pc[w] = "succeed" =>
       \/ pc'[w] = "announce" /\ batch'[w] = batch[w] /\ made'[w] = made[w]
       \/ pc'[w] \in {"retry", "giveUp"}
       \/ pc'[w] \in {"idle", "find"} /\ (made[w] = None \/ (pc'[w] = "idle" /\ rows' = rows))
  /\ pc[w] = "announce" => pc'[w] # "announce"
  /\ pc'[w] = "map" => pc[w] = "create"
  /\ pc'[w] \in FoundNone =>
       /\ batch'[w] = batch[w]
       /\ \/ pc[w] \in {"lineage", "create"}
          \/ pc[w] = "find" /\ pc'[w] = "lineage" /\ mapping[TaskOf(w)] = None
          \/ pc[w] \in {"map", "giveUp", "announceFailure", "find", "succeed"} /\ pc'[w] \in {"giveUp", "announceFailure"}
       /\ pc[w] = "find" /\ pc'[w] # "lineage" => pc'[w] = "giveUp"
       /\ pc[w] = "succeed" => pc'[w] = "giveUp"

\* Where it goes a run takes its task with it.
LEMMA TaskStays ==
  ASSUME OutboxInv, NEW w \in Workers, pc[w] \in WorkerLabels \ {"claim"}, batch'[w] = batch[w],
         \A n \in DOMAIN rows : n \in DOMAIN rows' /\ rows'[n].task = rows[n].task
  PROVE  TaskOf(w)' = TaskOf(w) /\ TaskOf(w) \in Tasks
  BY CurrentSound DEF TaskOf, Current

LEMMA MishapsStay ==
  ASSUME mishaps' = mishaps \cup Befalls
  PROVE  /\ \A t, kind : Met(t, kind) => Met(t, kind)'
         /\ \A w \in Workers :
              /\ Unseen(w) => <<TaskOf(w), "unseen">> \in mishaps'
              /\ Unmapped(w) => <<TaskOf(w), "unmapped">> \in mishaps'
              /\ Unfinished(w) => <<TaskOf(w), "unfinished">> \in mishaps'
         /\ TogetherIsKnown'
  BY DEF Befalls, Met, TogetherIsKnown

\* A step of a run keeps the accounts.
LEMMA AccountStep ==
  ASSUME AccountInv, NEW w \in Workers, Moves(w), Route(w), Hands(w)', mishaps' = mishaps \cup Befalls
  PROVE  Accounted'
<1> DEFINE labels == WorkerLabels \ {"claim"}
<1>1. \A v \in Workers : v # w => pc'[v] = pc[v] /\ batch'[v] = batch[v] /\ made'[v] = made[v]
                               /\ guarded'[v] = guarded[v]
  BY DEF Moves
<1>2. \A v \in Workers : pc[v] \in labels /\ batch'[v] = batch[v] => TaskOf(v)' = TaskOf(v) /\ TaskOf(v) \in Tasks
  BY TaskStays DEF Moves, AccountInv
<1>3. pc[w] \in labels => TaskOf(w) \in Tasks
  BY CurrentSound DEF AccountInv
<1>4. \A t, kind : Met(t, kind) => Met(t, kind)'
  BY MishapsStay
<1>5. \A t \in Tasks : \A v \in Workers :
        v # w /\ {pc[v], pc[w]} \subseteq FoundNone /\ TaskOf(v) = t /\ TaskOf(w) = t => Met(t, "together")
  BY DEF AccountInv, Accounted, TogetherIsKnown, Together
<1>6. \/ mapping' = mapping
      \/ /\ pc[w] = "map" /\ mapping[TaskOf(w)] = None /\ made[w] # None /\ mapping' # mapping
         /\ mapping'[TaskOf(w)] = made[w] /\ \A t \in Tasks : t # TaskOf(w) => mapping'[t] = mapping[t]
  <2>1. pc[w] = "map" => made[w] # None /\ pc[w] \in labels
    BY DEF AccountInv, OutboxInv, Coherent, WorkerLabels
  <2> QED  BY <1>3, <2>1 DEF Moves, AccountInv, OutboxInv, ProgramTypes
<1>7. TicketsKnown'
  <2> SUFFICES ASSUME NEW t \in Tasks, ~Met(t, "together")', ~Met(t, "unmapped")'
               PROVE  /\ tickets'[t] <= 1
                      /\ tickets'[t] # 0 => mapping'[t] # None \/ \E v \in Workers : pc'[v] = "map" /\ TaskOf(v)' = t
    BY DEF TicketsKnown
  <2>1. /\ tickets[t] <= 1 /\ tickets[t] \in Nat
        /\ tickets[t] # 0 => mapping[t] # None \/ \E v \in Workers : pc[v] = "map" /\ TaskOf(v) = t
    BY <1>4 DEF AccountInv, Accounted, TicketsKnown, OutboxInv, ProgramTypes
  <2>2. mapping[t] # None => mapping'[t] # None
    BY <1>6
  <2>3. ~(Unmapped(w) /\ TaskOf(w) = t)
    BY MishapsStay DEF Met
  <2>4. ASSUME NEW v \in Workers, pc[v] = "map", TaskOf(v) = t
        PROVE  mapping'[t] # None \/ \E u \in Workers : pc'[u] = "map" /\ TaskOf(u)' = t
    <3>1. CASE v # w
      BY <1>1, <1>2, <2>4, <3>1 DEF WorkerLabels
    <3>2. CASE v = w
      <4>1. pc'[w] # "map" /\ (pc'[w] = "succeed" => mapping'[t] # None)
        BY <2>4, <3>2 DEF Route
      <4>2. CASE pc'[w] # "succeed"
        BY <1>6, <2>3, <2>4, <3>2, <4>1, <4>2 DEF Unmapped
      <4> QED  BY <4>1, <4>2
    <3> QED  BY <3>1, <3>2
  <2>5. CASE tickets'[t] = tickets[t]
    BY <2>1, <2>2, <2>4, <2>5
  <2>6. CASE tickets'[t] # tickets[t]
    <3>1. pc[w] = "create" /\ t = TaskOf(w) /\ tickets'[t] = tickets[t] + 1 /\ tickets' # tickets
      BY <1>3, <2>6 DEF Moves, AccountInv, OutboxInv, ProgramTypes, WorkerLabels
    <3>2. pc'[w] = "map"
      BY <2>3, <3>1 DEF Unmapped, Route
    <3>3. batch'[w] = batch[w]
      BY <3>2 DEF Route, FoundNone
    <3>4. mapping[t] = None
      BY <1>4, <3>1 DEF AccountInv, Accounted, KnowsNone, FoundNone
    <3>5. ~\E v \in Workers : pc[v] = "map" /\ TaskOf(v) = t
      BY <1>4, <1>5, <3>1 DEF FoundNone
    <3>6. tickets'[t] = 1
      BY <2>1, <3>1, <3>4, <3>5
    <3> QED  BY <1>2, <3>1, <3>2, <3>3, <3>6 DEF WorkerLabels
  <2> QED  BY <2>5, <2>6
<1>8. MappedIsAnnounced'
  <2> SUFFICES ASSUME NEW t \in Tasks, mapping'[t] # None, ~Met(t, "unfinished")',
                      [type |-> "TICKET_CREATED", task |-> t, ticket |-> mapping'[t]] \notin entries'
               PROVE  \E v \in Workers : pc'[v] \in {"succeed", "announce"} /\ made'[v] = mapping'[t] /\ TaskOf(v)' = t
    BY DEF MappedIsAnnounced
  <2>1. ~(Unfinished(w) /\ TaskOf(w) = t)
    BY MishapsStay DEF Met
  <2>2. CASE mapping'[t] = mapping[t]
    <3>1. PICK v \in Workers : pc[v] \in {"succeed", "announce"} /\ made[v] = mapping[t] /\ TaskOf(v) = t
      BY <1>4, <2>2 DEF Moves, AccountInv, Accounted, MappedIsAnnounced
    <3>2. CASE v # w
      BY <1>1, <1>2, <2>2, <3>1, <3>2 DEF WorkerLabels
    <3>3. CASE v = w /\ pc[w] = "succeed"
      <4>1. pc'[w] = "announce" /\ batch'[w] = batch[w] /\ made'[w] = made[w]
        BY <2>1, <2>2, <3>1, <3>3 DEF Route, Unfinished
      <4> QED  BY <1>2, <2>2, <3>1, <3>3, <4>1 DEF WorkerLabels
    <3>4. CASE v = w /\ pc[w] = "announce"
      BY <2>1, <2>2, <3>1, <3>4 DEF Route, Unfinished
    <3> QED  BY <3>1, <3>2, <3>3, <3>4
  <2>3. CASE mapping'[t] # mapping[t]
    <3>1. pc[w] = "map" /\ t = TaskOf(w) /\ mapping'[t] = made[w] /\ mapping' # mapping
      BY <1>6, <2>3
    <3>2. pc'[w] = "succeed"
      BY <2>1, <3>1 DEF Unfinished, Route
    <3> QED  BY <1>2, <3>1, <3>2 DEF Route, WorkerLabels
  <2> QED  BY <2>2, <2>3
<1>9. ASSUME NEW v \in Workers, v # w PROVE Hands(v)' /\ KnowsNone(v)'
  <2>1. pc'[v] = pc[v] /\ batch'[v] = batch[v] /\ made'[v] = made[v] /\ guarded'[v] = guarded[v]
    BY <1>1, <1>9
  <2>2. Hands(v) /\ KnowsNone(v)
    BY DEF AccountInv, Accounted
  <2>3. Hands(v)'
    BY <2>1, <2>2 DEF Hands, MayTryAgain, Current
  <2>4. KnowsNone(v)'
    <3> SUFFICES ASSUME pc[v] \in FoundNone PROVE KnowsNone(v)'
      BY <2>1 DEF KnowsNone
    <3>1. TaskOf(v)' = TaskOf(v) /\ TaskOf(v) \in Tasks
      BY <1>2, <2>1 DEF FoundNone, WorkerLabels
    <3>2. mapping'[TaskOf(v)] = mapping[TaskOf(v)] \/ Met(TaskOf(v), "together")
      BY <1>5, <1>6, <1>9, <3>1 DEF FoundNone
    <3> QED  BY <1>4, <2>1, <2>2, <3>1, <3>2 DEF KnowsNone
  <2> QED  BY <2>3, <2>4
<1>10. KnowsNone(w)'
  <2> SUFFICES ASSUME pc'[w] \in FoundNone PROVE KnowsNone(w)'
    BY DEF KnowsNone
  <2>1. batch'[w] = batch[w] /\ pc[w] \in labels
    BY DEF Route, WorkerLabels
  <2>2. TaskOf(w)' = TaskOf(w) /\ TaskOf(w) \in Tasks
    BY <1>2, <2>1
  <2>3. KnowsNone(w)
    BY DEF AccountInv, Accounted
  <2>4. CASE pc[w] \in {"lineage", "create"}
    BY <1>4, <1>6, <2>2, <2>3, <2>4 DEF KnowsNone, FoundNone
  <2>5. CASE pc[w] = "find" /\ pc'[w] = "lineage" /\ mapping[TaskOf(w)] = None
    BY <1>6, <2>2, <2>5 DEF KnowsNone
  <2>6. CASE pc[w] = "find" /\ pc'[w] = "giveUp"
    BY <2>2, <2>6, MishapsStay DEF KnowsNone, Unseen, Met
  <2>7. CASE pc[w] = "succeed" /\ pc'[w] = "giveUp"
    BY <2>2, <2>7, MishapsStay DEF KnowsNone, Unfinished, Met
  <2>8. CASE pc[w] = "map" /\ pc'[w] \in {"giveUp", "announceFailure"}
    <3>1. CASE mapping' = mapping
      BY <1>4, <2>2, <2>3, <2>8, <3>1 DEF KnowsNone, FoundNone
    <3>2. CASE mapping' # mapping
      <4>1. Met(TaskOf(w), "unfinished")'
        BY <2>2, <2>8, <3>2, MishapsStay DEF Unfinished, Met
      <4> QED  BY <2>2, <2>8, <4>1 DEF KnowsNone, Met
    <3> QED  BY <3>1, <3>2
  <2>9. CASE pc[w] \in {"giveUp", "announceFailure"} /\ pc'[w] \in {"giveUp", "announceFailure"}
    BY <1>4, <1>6, <2>2, <2>3, <2>9 DEF KnowsNone, FoundNone
  <2> QED  BY <2>4, <2>5, <2>6, <2>7, <2>8, <2>9 DEF Route
<1> QED  BY <1>7, <1>8, <1>9, <1>10, MishapsStay DEF Accounted

-----------------------------------------------------------------------------
(* Each step of a run leaves alone what AccountStep needs left alone, and  *)
(* goes where it may go.                                                   *)

\* On to the next row, or out of the run.
Leaves(w) == pc'[w] \in {"idle", "find"} /\ made'[w] = None /\ guarded'[w]

\* Into the catch, or out of the run.
Catches(w) ==
  /\ pc'[w] \in {"retry", "giveUp"} /\ batch'[w] = batch[w] /\ made'[w] = made[w]
  /\ pc'[w] = "retry" => MayTryAgain(w)
  /\ pc[w] = "retry" => pc'[w] = "retry"

LEMMA LeavesRoute ==
  ASSUME NEW w \in Workers, Leaves(w),
         pc[w] = "succeed" => made[w] = None \/ (pc'[w] = "idle" /\ rows' = rows)
  PROVE  Route(w) /\ Hands(w)'
  BY DEF Leaves, Route, Hands, FoundNone

LEMMA CatchesRoute ==
  ASSUME NEW w \in Workers, Catches(w),
         pc[w] \in {"find", "lineage", "create", "map", "succeed", "retry", "giveUp"}
  PROVE  Route(w) /\ Hands(w)'
  BY DEF Catches, Route, Hands, FoundNone, MayTryAgain, Current

LEMMA FinishLeaves ==
  ASSUME OutboxInv, NEW w \in Workers, Finish(w) PROVE Leaves(w)
  BY DEF Finish, Goto, Leaves, OutboxInv, ProgramTypes, Runs

LEMMA AbandonLeaves ==
  ASSUME OutboxInv, NEW w \in Workers, Abandon(w) PROVE Leaves(w)
  BY DEF Abandon, Goto, Leaves, OutboxInv, ProgramTypes, Runs

LEMMA CaughtCatches ==
  ASSUME OutboxInv, NEW w \in Workers, Hands(w), Caught(w) 
  PROVE  /\ Leaves(w) \/ Catches(w)
         /\ guarded[w] => Catches(w)
<1>1. CASE guarded[w]
  BY <1>1 DEF Caught, HandleRetryable, Goto, Catches, Hands, OutboxInv, ProgramTypes, Runs
<1>2. CASE ~guarded[w]
  BY <1>2, AbandonLeaves DEF Caught
<1> QED  BY <1>1, <1>2

LEMMA ProceedRoute ==
  ASSUME OutboxInv, NEW w \in Workers, NEW label, Proceed(w, label)
  PROVE  pc'[w] = label /\ batch' = batch /\ made' = made /\ guarded' = guarded
  BY DEF Proceed, Goto, OutboxInv, ProgramTypes, Runs

LEMMA RowTasksStay ==
  ASSUME OutboxInv, NEW w \in Workers,
         Poll(w) \/ ClaimRow(w) \/ Process(w) \/ QueryFails(w) \/ Crash(w)
  PROVE  \A n \in DOMAIN rows : n \in DOMAIN rows' /\ rows'[n].task = rows[n].task
<1>1. ASSUME NEW n \in DOMAIN rows, NEW status, NEW attempts, NEW due,
             SetRow(n, status, attempts, due)
      PROVE  \A k \in DOMAIN rows : k \in DOMAIN rows' /\ rows'[k].task = rows[k].task
  <2>1. rows[n] \in RowType
    BY RowsOfType DEF OutboxInv
  <2> QED  BY <1>1, <2>1 DEF SetRow, RowType
<1>2. todo[w] \subseteq DOMAIN rows
  BY DEF OutboxInv, ProgramTypes
<1>3. CASE ClaimRow(w)
  BY <1>1, <1>2, <1>3 DEF ClaimRow, SetStatus
<1>4. CASE MarkSucceeded(w) \/ MarkRetryable(w) \/ MarkPermanentFailure(w)
  <2>1. Current(w).id \in DOMAIN rows
    BY <1>4, CurrentSound DEF MarkSucceeded, MarkRetryable, MarkPermanentFailure, WorkerLabels
  <2> QED  BY <1>1, <1>4, <2>1 DEF MarkSucceeded, MarkRetryable, MarkPermanentFailure, SetStatus
<1>5. CASE UNCHANGED rows
  BY <1>5
<1> QED  BY <1>3, <1>4, <1>5 DEF Poll, Process, QueryFails, Crash, FindMapping, Lineage, CreateTicket,
            CreateFails, InsertMapping, Announce, AnnounceFailure, stores

LEMMA WorkerMoves ==
  ASSUME OutboxInv, NEW w \in Workers,
         Poll(w) \/ ClaimRow(w) \/ Process(w) \/ QueryFails(w) \/ Crash(w)
  PROVE  Moves(w)
<1>1. entries \subseteq entries'
  BY DEF Poll, ClaimRow, Process, QueryFails, Crash, FindMapping, Lineage, CreateTicket,
         CreateFails, InsertMapping, MarkSucceeded, Announce, MarkRetryable,
         MarkPermanentFailure, AnnounceFailure, Record, stores
<1>2. CASE InsertMapping(w)
  <2>1. TaskOf(w) \in Tasks /\ pc[w] = "map"
    BY <1>2, CurrentSound DEF InsertMapping, WorkerLabels
  <2>2. \/ mapping' = mapping
        \/ mapping[TaskOf(w)] = None /\ mapping' = [mapping EXCEPT ![TaskOf(w)] = made[w]]
    BY <1>2, <2>1 DEF InsertMapping, OutboxInv, ProgramTypes
  <2>3. tickets' = tickets
    BY <1>2 DEF InsertMapping
  <2> QED  BY <1>1, <2>1, <2>2, <2>3, OthersStand, RowTasksStay DEF Moves
<1>3. CASE CreateTicket(w) \/ CreateFails(w)
  <2>1. /\ pc[w] = "create" /\ mapping' = mapping
        /\ tickets' = tickets \/ tickets' = [tickets EXCEPT ![TaskOf(w)] = @ + 1]
    BY <1>3 DEF CreateTicket, CreateFails, NewTicket
  <2> QED  BY <1>1, <2>1, OthersStand, RowTasksStay DEF Moves
<1>4. CASE ~InsertMapping(w) /\ ~CreateTicket(w) /\ ~CreateFails(w)
  <2>1. mapping' = mapping /\ tickets' = tickets
    BY <1>4 DEF Poll, ClaimRow, Process, QueryFails, Crash, FindMapping, Lineage, MarkSucceeded,
                Announce, MarkRetryable, MarkPermanentFailure, AnnounceFailure, stores
  <2> QED  BY <1>1, <2>1, OthersStand, RowTasksStay DEF Moves
<1> QED  BY <1>2, <1>3, <1>4

LEMMA ClaimRoute ==
  ASSUME AccountInv, NEW w \in Workers, Poll(w) \/ ClaimRow(w) PROVE Route(w) /\ Hands(w)'
<1>1. pc[w] \in {"idle", "claim"} /\ made[w] = None /\ guarded[w]
  BY DEF Poll, ClaimRow, AccountInv, Accounted, Hands
<1>2. pc'[w] \in {"idle", "claim", "find"} /\ made'[w] = None /\ guarded'[w]
  <2>1. CASE Poll(w)
    BY <1>1, <2>1 DEF Poll, Goto, AccountInv, OutboxInv, ProgramTypes, Runs
  <2>2. CASE ClaimRow(w)
    <3>1. (\E n, claimed : Tried(w, n, claimed)) \/ Abandon(w)
      BY <2>2 DEF ClaimRow
    <3>2. CASE \E n, claimed : Tried(w, n, claimed)
      BY <1>1, <3>2 DEF Tried, Goto, AccountInv, OutboxInv, ProgramTypes, Runs
    <3>3. CASE Abandon(w)
      BY <3>3, AbandonLeaves DEF Leaves, AccountInv
    <3> QED  BY <3>1, <3>2, <3>3
  <2> QED  BY <2>1, <2>2
<1> QED  BY <1>1, <1>2 DEF Route, Hands, FoundNone

LEMMA LookupRoute ==
  ASSUME AccountInv, NEW w \in Workers, FindMapping(w) \/ Lineage(w) PROVE Route(w) /\ Hands(w)'
<1>1. OutboxInv /\ Hands(w)
  BY DEF AccountInv, Accounted
<1>2. CASE FindMapping(w)
  <2>1. pc[w] = "find" /\ made[w] = None /\ guarded[w]
    BY <1>1, <1>2 DEF FindMapping, Hands
  <2>2. pc'[w] = (IF mapping[TaskOf(w)] # None THEN "succeed" ELSE "lineage")
        /\ batch' = batch /\ made' = made /\ guarded' = guarded
    BY <1>1, <1>2, ProceedRoute DEF FindMapping
  <2> QED  BY <2>1, <2>2 DEF Route, Hands, FoundNone
<1>3. CASE Lineage(w)
  <2>1. pc[w] = "lineage" /\ made[w] = None /\ guarded[w]
    BY <1>1, <1>3 DEF Lineage, Hands
  <2>2. pc'[w] \in {"giveUp", "create"} /\ batch' = batch /\ made' = made /\ guarded' = guarded
    BY <1>1, <1>3, ProceedRoute DEF Lineage
  <2> QED  BY <2>1, <2>2 DEF Route, Hands, FoundNone
<1> QED  BY <1>2, <1>3

LEMMA CreateRoute ==
  ASSUME AccountInv, NEW w \in Workers, CreateTicket(w) \/ CreateFails(w)
  PROVE  Route(w) /\ Hands(w)'
<1>1. OutboxInv /\ Hands(w) /\ pc[w] = "create"
  BY DEF AccountInv, Accounted, CreateTicket, CreateFails
<1>2. CASE CreateTicket(w)
  <2>1. pc'[w] = "map" /\ batch' = batch /\ guarded' = guarded
    BY <1>1, <1>2 DEF CreateTicket, Goto, OutboxInv, ProgramTypes, Runs
  <2> QED  BY <1>1, <2>1 DEF Route, Hands, FoundNone
<1>3. CASE CreateFails(w)
  <2>1. Catches(w)
    BY <1>1, <1>3 DEF CreateFails, HandleRetryable, Goto, Catches, locals,
                      OutboxInv, ProgramTypes, Runs
  <2> QED  BY <1>1, <2>1, CatchesRoute
<1> QED  BY <1>2, <1>3

LEMMA MapRoute ==
  ASSUME AccountInv, NEW w \in Workers, InsertMapping(w) PROVE Route(w) /\ Hands(w)'
<1>1. OutboxInv /\ Hands(w) /\ pc[w] = "map"
  BY DEF AccountInv, Accounted, InsertMapping
<1>2. CASE Proceed(w, "succeed")
  <2>1. pc'[w] = "succeed" /\ batch' = batch /\ made' = made /\ guarded' = guarded
    BY <1>1, <1>2, ProceedRoute
  <2>2. mapping'[TaskOf(w)] # None
    <3>1. TaskOf(w) \in Tasks /\ made[w] # None
      BY <1>1, CurrentSound DEF WorkerLabels, OutboxInv, Coherent
    <3>2. mapping \in [Tasks -> Nat \cup {None}]
      BY <1>1 DEF OutboxInv, ProgramTypes
    <3>3. mapping'[TaskOf(w)] = IF mapping[TaskOf(w)] = None THEN made[w] ELSE mapping[TaskOf(w)]
      BY <3>1, <3>2 DEF InsertMapping
    <3> QED  BY <3>1, <3>3
  <2> QED  BY <1>1, <2>1, <2>2 DEF Route, Hands, FoundNone
<1>3. CASE AnswerLost(w)
  BY <1>1, <1>3, CaughtCatches, LeavesRoute, CatchesRoute DEF AnswerLost
<1> QED  BY <1>2, <1>3 DEF InsertMapping

LEMMA SucceedRoute ==
  ASSUME AccountInv, NEW w \in Workers, MarkSucceeded(w) PROVE Route(w) /\ Hands(w)'
<1>1. OutboxInv /\ Hands(w) /\ pc[w] = "succeed"
  BY DEF AccountInv, Accounted, MarkSucceeded
<1>2. CASE Proceed(w, "announce")
  <2>1. pc'[w] = "announce" /\ batch' = batch /\ made' = made
    BY <1>1, <1>2, ProceedRoute
  <2> QED  BY <1>1, <2>1 DEF Route, Hands, FoundNone
<1>3. CASE Finish(w) /\ made[w] = None
  BY <1>1, <1>3, FinishLeaves, LeavesRoute
<1>4. CASE AnswerLost(w)
  <2>1. guarded[w]
    BY <1>1 DEF Hands
  <2> QED  BY <1>1, <1>4, <2>1, CaughtCatches, CatchesRoute DEF AnswerLost
<1> QED  BY <1>2, <1>3, <1>4 DEF MarkSucceeded

LEMMA FailureRoute ==
  ASSUME AccountInv, NEW w \in Workers, MarkRetryable(w) \/ MarkPermanentFailure(w)
  PROVE  Route(w) /\ Hands(w)'
<1>1. OutboxInv /\ Hands(w) /\ pc[w] \in {"retry", "giveUp"}
  BY DEF AccountInv, Accounted, MarkRetryable, MarkPermanentFailure
<1>2. CASE pc[w] = "giveUp" /\ Proceed(w, "announceFailure")
  <2>1. pc'[w] = "announceFailure" /\ batch' = batch /\ made' = made
    BY <1>1, <1>2, ProceedRoute
  <2> QED  BY <1>2, <2>1 DEF Route, Hands, FoundNone
<1>3. CASE Finish(w)
  BY <1>1, <1>3, FinishLeaves, LeavesRoute
<1>4. CASE AnswerLost(w)
  BY <1>1, <1>4, CaughtCatches, LeavesRoute, CatchesRoute DEF AnswerLost
<1> QED  BY <1>2, <1>3, <1>4 DEF MarkRetryable, MarkPermanentFailure

LEMMA BreakRoute ==
  ASSUME AccountInv, NEW w \in Workers, QueryFails(w) \/ Crash(w) PROVE Route(w) /\ Hands(w)'
<1>1. OutboxInv /\ Hands(w)
  BY DEF AccountInv, Accounted
<1>2. CASE QueryFails(w)
  <2>1. pc[w] = "succeed" => guarded[w]
    BY <1>1 DEF Hands
  <2> QED  BY <1>1, <1>2, <2>1, AbandonLeaves, CaughtCatches, LeavesRoute, CatchesRoute DEF QueryFails
<1>3. CASE Crash(w)
  <2>1. pc'[w] = "idle" /\ rows' = rows /\ Abandon(w)
    BY <1>1, <1>3 DEF Crash, Abandon, Goto, stores, OutboxInv, ProgramTypes, Runs
  <2> QED  BY <1>1, <2>1, AbandonLeaves, LeavesRoute
<1> QED  BY <1>2, <1>3

LEMMA WorkerAccounted ==
  ASSUME AccountInv, NEW w \in Workers, mishaps' = mishaps \cup Befalls,
         Poll(w) \/ ClaimRow(w) \/ Process(w) \/ QueryFails(w) \/ Crash(w)
  PROVE  Accounted'
<1>1. Moves(w)
  BY WorkerMoves DEF AccountInv
<1>2. ASSUME Announce(w) \/ AnnounceFailure(w) PROVE Route(w) /\ Hands(w)'
  BY <1>2, FinishLeaves, LeavesRoute DEF Announce, AnnounceFailure, AccountInv
<1>3. Route(w) /\ Hands(w)'
  BY <1>2, ClaimRoute, LookupRoute, CreateRoute, MapRoute, SucceedRoute, FailureRoute, BreakRoute
     DEF Process
<1> QED  BY <1>1, <1>3, AccountStep

\* A step that is no run's: every run stays where it is, with its task.
LEMMA OthersAccounted ==
  ASSUME AccountInv, mishaps' = mishaps \cup Befalls,
         \/ \E t \in Tasks : Commit(t) \/ Trigger(t)
         \/ \E s \in Sweepers : Sweep(s) \/ AbandonSweep(s)
         \/ \E n \in DOMAIN rows : Due(n) \/ Reset(n)
  PROVE  Accounted'
<1>1. /\ UNCHANGED <<mapping, tickets, entries, batch, guarded, made>>
      /\ \A w \in Workers : pc'[w] = pc[w]
  <2>1. ASSUME NEW s \in Sweepers, Sweep(s) \/ AbandonSweep(s)
        PROVE  /\ UNCHANGED <<mapping, tickets, entries, batch, guarded, made>>
               /\ \A p \in Runs : p # s => pc'[p] = pc[p]
    BY <2>1 DEF Sweep, BeginSweep, SweepMapping, SweepInFlight, SweepEnqueue, AbandonSweep,
                NextCandidate, Goto, AccountInv, OutboxInv, ProgramTypes, stores
  <2> QED  BY <2>1, OutboxAssumption DEF Runs, Commit, Trigger, Due, Reset, locals, stores
<1>2. \A k \in DOMAIN rows : k \in DOMAIN rows' /\ rows'[k].task = rows[k].task
  <2>1. ASSUME NEW t \in Tasks, rows' = Enqueued(t)
        PROVE  \A k \in DOMAIN rows : k \in DOMAIN rows' /\ rows'[k].task = rows[k].task
    BY <2>1, EnqueuedSound DEF AccountInv, OutboxInv
  <2>2. ASSUME NEW s \in Sweepers, SweepEnqueue(s) PROVE at[s] \in Tasks
    BY <2>2 DEF SweepEnqueue, AccountInv, OutboxInv, Coherent
  <2>3. ASSUME NEW n \in DOMAIN rows, NEW status, NEW attempts, NEW due,
               SetRow(n, status, attempts, due)
        PROVE  \A k \in DOMAIN rows : k \in DOMAIN rows' /\ rows'[k].task = rows[k].task
    <3>1. rows[n] \in RowType
      BY RowsOfType DEF AccountInv, OutboxInv
    <3> QED  BY <2>3, <3>1 DEF SetRow, RowType
  <2> QED  BY <2>1, <2>2, <2>3 DEF Commit, Trigger, Due, Reset, Sweep, BeginSweep, SweepMapping,
              SweepInFlight, SweepEnqueue, AbandonSweep, stores
<1>3. \A w \in Workers : pc[w] \in WorkerLabels \ {"claim"} =>
        TaskOf(w)' = TaskOf(w) /\ Current(w)' = Current(w)
  BY <1>1, <1>2, TaskStays DEF AccountInv, Current
<1>4. \A t, kind : Met(t, kind) => Met(t, kind)'
  BY MishapsStay
<1>5. TicketsKnown'
  BY <1>1, <1>3, <1>4 DEF AccountInv, Accounted, TicketsKnown, WorkerLabels
<1>6. MappedIsAnnounced'
  BY <1>1, <1>3, <1>4 DEF AccountInv, Accounted, MappedIsAnnounced, WorkerLabels
<1>7. \A w \in Workers : Hands(w)' /\ KnowsNone(w)'
  BY <1>1, <1>3, <1>4 DEF AccountInv, Accounted, Hands, KnowsNone, MayTryAgain, WorkerLabels, FoundNone
<1> QED  BY <1>5, <1>6, <1>7, MishapsStay DEF Accounted

LEMMA InitAccounted == Init => Accounted
  BY DEF Init, Accounted, TicketsKnown, TogetherIsKnown, Together, MappedIsAnnounced, Hands,
         KnowsNone, FoundNone, Runs

LEMMA NextAccounted ==
  ASSUME OutboxInv, Accounted, [Next]_vars PROVE Accounted'
<1>1. CASE Next
  BY <1>1, WorkerAccounted, OthersAccounted DEF AccountInv, Next, Step
<1>2. CASE UNCHANGED vars
  BY <1>2 DEF vars, program, stores, locals, Accounted, TicketsKnown, TogetherIsKnown, Together,
              MappedIsAnnounced, Hands, KnowsNone, Met, TaskOf, Current, MayTryAgain
<1> QED  BY <1>1, <1>2

LEMMA AccountAlways == Spec => [](OutboxInv /\ Accounted)
<1>1. OutboxInv /\ Accounted /\ [Next]_vars => Accounted'
  BY NextAccounted
<1> QED  BY InitAccounted, OutboxInvAlways, <1>1, PTL DEF Spec

(***************************************************************************)
(* However many runs overlap and whatever fails, a task has a second       *)
(* ticket or a ticket the ledger does not know only when one of the named  *)
(* mishaps has befallen it.                                                *)
(***************************************************************************)
THEOREM TicketsAlwaysAccounted == Spec => []TicketsAreAccounted
<1>1. OutboxInv /\ Accounted => TicketsAreAccounted
  BY DEF Accounted, TicketsAreAccounted, SecondTicketHasCause, TicketsKnown
<1> QED  BY AccountAlways, <1>1, PTL

(***************************************************************************)
(* The ledger says that a ticket could not be made only of a task that has *)
(* none, but for the mishaps.                                              *)
(***************************************************************************)
THEOREM FailureAlwaysTrue == Spec => FailureIsTrue
<1> DEFINE Failed(t) == [type |-> "TICKET_CREATE_FAILED", task |-> t, ticket |-> None]
           Blamed(t) == mapping[t] = None \/ \E kind \in Mishaps \ {"unmapped"} : Met(t, kind)
<1>1. ASSUME OutboxInv, Accounted, [Next]_vars, NEW t \in Tasks, Failed(t) \in entries' \ entries
      PROVE  Blamed(t)
  <2>1. PICK w \in Workers : Announce(w) \/ AnnounceFailure(w)
    BY <1>1 DEF Next, Step, vars, program, stores, Commit, Trigger, Sweep, BeginSweep, SweepMapping,
                SweepInFlight, SweepEnqueue, AbandonSweep, Due, Reset, Poll, ClaimRow,
                Process, FindMapping, Lineage, CreateTicket, CreateFails, InsertMapping,
                MarkSucceeded, MarkRetryable, MarkPermanentFailure, QueryFails, Crash
  <2>2. ~Announce(w)
    BY <1>1 DEF Announce, Record
  <2>3. pc[w] = "announceFailure" /\ TaskOf(w) = t
    BY <1>1, <2>1, <2>2 DEF AnnounceFailure, Record
  <2> QED  BY <1>1, <2>3 DEF Accounted, KnowsNone, FoundNone, Mishaps
<1>2. OutboxInv /\ Accounted /\ [Next]_vars =>
        [\A t \in Tasks : Failed(t) \in entries' \ entries => Blamed(t)]_vars
  BY <1>1
<1> QED  BY AccountAlways, <1>2, PTL DEF Spec, FailureIsTrue

=============================================================================
