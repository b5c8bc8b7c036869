------------------------- MODULE AuditLedgerProofs -------------------------
(***************************************************************************)
(* The chain of the audit ledger is linear, what append returned stays,    *)
(* and the ledger implements the log that only grows, for any number of    *)
(* callers, verifiers, attempts and pages.  The verifier tells the truth,  *)
(* also of a store that alters rows behind its back.                       *)
(*                                                                         *)
(* The invariant is one of AlteredSpec: it says of the rows that were not  *)
(* altered what Spec makes true of all.                                    *)
(***************************************************************************)
EXTENDS AuditLedger, Sequences, FiniteSetTheorems, WellFoundedInduction, TLAPS

(***************************************************************************)
(* The advisory lock is held through the three steps that need it.         *)
(***************************************************************************)
LockInv ==
  \A a \in Appenders : pc[a] \in {"read", "insert", "commit"} => lock = a

(***************************************************************************)
(* What a transaction has read is still the end of the chain, but for what *)
(* was altered since.                                                      *)
(***************************************************************************)
HeadIsLast ==
  \A a \in Appenders :
    /\ pc[a] \in {"insert", "commit"} =>
         /\ head[a].seq = LastSeq(table)
         /\ LastSeq(table) \notin damaged => head[a] = HeadOf(table)
    /\ pc[a] = "commit" => pending[a] = NewRow(a)

(***************************************************************************)
(* The rows have no gap, the altered ones and only they have a wrong       *)
(* digest, and two that were not altered link up.                          *)
(***************************************************************************)
ChainStands ==
  /\ DOMAIN table = 1..LastSeq(table)
  /\ damaged \subseteq DOMAIN table
  /\ \A s \in DOMAIN table :
       /\ s \notin damaged => SelfConsistent(table[s])
       /\ s \in damaged => ~SelfConsistent(table[s])
       /\ s \notin damaged /\ s - 1 \notin damaged => table[s].prev = PrevHash(s)

AnswersStand ==
  \A row \in answered :
    row.seq \in DOMAIN table /\ (row.seq \notin damaged => table[row.seq] = row)

LedgerInv ==
  /\ TypeOK /\ LockInv /\ HeadIsLast /\ ChainStands /\ AnswersStand
  /\ LastSeq(table) \in Nat

-----------------------------------------------------------------------------
(* Tables.                                                                 *)

\* The last sequence number of a table without gaps.
LEMMA LastSeqOfInterval ==
  ASSUME NEW t, NEW n \in Nat, DOMAIN t = 1..n
  PROVE  LastSeq(t) = n
<1>1. CASE n = 0
  BY <1>1 DEF LastSeq
<1>2. CASE n > 0
  <2>1. n \in DOMAIN t /\ \A r \in DOMAIN t : r <= n
    BY <1>2
  <2>2. \A s \in DOMAIN t : (\A r \in DOMAIN t : r <= s) => s = n
    BY <2>1
  <2> QED  BY <2>1, <2>2, <1>2 DEF LastSeq
<1> QED  BY <1>1, <1>2

\* What Stored does to a table without gaps when the row is the next one.
LEMMA StoredExtends ==
  ASSUME NEW t, NEW n \in Nat, DOMAIN t = 1..n, NEW row, row.seq = n + 1
  PROVE  /\ DOMAIN Stored(t, row) = 1..(n + 1)
         /\ Stored(t, row)[n + 1] = row
         /\ \A s \in 1..n : Stored(t, row)[s] = t[s]
<1>1. 1..n \cup {n + 1} = 1..(n + 1)
  OBVIOUS
<1> QED  BY <1>1 DEF Stored

\* A new row has sound digests, its number follows the head, it names its hash.
LEMMA NewRowSound ==
  ASSUME NEW a \in Appenders, head[a].seq \in Nat, began[a] \in Nat
  PROVE  /\ RowType(NewRow(a))
         /\ NewRow(a).seq = head[a].seq + 1
         /\ NewRow(a).prev = head[a].hash
         /\ NewRow(a).content = job[a]
         /\ SelfConsistent(NewRow(a))
<1>1. NewRow(a) = [seq |-> head[a].seq + 1, time |-> began[a], content |-> job[a],
                   payloadHash |-> PayloadHash(job[a]), prev |-> head[a].hash,
                   hash |-> <<"entry", head[a].seq + 1, began[a],
                              PayloadHash(job[a]), head[a].hash>>]
  BY DEF NewRow, EntryHash
<1> QED  BY <1>1 DEF RowType, SelfConsistent, EntryHash

-----------------------------------------------------------------------------
(* The invariant.                                                          *)

LEMMA InitChain == Init => LedgerInv
<1> SUFFICES ASSUME Init PROVE LedgerInv
  OBVIOUS
<1> USE LedgerAssumption DEF Init
<1>1. DOMAIN table = {}
  OBVIOUS
<1>2. TypeOK
  BY <1>1 DEF TypeOK, Labels, InTransaction, NoHead, Appenders
<1>3. LockInv /\ HeadIsLast
  BY DEF LockInv, HeadIsLast
<1>4. ChainStands
  BY <1>1 DEF ChainStands, LastSeq
<1>6. LastSeq(table) \in Nat
  BY <1>1 DEF LastSeq
<1>5. AnswersStand
  BY DEF AnswersStand
<1> QED  BY <1>2, <1>3, <1>4, <1>5, <1>6 DEF LedgerInv

(***************************************************************************)
(* Steps that touch neither the table nor what was answered.               *)
(***************************************************************************)
LEMMA ErrorStep ==
  ASSUME LedgerInv, NEW a \in Appenders, AfterError(a), Release(a),
         UNCHANGED <<table, clock, began, head, walk, answered, damaged, calls>>
  PROVE  LedgerInv'
<1> USE LedgerAssumption DEF LedgerInv
<1>1. pc'[a] \in {"begin", "idle"} /\ pc' \in [Appenders -> Labels]
  BY DEF AfterError, Goto, TypeOK, Labels
<1>2. \A b \in Appenders : b # a => /\ pc'[b] = pc[b] /\ job'[b] = job[b]
                                   /\ pending'[b] = pending[b]
  BY DEF AfterError, Goto, TypeOK
<1>3. TypeOK'
  <2>1. attempt' \in [Appenders -> 1..MaxAttempts]
    BY DEF AfterError, MayRetry, TypeOK
  <2>2. lock' \in Appenders \cup {None}
    BY DEF Release, TypeOK
  <2>3. DOMAIN job' = Appenders /\ DOMAIN pending' = Appenders
    BY DEF AfterError, TypeOK
  <2>4. \A b \in Appenders : pc'[b] = "commit" => RowType(pending'[b])
    BY <1>1, <1>2 DEF TypeOK
  <2>5. \A v \in Verifiers : pc'[v] \in {"prior", "page", "alarm"} =>
          pc[v] \in {"prior", "page", "alarm"}
    BY <1>1, <1>2 DEF Appenders
  <2> QED  BY <1>1, <2>1, <2>2, <2>3, <2>4, <2>5 DEF TypeOK, RowType
<1>4. LockInv'
  BY <1>1, <1>2 DEF LockInv, Release, Appenders
<1>5. HeadIsLast'
  <2>1. HeadOf(table)' = HeadOf(table)
    BY DEF HeadOf, LastSeq
  <2>2. \A b \in Appenders : b # a => NewRow(b)' = NewRow(b)
    BY <1>2, SMTT(30) DEF NewRow
  <2> QED  BY <1>1, <1>2, <2>1, <2>2 DEF HeadIsLast
<1>6. ChainStands' /\ AnswersStand' /\ LastSeq(table)' \in Nat
  BY ZenonT(60) DEF ChainStands, AnswersStand, LastSeq, PrevHash, SelfConsistent
<1> QED  BY <1>3, <1>4, <1>5, <1>6

(***************************************************************************)
(* Steps of an actor that neither was nor will be under the lock.          *)
(***************************************************************************)
LEMMA OutsideStep ==
  ASSUME LedgerInv, NEW a \in Appenders, TypeOK',
         UNCHANGED <<table, lock, head, pending, answered, damaged>>,
         pc'[a] \notin {"read", "insert", "commit"},
         \A b \in Appenders : b # a => /\ pc'[b] = pc[b] /\ job'[b] = job[b]
                                      /\ began'[b] = began[b]
  PROVE  LedgerInv'
<1>1. LockInv'
  BY DEF LedgerInv, LockInv
<1>2. HeadIsLast'
  <2>1. HeadOf(table)' = HeadOf(table)
    BY DEF HeadOf, LastSeq
  <2>2. \A b \in Appenders : b # a => NewRow(b)' = NewRow(b)
    BY DEF NewRow
  <2> QED  BY <2>1, <2>2 DEF HeadIsLast, LedgerInv
<1>3. ChainStands' /\ AnswersStand' /\ LastSeq(table)' \in Nat
  BY DEF LedgerInv, ChainStands, AnswersStand, LastSeq, PrevHash, SelfConsistent
<1> QED  BY <1>1, <1>2, <1>3 DEF LedgerInv

LEMMA CallStep == ASSUME LedgerInv, NEW a \in Appenders, Call(a) PROVE LedgerInv'
<1>1. TypeOK'
  BY LedgerAssumption DEF LedgerInv, TypeOK, Call, Goto, Labels, RowType, Appenders
<1>2. /\ pc'[a] = "begin"
      /\ \A b \in Appenders : b # a => pc'[b] = pc[b] /\ job'[b] = job[b]
  BY DEF LedgerInv, TypeOK, Call, Goto
<1> QED  BY <1>1, <1>2, OutsideStep DEF Call

LEMMA BeginStep == ASSUME LedgerInv, NEW a \in Appenders, Begin(a) PROVE LedgerInv'
<1> PICK now \in clock..MaxTime : clock' = now /\ began' = [began EXCEPT ![a] = now]
  BY DEF Begin
<1>1. TypeOK'
  <2>1. now \in Nat
    BY LedgerAssumption DEF LedgerInv, TypeOK
  <2> QED  BY <2>1, LedgerAssumption
           DEF LedgerInv, TypeOK, Begin, Goto, Labels, InTransaction, RowType, Appenders
<1>2. /\ pc'[a] = "lock"
      /\ \A b \in Appenders : b # a => pc'[b] = pc[b] /\ began'[b] = began[b]
  BY DEF LedgerInv, TypeOK, Begin, Goto
<1> QED  BY <1>1, <1>2, OutsideStep DEF Begin

LEMMA LockStep == ASSUME LedgerInv, NEW a \in Appenders, Lock(a) PROVE LedgerInv'
<1> USE DEF LedgerInv, Lock, Goto, LockFree, txVars
<1>1. TypeOK'
  BY LedgerAssumption DEF TypeOK, Labels, InTransaction, RowType, Appenders
<1>2. pc'[a] = "read" /\ \A b \in Appenders : b # a => pc'[b] = pc[b]
  BY DEF TypeOK
<1>3. LockInv'
  BY <1>2, LedgerAssumption DEF LockInv, Appenders
<1>4. HeadIsLast'
  <2>1. HeadOf(table)' = HeadOf(table)
    BY DEF HeadOf, LastSeq
  <2>2. \A b \in Appenders : b # a => NewRow(b)' = NewRow(b)
    BY <1>2, SMTT(30) DEF NewRow
  <2> QED  BY <1>2, <2>1, <2>2 DEF HeadIsLast
<1>5. ChainStands' /\ AnswersStand' /\ LastSeq(table)' \in Nat
  BY ZenonT(60) DEF ChainStands, AnswersStand, LastSeq, PrevHash, SelfConsistent
<1> QED  BY <1>1, <1>3, <1>4, <1>5

LEMMA HeadOfLast ==
  ASSUME LedgerInv
  PROVE  DOMAIN HeadOf(table) = {"seq", "hash"} /\ HeadOf(table).seq = LastSeq(table)
  BY DEF LedgerInv, ChainStands, HeadOf, NoHead, LastSeq

LEMMA ReadHeadStep == ASSUME LedgerInv, NEW a \in Appenders, ReadHead(a) PROVE LedgerInv'
<1> USE DEF LedgerInv, ReadHead, Goto
<1>1. pc'[a] = "insert" /\ head'[a] = HeadOf(table)
      /\ \A b \in Appenders : b # a => pc'[b] = pc[b] /\ head'[b] = head[b]
  BY DEF TypeOK
<1>3. /\ DOMAIN HeadOf(table) = {"seq", "hash"}
      /\ HeadOf(table).seq = LastSeq(table) /\ LastSeq(table) \in Nat
  BY HeadOfLast
<1>4. TypeOK'
  BY <1>1, <1>3, LedgerAssumption DEF TypeOK, Labels, InTransaction, RowType, Appenders
<1>5. LockInv'
  BY <1>1 DEF LockInv
<1>6. HeadIsLast'
  <2>1. HeadOf(table)' = HeadOf(table) /\ LastSeq(table)' = LastSeq(table)
    BY DEF HeadOf, LastSeq
  <2>2. \A b \in Appenders : b # a => NewRow(b)' = NewRow(b)
    BY <1>1, SMTT(30) DEF NewRow
  <2> QED  BY <1>1, <1>3, <2>1, <2>2 DEF HeadIsLast
<1>7. ChainStands' /\ AnswersStand' /\ LastSeq(table)' \in Nat
  BY DEF ChainStands, AnswersStand, LastSeq, PrevHash, SelfConsistent
<1> QED  BY <1>4, <1>5, <1>6, <1>7

LEMMA InsertStep == ASSUME LedgerInv, NEW a \in Appenders, Insert(a) PROVE LedgerInv'
<1>1. CASE Collides(a)
  BY <1>1, ErrorStep DEF Insert, ReleaseOnError
<1>2. CASE ~Collides(a)
  <2> USE <1>2 DEF LedgerInv, Insert, Goto
  <2>1. /\ pc'[a] = "commit" /\ pending'[a] = NewRow(a)
        /\ \A b \in Appenders : b # a => pc'[b] = pc[b] /\ pending'[b] = pending[b]
    BY DEF TypeOK
  <2>2. RowType(NewRow(a))
    BY NewRowSound DEF TypeOK
  <2>3. TypeOK'
    BY <2>1, <2>2, LedgerAssumption DEF TypeOK, Labels, InTransaction, RowType, Appenders
  <2>4. LockInv'
    BY <2>1 DEF LockInv
  <2>5. HeadIsLast'
    <3>1. HeadOf(table)' = HeadOf(table)
      BY DEF HeadOf, LastSeq
    <3>2. \A b \in Appenders : NewRow(b)' = NewRow(b)
      BY <2>1, SMTT(30) DEF NewRow
    <3> QED  BY <2>1, <3>1, <3>2 DEF HeadIsLast
  <2>6. ChainStands' /\ AnswersStand' /\ LastSeq(table)' \in Nat
    BY DEF ChainStands, AnswersStand, LastSeq, PrevHash, SelfConsistent
  <2> QED  BY <2>3, <2>4, <2>5, <2>6
<1> QED  BY <1>1, <1>2

(***************************************************************************)
(* The one step that extends the chain.  Whoever commits holds the lock,   *)
(* so that what it read is still the end of the chain and nobody else is   *)
(* about to commit.                                                        *)
(***************************************************************************)
LEMMA ChainExtended ==
  ASSUME LedgerInv, NEW a \in Appenders, Commit(a)
  PROVE  /\ pending[a].seq = LastSeq(table) + 1
         /\ DOMAIN table' = 1..(LastSeq(table) + 1)
         /\ LastSeq(table)' = LastSeq(table) + 1
         /\ table'[LastSeq(table) + 1] = pending[a]
         /\ \A s \in 1..LastSeq(table) : table'[s] = table[s]
<1> DEFINE n == LastSeq(table)
<1>1. n \in Nat /\ DOMAIN table = 1..n
  BY DEF LedgerInv, ChainStands
<1>2. pending[a] = NewRow(a)
  BY DEF LedgerInv, HeadIsLast, Commit
<1>3. head[a].seq = n
  BY DEF LedgerInv, HeadIsLast, Commit
<1>4. pending[a].seq = n + 1
  BY <1>1, <1>2, <1>3, NewRowSound DEF LedgerInv, TypeOK
<1>5. table' = Stored(table, pending[a])
  BY DEF Commit
<1> HIDE DEF n
<1>6. /\ DOMAIN table' = 1..(n + 1)
      /\ table'[n + 1] = pending[a]
      /\ \A s \in 1..n : table'[s] = table[s]
  <2>1. PICK t : t = table
    OBVIOUS
  <2>2. PICK row : row = pending[a]
    OBVIOUS
  <2>3. /\ DOMAIN Stored(t, row) = 1..(n + 1)
        /\ Stored(t, row)[n + 1] = row
        /\ \A s \in 1..n : Stored(t, row)[s] = t[s]
    BY <1>1, <1>4, <2>1, <2>2, StoredExtends
  <2> QED  BY <1>5, <2>1, <2>2, <2>3
<1>7. LastSeq(table)' = n + 1
  <2>1. PICK t : t = table'
    OBVIOUS
  <2>2. LastSeq(t) = n + 1
    BY <1>1, <1>6, <2>1, LastSeqOfInterval
  <2> QED  BY <2>1, <2>2 DEF LastSeq
<1> QED  BY <1>4, <1>6, <1>7 DEF n

LEMMA CommitStep == ASSUME LedgerInv, NEW a \in Appenders, Commit(a) PROVE LedgerInv'
<1> DEFINE n == LastSeq(table)
           row == pending[a]
<1>1. /\ n \in Nat /\ DOMAIN table = 1..n
      /\ pc[a] = "commit" /\ row = NewRow(a)
      /\ n \notin damaged => head[a] = HeadOf(table)
      /\ damaged' = damaged /\ damaged \subseteq 1..n
  BY DEF LedgerInv, ChainStands, HeadIsLast, Commit
<1>2. /\ row.seq = n + 1
      /\ DOMAIN table' = 1..(n + 1)
      /\ LastSeq(table)' = n + 1
      /\ table'[n + 1] = row
      /\ \A s \in 1..n : table'[s] = table[s]
  BY ChainExtended
<1>3. /\ RowType(row) /\ SelfConsistent(row) /\ row.prev = head[a].hash
  BY <1>1, NewRowSound DEF LedgerInv, TypeOK
<1>4. n \notin damaged => row.prev = IF n = 0 THEN Genesis ELSE table[n].hash
  <2>1. CASE n = 0
    BY <1>1, <1>3, <2>1 DEF HeadOf, NoHead
  <2>2. CASE n # 0
    BY <1>1, <1>3, <2>2 DEF HeadOf
  <2> QED  BY <2>1, <2>2
<1>5. /\ pc' \in [Appenders -> Labels] /\ pc'[a] \in {"begin", "idle"}
      /\ \A b \in Appenders : b # a => pc'[b] = pc[b] /\ pending'[b] = pending[b]
  BY DEF Commit, Answered, AfterError, Goto, LedgerInv, TypeOK, Labels
<1>6. \A b \in Appenders : b # a => pc[b] \notin {"read", "insert", "commit"}
  BY <1>1 DEF LedgerInv, LockInv
<1> HIDE DEF n, row
<1>7. TypeOK'
  <2>7. lock' \in Appenders \cup {None}
    BY DEF Commit, Release, LedgerInv, TypeOK
  <2>1. attempt' \in [Appenders -> 1..MaxAttempts]
    <3>1. \/ attempt' = attempt
          \/ attempt[a] < MaxAttempts /\ attempt' = [attempt EXCEPT ![a] = @ + 1]
      BY DEF Commit, Answered, AfterError, MayRetry
    <3> QED  BY <3>1, LedgerAssumption DEF LedgerInv, TypeOK
  <2>2. /\ DOMAIN job' = Appenders /\ DOMAIN pending' = Appenders
        /\ UNCHANGED <<clock, began, head, walk, calls>>
    BY DEF Commit, Answered, AfterError, LedgerInv, TypeOK
  <2>3. \A s \in DOMAIN table' : RowType(table'[s]) /\ table'[s].seq = s
    <3> SUFFICES ASSUME NEW s \in DOMAIN table'
                 PROVE  RowType(table'[s]) /\ table'[s].seq = s
      OBVIOUS
    <3>1. CASE s = n + 1
      BY <1>2, <1>3, <3>1
    <3>2. CASE s \in 1..n
      BY <1>1, <1>2, <3>2 DEF LedgerInv, TypeOK
    <3> QED  BY <1>1, <1>2, <3>1, <3>2
  <2>4. \A b \in Appenders : pc'[b] # "commit"
    BY <1>5, <1>6
  <2>5. \A v \in Verifiers : pc'[v] \in {"prior", "page", "alarm"} =>
          pc[v] \in {"prior", "page", "alarm"}
    BY <1>5 DEF Appenders
  <2>6. DOMAIN table' \subseteq Nat
    BY <1>1, <1>2
  <2> QED  BY <1>5, <2>1, <2>2, <2>3, <2>4, <2>5, <2>6, <2>7 DEF TypeOK, LedgerInv, RowType
<1>8. LockInv' /\ HeadIsLast'
  BY <1>5, <1>6 DEF LockInv, HeadIsLast
<1>9. ChainStands'
  <2>1. ASSUME NEW s \in 1..(n + 1)
        PROVE  /\ s \notin damaged => SelfConsistent(table'[s])
               /\ s \in damaged => ~SelfConsistent(table'[s])
               /\ s \notin damaged /\ s - 1 \notin damaged => table'[s].prev = PrevHash(s)'
    <3>1. CASE s = n + 1
      <4>1. PrevHash(s)' = IF n = 0 THEN Genesis ELSE table[n].hash
        BY <1>1, <1>2, <3>1 DEF PrevHash
      <4>2. s \notin damaged /\ s - 1 = n
        BY <1>1, <3>1
      <4> QED  BY <1>2, <1>3, <1>4, <3>1, <4>1, <4>2
    <3>2. CASE s \in 1..n
      <4>1. /\ s \notin damaged => SelfConsistent(table[s])
            /\ s \in damaged => ~SelfConsistent(table[s])
            /\ s \notin damaged /\ s - 1 \notin damaged => table[s].prev = PrevHash(s)
        BY <1>1, <3>2 DEF LedgerInv, ChainStands
      <4>2. PrevHash(s)' = PrevHash(s)
        BY <1>1, <1>2, <3>2 DEF PrevHash
      <4> QED  BY <1>2, <3>2, <4>1, <4>2
    <3> QED  BY <1>1, <3>1, <3>2
  <2>2. \A s \in 1..(n + 1) :
          /\ s \notin damaged' => SelfConsistent(table[s])'
          /\ s \in damaged' => ~SelfConsistent(table[s])'
          /\ s \notin damaged' /\ s - 1 \notin damaged' => table'[s].prev = PrevHash(s)'
    BY <1>1, <2>1 DEF SelfConsistent
  <2>3. damaged' \subseteq 1..(n + 1)
    BY <1>1
  <2> QED  BY <1>2, <2>2, <2>3 DEF ChainStands
<1>10. AnswersStand'
  <2> SUFFICES ASSUME NEW r \in answered'
               PROVE  r.seq \in DOMAIN table' /\ (r.seq \notin damaged => table'[r.seq] = r)
    BY <1>1 DEF AnswersStand
  <2>1. r \in answered \/ r = row
    BY DEF Commit, Answered, AfterError, row
  <2>2. CASE r = row
    BY <1>1, <1>2, <2>2
  <2>3. CASE r \in answered
    <3>1. r.seq \in 1..n /\ (r.seq \notin damaged => table[r.seq] = r)
      BY <1>1, <2>3 DEF LedgerInv, AnswersStand
    <3> QED  BY <1>1, <1>2, <3>1
  <2> QED  BY <2>1, <2>2, <2>3
<1> QED  BY <1>1, <1>2, <1>7, <1>8, <1>9, <1>10 DEF LedgerInv

LEMMA FailStep == ASSUME LedgerInv, NEW a \in Appenders, Fail(a) PROVE LedgerInv'
  BY ErrorStep DEF Fail, ReleaseOnError

-----------------------------------------------------------------------------
(* Walks read the chain; only the entry they append at last extends it.    *)

LEMMA ConcludeTypes ==
  ASSUME LedgerInv, NEW v \in Verifiers, NEW w, Conclude(v, w),
         UNCHANGED <<table, lock, clock, attempt, began, head, pending>>,
         calls' \in Nat
  PROVE  /\ TypeOK' /\ pc'[v] = "begin"
         /\ \A b \in Appenders : b # v => pc'[b] = pc[b] /\ job'[b] = job[b]
  BY LedgerAssumption DEF LedgerInv, TypeOK, Conclude, Goto, Labels, Appenders, RowType, WalkType

\* The walk goes on, at label, with its locals in w.
LEMMA GoOnTypes ==
  ASSUME LedgerInv, NEW v \in Verifiers, NEW w, WalkType(w),
         NEW label \in {"prior", "page", "alarm"},
         walk' = [walk EXCEPT ![v] = w], Goto(v, label),
         UNCHANGED <<table, lock, clock, job, attempt, began, head, pending>>,
         calls' \in Nat
  PROVE  /\ TypeOK' /\ pc'[v] = label
         /\ \A b \in Appenders : b # v => pc'[b] = pc[b]
<1>1. /\ pc' \in [Appenders -> Labels] /\ pc'[v] = label
      /\ \A b \in Appenders : b # v => pc'[b] = pc[b]
  BY DEF LedgerInv, TypeOK, Goto, Labels, Appenders
<1>2. \A u \in Verifiers : pc'[u] \in {"prior", "page", "alarm"} => WalkType(walk'[u])
  BY <1>1 DEF LedgerInv, TypeOK, Appenders
<1>3. \A a \in Appenders : pc'[a] = "commit" => pc[a] = "commit"
  BY <1>1
<1> QED  BY <1>1, <1>2, <1>3 DEF LedgerInv, TypeOK, RowType

\* The walk is over without an entry.
LEMMA StopTypes ==
  ASSUME LedgerInv, NEW v \in Verifiers, Goto(v, "idle"),
         walk' = [walk EXCEPT ![v] = None],
         UNCHANGED <<table, lock, clock, txVars, calls>>
  PROVE  /\ TypeOK' /\ pc'[v] = "idle"
         /\ \A b \in Appenders : b # v => pc'[b] = pc[b]
  BY LedgerAssumption DEF LedgerInv, TypeOK, Goto, Labels, Appenders, RowType, WalkType, txVars

LEMMA StartWalkStep == ASSUME LedgerInv, NEW v \in Verifiers, StartWalk(v) PROVE LedgerInv'
<1>1. v \in Appenders
  BY DEF Appenders
<1>2. calls' \in Nat
  BY DEF StartWalk, LedgerInv, TypeOK
<1>3. PICK range \in Ranges :
        LET w == [from |-> range[1], to |-> range[2], cursor |-> range[1],
                  expected |-> Genesis, last |-> range[1] - 1, checked |-> 0,
                  anchored |-> TRUE, known |-> damaged]
        IN \/ walk' = [walk EXCEPT ![v] = w] /\ Goto(v, "prior") /\ UNCHANGED <<verdicts, job>>
           \/ Conclude(v, w)
           \/ walk' = [walk EXCEPT ![v] = w] /\ Goto(v, "page") /\ UNCHANGED <<verdicts, job>>
  BY DEF StartWalk
<1>4. PICK w : w = [from |-> range[1], to |-> range[2], cursor |-> range[1],
                    expected |-> Genesis, last |-> range[1] - 1, checked |-> 0,
                    anchored |-> TRUE, known |-> damaged]
  OBVIOUS
<1>5. WalkType(w)
  BY <1>4, LedgerAssumption DEF WalkType
<1>6. CASE Conclude(v, w)
  BY <1>1, <1>2, <1>6, ConcludeTypes, OutsideStep DEF StartWalk
<1>7. CASE walk' = [walk EXCEPT ![v] = w] /\ Goto(v, "prior") /\ UNCHANGED job
  BY <1>1, <1>2, <1>5, <1>7, GoOnTypes, OutsideStep DEF StartWalk
<1>8. CASE walk' = [walk EXCEPT ![v] = w] /\ Goto(v, "page") /\ UNCHANGED job
  BY <1>1, <1>2, <1>5, <1>8, GoOnTypes, OutsideStep DEF StartWalk
<1> QED  BY <1>3, <1>4, <1>6, <1>7, <1>8

LEMMA ReadPriorStep == ASSUME LedgerInv, NEW v \in Verifiers, ReadPrior(v) PROVE LedgerInv'
<1>1. v \in Appenders
  BY DEF Appenders
<1>2. calls' \in Nat
  BY DEF ReadPrior, LedgerInv, TypeOK
<1>3. PICK w : /\ \E e, f : w = [walk[v] EXCEPT !.expected = e, !.anchored = f]
               /\ \/ Conclude(v, w)
                  \/ walk' = [walk EXCEPT ![v] = w] /\ Goto(v, "page") /\ UNCHANGED job
  BY DEF ReadPrior
<1>4. WalkType(w)
  BY <1>3 DEF WalkType, ReadPrior, LedgerInv, TypeOK
<1>5. CASE Conclude(v, w)
  BY <1>1, <1>2, <1>5, ConcludeTypes, OutsideStep DEF ReadPrior
<1>6. CASE walk' = [walk EXCEPT ![v] = w] /\ Goto(v, "page") /\ UNCHANGED job
  BY <1>1, <1>2, <1>4, <1>6, GoOnTypes, OutsideStep DEF ReadPrior
<1> QED  BY <1>3, <1>5, <1>6

LEMMA ReadPageStep == ASSUME LedgerInv, NEW v \in Verifiers, ReadPage(v) PROVE LedgerInv'
<1>1. v \in Appenders /\ pc[v] = "page" /\ WalkType(walk[v])
  BY DEF Appenders, ReadPage, LedgerInv, TypeOK
<1>2. calls' \in Nat
  BY DEF ReadPage, LedgerInv, TypeOK
<1>3. PICK w : \/ Conclude(v, w)
               \/ /\ \E l : w = [walk[v] EXCEPT !.last = l]
                  /\ walk' = [walk EXCEPT ![v] = w] /\ Goto(v, "alarm") /\ UNCHANGED job
               \/ /\ \E l, c, e, u : w = [walk[v] EXCEPT !.last = l, !.checked = @ + c,
                                                        !.expected = e, !.cursor = u]
                  /\ walk' = [walk EXCEPT ![v] = w] /\ UNCHANGED <<pc, job>>
  BY DEF ReadPage
<1>4. CASE Conclude(v, w)
  BY <1>1, <1>2, <1>4, ConcludeTypes, OutsideStep DEF ReadPage
<1>5. CASE /\ \E l : w = [walk[v] EXCEPT !.last = l]
           /\ walk' = [walk EXCEPT ![v] = w] /\ Goto(v, "alarm") /\ UNCHANGED job
  <2>1. WalkType(w)
    BY <1>1, <1>5 DEF WalkType
  <2> QED  BY <1>1, <1>2, <1>5, <2>1, GoOnTypes, OutsideStep DEF ReadPage
<1>6. CASE /\ \E l, c, e, u : w = [walk[v] EXCEPT !.last = l, !.checked = @ + c,
                                                  !.expected = e, !.cursor = u]
           /\ walk' = [walk EXCEPT ![v] = w] /\ UNCHANGED <<pc, job>>
  <2>1. WalkType(w)
    BY <1>1, <1>6 DEF WalkType
  <2>2. Goto(v, "page")
    BY <1>1, <1>6 DEF Goto, LedgerInv, TypeOK
  <2> QED  BY <1>1, <1>2, <1>6, <2>1, <2>2, GoOnTypes, OutsideStep DEF ReadPage
<1> QED  BY <1>3, <1>4, <1>5, <1>6

LEMMA RecordFailureStep == ASSUME LedgerInv, NEW v \in Verifiers, RecordFailure(v) PROVE LedgerInv'
<1>1. v \in Appenders
  BY DEF Appenders
<1> QED  BY <1>1, StopTypes, OutsideStep DEF RecordFailure, txVars

LEMMA FailWalkStep == ASSUME LedgerInv, NEW v \in Verifiers, FailWalk(v) PROVE LedgerInv'
<1>1. v \in Appenders
  BY DEF Appenders
<1> QED  BY <1>1, StopTypes, OutsideStep DEF FailWalk, txVars

LEMMA IdleStep ==
  ASSUME LedgerInv, clock' \in Nat, calls' = calls,
         UNCHANGED <<table, lock, pc, txVars, walk, answered, damaged>>
  PROVE  LedgerInv'
<1> USE DEF LedgerInv, txVars
<1>1. TypeOK'
  BY DEF TypeOK, RowType, WalkType
<1>2. LockInv' /\ AnswersStand'
  BY DEF LockInv, AnswersStand
<1>3. HeadIsLast'
  <2>1. HeadOf(table)' = HeadOf(table) /\ LastSeq(table)' = LastSeq(table)
    BY DEF HeadOf, LastSeq
  <2>2. \A b \in Appenders : NewRow(b)' = NewRow(b)
    BY SMTT(30) DEF NewRow
  <2> QED  BY <2>1, <2>2 DEF HeadIsLast
<1>4. ChainStands' /\ LastSeq(table)' \in Nat
  BY DEF ChainStands, LastSeq, PrevHash, SelfConsistent
<1> QED  BY <1>1, <1>2, <1>3, <1>4

(***************************************************************************)
(* A column of a row that was sound gets another value: a digest over it,  *)
(* or the column itself if it is one, is wrong from then on.               *)
(***************************************************************************)
LEMMA AlteredRow ==
  ASSUME NEW row, RowType(row), SelfConsistent(row),
         NEW c \in Columns, row[c] # Garbled
  PROVE  /\ RowType([row EXCEPT ![c] = Garbled])
         /\ ~SelfConsistent([row EXCEPT ![c] = Garbled])
         /\ [row EXCEPT ![c] = Garbled].seq = row.seq
<1>1. DOMAIN row = {"seq", "time", "content", "payloadHash", "prev", "hash"}
  BY DEF RowType
<1>2. CASE c = "content"
  BY <1>1, <1>2 DEF RowType, SelfConsistent, PayloadHash
<1>3. CASE c = "payloadHash"
  BY <1>1, <1>3 DEF RowType, SelfConsistent, PayloadHash
<1>4. CASE c = "prev"
  BY <1>1, <1>4 DEF RowType, SelfConsistent, EntryHash
<1>5. CASE c = "hash"
  BY <1>1, <1>5 DEF RowType, SelfConsistent, EntryHash
<1> QED  BY <1>2, <1>3, <1>4, <1>5 DEF Columns

LEMMA AlterSound ==
  ASSUME LedgerInv, Alter
  PROVE  /\ DOMAIN table' = DOMAIN table
         /\ damaged \subseteq damaged' /\ damaged' \subseteq DOMAIN table
         /\ \A s \in DOMAIN table :
              /\ RowType(table'[s]) /\ table'[s].seq = s
              /\ s \notin damaged' => table'[s] = table[s]
              /\ s \in damaged' => ~SelfConsistent(table'[s])
<1>1. PICK s \in DOMAIN table, c \in Columns :
        /\ s \notin damaged /\ table[s][c] # Garbled
        /\ table' = [table EXCEPT ![s] = [@ EXCEPT ![c] = Garbled]]
        /\ damaged' = damaged \cup {s}
  BY DEF Alter
<1>2. RowType(table[s]) /\ SelfConsistent(table[s]) /\ table[s].seq = s
  BY <1>1 DEF LedgerInv, TypeOK, ChainStands
<1>3. PICK row : row = [table[s] EXCEPT ![c] = Garbled]
  OBVIOUS
<1>4. RowType(row) /\ ~SelfConsistent(row) /\ row.seq = s
  BY <1>1, <1>2, <1>3, AlteredRow
<1>5. table' = [table EXCEPT ![s] = row]
  BY <1>1, <1>3
<1>6. \A r \in DOMAIN table : r # s =>
        /\ RowType(table[r]) /\ table[r].seq = r
        /\ r \in damaged => ~SelfConsistent(table[r])
  BY DEF LedgerInv, TypeOK, ChainStands
<1> QED  BY <1>1, <1>4, <1>5, <1>6, ZenonT(60) DEF LedgerInv, ChainStands

LEMMA AlterStep == ASSUME LedgerInv, Alter PROVE LedgerInv'
<1>1. /\ DOMAIN table' = DOMAIN table
      /\ damaged \subseteq damaged' /\ damaged' \subseteq DOMAIN table
      /\ \A s \in DOMAIN table :
           /\ RowType(table'[s]) /\ table'[s].seq = s
           /\ s \notin damaged' => table'[s] = table[s]
           /\ s \in damaged' => ~SelfConsistent(table'[s])
  BY AlterSound
<1>2. UNCHANGED <<lock, clock, pc, txVars, walk, answered, calls>>
  BY DEF Alter
<1>3. LastSeq(table)' = LastSeq(table)
  BY <1>1 DEF LastSeq
<1>4. TypeOK'
  BY <1>1, <1>2 DEF LedgerInv, TypeOK, RowType, WalkType, txVars
<1>5. LockInv'
  BY <1>2 DEF LedgerInv, LockInv
<1>6. HeadIsLast'
  <2>1. LastSeq(table) \notin damaged' => HeadOf(table)' = HeadOf(table)
    <3>1. CASE DOMAIN table = {}
      BY <1>1, <3>1 DEF HeadOf
    <3>2. CASE DOMAIN table # {}
      <4>1. LastSeq(table) \in DOMAIN table
        BY <3>2 DEF LedgerInv, ChainStands
      <4> QED  BY <1>1, <1>3, <3>2, <4>1 DEF HeadOf
    <3> QED  BY <3>1, <3>2
  <2>2. \A a \in Appenders : NewRow(a)' = NewRow(a)
    BY <1>2 DEF NewRow, txVars
  <2> QED  BY <1>1, <1>2, <1>3, <2>1, <2>2 DEF LedgerInv, HeadIsLast, txVars
<1>7. ChainStands'
  <2>1. ASSUME NEW s \in DOMAIN table, s \notin damaged', s - 1 \notin damaged'
        PROVE  table'[s].prev = PrevHash(s)'
    <3>1. table[s].prev = PrevHash(s) /\ table'[s] = table[s]
      BY <1>1, <2>1 DEF LedgerInv, ChainStands
    <3>2. s # 1 => s - 1 \in DOMAIN table
      BY DEF LedgerInv, ChainStands
    <3>3. PrevHash(s)' = PrevHash(s)
      BY <1>1, <2>1, <3>2 DEF PrevHash
    <3> QED  BY <3>1, <3>3
  <2>2. ASSUME NEW s \in DOMAIN table
        PROVE  /\ s \notin damaged' => SelfConsistent(table[s])'
               /\ s \in damaged' => ~SelfConsistent(table[s])'
    BY <1>1 DEF LedgerInv, ChainStands, SelfConsistent
  <2> QED  BY <1>1, <1>3, <2>1, <2>2 DEF LedgerInv, ChainStands
<1>8. AnswersStand'
  BY <1>1, <1>2 DEF LedgerInv, AnswersStand
<1> QED  BY <1>3, <1>4, <1>5, <1>6, <1>7, <1>8 DEF LedgerInv

LEMMA NextChain == LedgerInv /\ [Next \/ Alter]_vars => LedgerInv'
<1> SUFFICES ASSUME LedgerInv, [Next \/ Alter]_vars PROVE LedgerInv'
  OBVIOUS
<1>1. ASSUME NEW a \in Appenders, AppendStep(a) PROVE LedgerInv'
  BY <1>1, CallStep, BeginStep, LockStep, ReadHeadStep, InsertStep, CommitStep, FailStep
     DEF AppendStep
<1>2. ASSUME NEW v \in Verifiers, WalkStep(v) PROVE LedgerInv'
  BY <1>2, StartWalkStep, ReadPriorStep, ReadPageStep, RecordFailureStep, FailWalkStep
     DEF WalkStep
<1>3. CASE UNCHANGED vars
  <2>1. clock' \in Nat
    BY <1>3 DEF vars, LedgerInv, TypeOK
  <2> QED  BY <1>3, <2>1, IdleStep DEF vars
<1> QED  BY <1>1, <1>2, <1>3, AlterStep DEF Next

(***************************************************************************)
(* The inductive invariant, whatever rows are altered in the store.        *)
(***************************************************************************)
THEOREM LedgerInvAlways == AlteredSpec => []LedgerInv
  BY InitChain, NextChain, PTL DEF AlteredSpec

\* Nothing is altered by the program itself.
LEMMA NothingAltered == Spec => [](LedgerInv /\ damaged = {})
<1>1. Init => damaged = {}
  BY DEF Init
<1>2. damaged = {} /\ [Next]_vars => (damaged = {})'
  BY DEF Next, AppendStep, WalkStep, Call, Begin, Lock, ReadHead, Insert, Commit, Fail,
         StartWalk, ReadPrior, ReadPage, RecordFailure, FailWalk, vars
<1>3. LedgerInv /\ [Next]_vars => LedgerInv'
  BY NextChain
<1> QED  BY <1>1, <1>2, <1>3, InitChain, PTL DEF Spec

(***************************************************************************)
(* Every variable keeps its type.                                          *)
(***************************************************************************)
THEOREM LedgerTypeCorrect == Spec => []TypeOK
<1>1. LedgerInv => TypeOK
  BY DEF LedgerInv
<1> QED  BY <1>1, NothingAltered, PTL

(***************************************************************************)
(* The chain of the ledger has no gap, no fork and no wrong link,          *)
(* whatever appends overlap, fail or are tried again.                      *)
(***************************************************************************)
THEOREM ChainAlwaysLinear == Spec => []ChainIsLinear
<1>1. LedgerInv /\ damaged = {} => ChainIsLinear
  BY DEF LedgerInv, ChainStands, ChainIsLinear
<1> QED  BY <1>1, NothingAltered, PTL

(***************************************************************************)
(* What append returned to a caller stays stored as it was returned.       *)
(***************************************************************************)
THEOREM AnsweredAlwaysStored == Spec => []AnsweredIsStored
<1>1. LedgerInv /\ damaged = {} => AnsweredIsStored
  BY DEF LedgerInv, AnswersStand, AnsweredIsStored
<1> QED  BY <1>1, NothingAltered, PTL

-----------------------------------------------------------------------------
(* Refinement: a commit adds one entry, every other step adds none.        *)

\* The mapped log and acknowledgements, as AuditLedger's instance maps them.
Mapped == [s \in DOMAIN table |-> table[s].content]
Acked == {<<row.seq, row.content>> : row \in answered}

LEMMA MappedLength ==
  ASSUME LedgerInv
  PROVE  Len(Mapped) = LastSeq(table) /\ DOMAIN Mapped = 1..LastSeq(table)
<1>1. LastSeq(table) \in Nat /\ DOMAIN Mapped = 1..LastSeq(table)
  BY DEF LedgerInv, ChainStands, Mapped
<1>2. PICK S : S = {Mapped[s] : s \in 1..LastSeq(table)}
  OBVIOUS
<1>3. Mapped \in Seq(S)
  <2>1. Mapped \in [1..LastSeq(table) -> S]
    BY <1>1, <1>2 DEF Mapped
  <2> QED  BY <1>1, <2>1
<1> QED  BY <1>1, <1>3

LEMMA InitMaps == Init => Log!Init
<1> SUFFICES ASSUME Init PROVE Log!Init
  OBVIOUS
<1>1. [s \in DOMAIN table |-> table[s].content] = <<>>
  BY DEF Init
<1>2. {<<row.seq, row.content>> : row \in answered} = {}
  BY DEF Init
<1> QED  BY <1>1, <1>2 DEF Log!Init

LEMMA CommitMaps ==
  ASSUME LedgerInv, NEW a \in Appenders, Commit(a)
  PROVE  Log!Add
<1> DEFINE n == LastSeq(table)
<1>1. /\ n \in Nat /\ DOMAIN table = 1..n /\ Len(Mapped) = n
  BY MappedLength DEF LedgerInv, ChainStands
<1>2. /\ pending[a].seq = n + 1
      /\ DOMAIN table' = 1..(n + 1)
      /\ table'[n + 1] = pending[a]
      /\ \A s \in 1..n : table'[s] = table[s]
  BY ChainExtended
<1> HIDE DEF n
<1>3. DOMAIN Mapped' = 1..(n + 1) /\ \A s \in DOMAIN Mapped : Mapped'[s] = Mapped[s]
  BY <1>1, <1>2 DEF Mapped
<1>4. Mapped'[n + 1] = pending[a].content
  BY <1>1, <1>2 DEF Mapped
<1>5. Acked' = Acked \/ Acked' = Acked \cup {<<n + 1, Mapped'[n + 1]>>}
  <2>1. answered' = answered \/ answered' = answered \cup {pending[a]}
    BY DEF Commit, Answered
  <2> QED  BY <1>2, <1>4, <2>1 DEF Acked
<1> QED  BY <1>1, <1>3, <1>5 DEF Log!Add, Mapped, Acked

LEMMA OthersKeep ==
  ASSUME [Next]_vars, \A a \in Appenders : ~Commit(a)
  PROVE  UNCHANGED <<table, answered>>
  BY DEF Next, AppendStep, WalkStep, Call, Begin, Lock, ReadHead, Insert, Fail,
         StartWalk, ReadPrior, ReadPage, RecordFailure, FailWalk, vars

LEMMA NextMaps ==
  LedgerInv /\ [Next]_vars =>
    [Log!Add]_<<[s \in DOMAIN table |-> table[s].content],
               {<<row.seq, row.content>> : row \in answered}>>
<1> SUFFICES ASSUME LedgerInv, [Next]_vars
             PROVE  \/ Log!Add
                    \/ UNCHANGED <<[s \in DOMAIN table |-> table[s].content],
                                   {<<row.seq, row.content>> : row \in answered}>>
  OBVIOUS
<1>1. CASE \E a \in Appenders : Commit(a)
  BY <1>1, CommitMaps
<1>2. CASE \A a \in Appenders : ~Commit(a)
  BY <1>2, OthersKeep
<1> QED  BY <1>1, <1>2

(***************************************************************************)
(* The ledger implements the log that only grows: to its callers an append *)
(* is one step that puts one entry at the end.                             *)
(***************************************************************************)
THEOREM LedgerImplementsLog == Spec => ImplementsLog
  BY InitMaps, NextMaps, NothingAltered, PTL DEF Spec, ImplementsLog, Log!Spec

-----------------------------------------------------------------------------
(***************************************************************************)
(* The verifier.  A walk knows what it has seen: no row that was altered   *)
(* before it began lies between its first row and its cursor, and it       *)
(* expects at the cursor the hash of the row before.  Rows are numbered    *)
(* from 1, and so is what a walk is asked for.                             *)
(***************************************************************************)
RangesBegin == \A range \in Ranges : range[1] > 0

\* What a CHAIN_VERIFICATION_RUN entry claims of a chain of n rows.
RunTrue(run, n) ==
  /\ run.from \in Nat /\ run.end \in Int
  /\ run.checked = run.end - run.from + 1
  /\ run.checked > 0 => run.end <= n

ToAppend == {"begin"} \cup InTransaction

JobSound(a) ==
  pc[a] \in ToAppend => job[a] \in Contents \/ RunTrue(job[a], LastSeq(table))

Walked(w) ==
  /\ w.from \in Nat /\ w.from > 0 /\ w.to \in Nat \cup {None}
  /\ w.known \subseteq damaged
  /\ w.cursor \in Nat /\ w.cursor >= w.from
  /\ w.last = w.cursor - 1 /\ w.checked = w.cursor - w.from
  /\ w.checked > 0 => w.last <= LastSeq(table)
  /\ \A s \in w.known : ~(w.from <= s /\ s < w.cursor)

Linked(w) ==
  /\ ~PastEnd(w.cursor, w.to)
  /\ w.anchored => w.cursor = 1 \/ w.cursor - 1 \in DOMAIN table
  /\ w.anchored /\ w.cursor - 1 \notin damaged => w.expected = PrevHash(w.cursor)

WalkSound(v) ==
  /\ pc[v] = "prior" => Walked(walk[v]) /\ walk[v].cursor = walk[v].from
  /\ pc[v] = "page" => Walked(walk[v]) /\ Linked(walk[v])

VerifierInv ==
  /\ VerifierIsRight
  /\ \A a \in Appenders : JobSound(a)
  /\ \A v \in Verifiers : WalkSound(v)

\* The chain grows, and its rows stay what they are or are altered.
Evolves ==
  /\ LastSeq(table)' \in Nat /\ LastSeq(table) <= LastSeq(table)'
  /\ damaged \subseteq damaged'
  /\ \A s \in DOMAIN table : s \in DOMAIN table' /\ (s \notin damaged' => table'[s] = table[s])

-----------------------------------------------------------------------------
(* What stays true while the chain evolves.                                *)

LEMMA TableStands ==
  ASSUME LedgerInv, UNCHANGED <<table, damaged>> PROVE Evolves
<1>1. LastSeq(table)' = LastSeq(table)
  BY DEF LastSeq
<1> QED  BY <1>1 DEF LedgerInv, Evolves

LEMMA RunStays ==
  ASSUME NEW run, NEW n \in Nat, NEW m \in Nat, n <= m, RunTrue(run, n)
  PROVE  RunTrue(run, m)
  BY DEF RunTrue

LEMMA JobStays ==
  ASSUME LedgerInv, Evolves, NEW a \in Appenders, JobSound(a),
         pc'[a] \in ToAppend => pc[a] \in ToAppend /\ job'[a] = job[a]
  PROVE  JobSound(a)'
<1>1. LastSeq(table) \in Nat /\ LastSeq(table)' \in Nat /\ LastSeq(table) <= LastSeq(table)'
  BY DEF LedgerInv, Evolves
<1> QED  BY <1>1, RunStays DEF JobSound

LEMMA WalkedStays ==
  ASSUME LedgerInv, Evolves, NEW w, Walked(w) PROVE Walked(w)'
<1>1. LastSeq(table) \in Nat /\ LastSeq(table)' \in Nat /\ LastSeq(table) <= LastSeq(table)'
  BY DEF LedgerInv, Evolves
<1>2. w.last \in Int
  BY DEF Walked
<1> QED  BY <1>1, <1>2 DEF Walked, Evolves

LEMMA LinkedStays ==
  ASSUME LedgerInv, Evolves, NEW w, Walked(w), Linked(w) PROVE Linked(w)'
<1>1. w.cursor \in Nat /\ damaged \subseteq damaged'
  BY DEF Walked, Evolves
<1>2. w.anchored => w.cursor = 1 \/ w.cursor - 1 \in DOMAIN table'
  BY DEF Linked, Evolves
<1>3. ASSUME w.anchored, w.cursor - 1 \notin damaged' PROVE w.expected = PrevHash(w.cursor)'
  <2>1. w.expected = PrevHash(w.cursor)
    BY <1>1, <1>3 DEF Linked
  <2>2. CASE w.cursor = 1
    BY <2>1, <2>2 DEF PrevHash
  <2>3. CASE w.cursor # 1
    <3>1. table'[w.cursor - 1] = table[w.cursor - 1]
      BY <1>3, <2>3 DEF Linked, Evolves
    <3> QED  BY <2>1, <2>3, <3>1 DEF PrevHash
  <2> QED  BY <2>2, <2>3
<1> QED  BY <1>2, <1>3 DEF Linked, PastEnd

LEMMA WalkStays ==
  ASSUME LedgerInv, Evolves, NEW v \in Verifiers, WalkSound(v),
         pc'[v] \in {"prior", "page"} => pc'[v] = pc[v] /\ walk'[v] = walk[v]
  PROVE  WalkSound(v)'
<1>1. CASE pc'[v] = "prior"
  <2>1. pc[v] = "prior" /\ Walked(walk[v]) /\ walk'[v] = walk[v]
    BY <1>1 DEF WalkSound
  <2>2. PICK w : w = walk[v]
    OBVIOUS
  <2>3. Walked(w)'
    BY <2>1, <2>2, WalkedStays
  <2> QED  BY <1>1, <2>1, <2>2, <2>3 DEF WalkSound, Walked
<1>2. CASE pc'[v] = "page"
  <2>1. pc[v] = "page" /\ Walked(walk[v]) /\ Linked(walk[v]) /\ walk'[v] = walk[v]
    BY <1>2 DEF WalkSound
  <2>2. PICK w : w = walk[v]
    OBVIOUS
  <2>3. Walked(w)' /\ Linked(w)'
    BY <2>1, <2>2, WalkedStays, LinkedStays
  <2> QED  BY <1>2, <2>1, <2>2, <2>3 DEF WalkSound, Walked, Linked, PrevHash
<1>3. CASE pc'[v] \notin {"prior", "page"}
  BY <1>3 DEF WalkSound
<1> QED  BY <1>1, <1>2, <1>3

\* A row that is new claims what is true, a row that is not claims what it did.
LEMMA RunsStay ==
  ASSUME LedgerInv, Evolves, RunsClaimWhatTheySaw,
         \A s \in DOMAIN table' \ DOMAIN table :
           s \in Nat /\ (IsRun(table'[s]) => RunTrue(table'[s].content, s - 1))
  PROVE  RunsClaimWhatTheySaw'
<1> SUFFICES ASSUME NEW s \in DOMAIN table', s \notin damaged', IsRun(table'[s])
             PROVE  /\ table'[s].content.checked =
                         table'[s].content.end - table'[s].content.from + 1
                    /\ table'[s].content.checked > 0 => table'[s].content.end < s
  BY DEF RunsClaimWhatTheySaw, IsRun
<1>1. CASE s \in DOMAIN table
  BY <1>1 DEF Evolves, RunsClaimWhatTheySaw
<1>2. CASE s \notin DOMAIN table
  BY <1>2 DEF RunTrue
<1> QED  BY <1>1, <1>2

LEMMA VerdictsStay ==
  ASSUME Evolves, IntactMeansUndamaged, AlarmsAreReal, UNCHANGED verdicts
  PROVE  IntactMeansUndamaged' /\ AlarmsAreReal'
<1>1. IntactMeansUndamaged'
  BY DEF IntactMeansUndamaged, Asked, PastEnd
<1>2. AlarmsAreReal'
  BY DEF AlarmsAreReal, Evolves
<1> QED  BY <1>1, <1>2

\* A step of one actor: what it does to itself is all there is to show.
LEMMA ActorStep ==
  ASSUME LedgerInv, VerifierInv, NEW a \in Appenders,
         Evolves, VerifierIsRight', JobSound(a)', a \in Verifiers => WalkSound(a)',
         \A b \in Appenders : b # a => pc'[b] = pc[b] /\ job'[b] = job[b],
         \A v \in Verifiers : v # a => walk'[v] = walk[v]
  PROVE  VerifierInv'
<1>1. \A b \in Appenders : JobSound(b)'
  BY JobStays DEF VerifierInv
<1>2. \A v \in Verifiers : WalkSound(v)'
  BY WalkStays DEF VerifierInv, Appenders
<1> QED  BY <1>1, <1>2 DEF VerifierInv

-----------------------------------------------------------------------------
(* Appends.                                                                *)

LEMMA AppendKeepsTruth ==
  ASSUME LedgerInv, VerifierInv, NEW a \in Appenders,
         Call(a) \/ Begin(a) \/ Lock(a) \/ ReadHead(a) \/ Insert(a) \/ Fail(a)
  PROVE  VerifierInv'
<1>1. UNCHANGED <<table, damaged, verdicts, walk>>
  BY DEF Call, Begin, Lock, ReadHead, Insert, Fail
<1>2. Evolves
  BY <1>1, TableStands
<1>3. VerifierIsRight'
  BY <1>1, <1>2, RunsStay, VerdictsStay DEF VerifierInv, VerifierIsRight
<1>4. /\ pc'[a] \in {"begin", "idle"} \cup InTransaction
      /\ \A b \in Appenders : b # a => pc'[b] = pc[b] /\ job'[b] = job[b]
  BY DEF Call, Begin, Lock, ReadHead, Insert, Fail, AfterError, Goto, txVars, InTransaction,
         LedgerInv, TypeOK
<1>5. JobSound(a)'
  <2>1. CASE Call(a)
    <3>1. job'[a] \in Contents
      BY <2>1 DEF Call, LedgerInv, TypeOK
    <3> QED  BY <3>1 DEF JobSound
  <2>2. CASE ~Call(a)
    <3>1. pc[a] \in ToAppend
      BY <2>2 DEF Begin, Lock, ReadHead, Insert, Fail, ToAppend, InTransaction
    <3>2. pc'[a] \in ToAppend => job'[a] = job[a]
      BY <2>2 DEF Begin, Lock, ReadHead, Insert, Fail, AfterError, Goto, txVars, ToAppend,
                  InTransaction, LedgerInv, TypeOK
    <3> QED  BY <1>2, <3>1, <3>2, JobStays DEF VerifierInv
  <2> QED  BY <2>1, <2>2
<1>6. a \in Verifiers => WalkSound(a)'
  BY <1>4 DEF WalkSound, InTransaction
<1> QED  BY <1>1, <1>2, <1>3, <1>4, <1>5, <1>6, ActorStep

\* An entry of a walk claims rows that stand before it in the chain.
LEMMA CommitKeepsTruth ==
  ASSUME LedgerInv, VerifierInv, NEW a \in Appenders, Commit(a)
  PROVE  VerifierInv'
<1> DEFINE n == LastSeq(table)
<1>1. /\ n \in Nat /\ DOMAIN table = 1..n /\ pc[a] = "commit" /\ pending[a] = NewRow(a)
      /\ UNCHANGED <<damaged, verdicts, walk>>
  BY DEF LedgerInv, ChainStands, HeadIsLast, Commit
<1>2. /\ DOMAIN table' = 1..(n + 1) /\ LastSeq(table)' = n + 1
      /\ table'[n + 1] = pending[a]
      /\ \A s \in 1..n : table'[s] = table[s]
  BY ChainExtended
<1>3. pending[a].content = job[a]
  BY <1>1, NewRowSound DEF LedgerInv, TypeOK
<1>4. job[a] \in Contents \/ RunTrue(job[a], n)
  BY <1>1 DEF VerifierInv, JobSound, ToAppend, InTransaction
<1> HIDE DEF n
<1>5. Evolves
  BY <1>1, <1>2 DEF Evolves, n
<1>6. VerifierIsRight'
  <2>1. ASSUME NEW s \in DOMAIN table' \ DOMAIN table
        PROVE  s \in Nat /\ (IsRun(table'[s]) => RunTrue(table'[s].content, s - 1))
    <3>1. s = n + 1 /\ s - 1 = n
      BY <1>1, <1>2, <2>1
    <3> QED  BY <1>1, <1>2, <1>3, <1>4, <3>1 DEF IsRun
  <2> QED  BY <1>1, <1>5, <2>1, RunsStay, VerdictsStay DEF VerifierInv, VerifierIsRight
<1>7. /\ pc'[a] \in {"begin", "idle"}
      /\ \A b \in Appenders : b # a => pc'[b] = pc[b] /\ job'[b] = job[b]
      /\ pc'[a] \in ToAppend => job'[a] = job[a]
  BY DEF Commit, Answered, AfterError, Goto, ToAppend, InTransaction, LedgerInv, TypeOK
<1>8. JobSound(a)'
  BY <1>1, <1>5, <1>7, JobStays DEF VerifierInv, ToAppend, InTransaction
<1>9. a \in Verifiers => WalkSound(a)'
  BY <1>7 DEF WalkSound
<1> QED  BY <1>1, <1>5, <1>6, <1>7, <1>8, <1>9, ActorStep

LEMMA AlterKeepsTruth ==
  ASSUME LedgerInv, VerifierInv, Alter PROVE VerifierInv'
<1>1. /\ DOMAIN table' = DOMAIN table /\ damaged \subseteq damaged'
      /\ \A s \in DOMAIN table : s \notin damaged' => table'[s] = table[s]
      /\ UNCHANGED <<pc, job, verdicts, walk>>
  BY AlterSound DEF Alter, txVars
<1>2. LastSeq(table)' = LastSeq(table)
  BY <1>1 DEF LastSeq
<1>3. Evolves
  BY <1>1, <1>2 DEF Evolves, LedgerInv
<1>4. VerifierIsRight'
  BY <1>1, <1>3, RunsStay, VerdictsStay DEF VerifierInv, VerifierIsRight
<1>5. \A a \in Appenders : JobSound(a)'
  BY <1>1, <1>3, JobStays DEF VerifierInv
<1>6. \A v \in Verifiers : WalkSound(v)'
  BY <1>1, <1>3, WalkStays DEF VerifierInv
<1> QED  BY <1>4, <1>5, <1>6 DEF VerifierInv

-----------------------------------------------------------------------------
(* Pages.                                                                  *)

Page(c, upper) == {s \in DOMAIN table : c <= s /\ s <= upper}

\* A page of a chain without gaps is an interval from the cursor on.
LEMMA PageIsInterval ==
  ASSUME LedgerInv, NEW c \in Nat, c > 0, NEW upper \in Nat, c <= upper,
         Page(c, upper) # {}
  PROVE  \E l \in Nat :
           /\ Page(c, upper) = c..l /\ c <= l /\ l <= LastSeq(table)
           /\ l <= upper /\ (l = LastSeq(table) \/ l = upper)
           /\ LastOf(Page(c, upper)) = l
           /\ Cardinality(Page(c, upper)) = l - c + 1
<1> DEFINE n == LastSeq(table)
           page == Page(c, upper)
<1>0. n \in Nat /\ page = {s \in 1..n : c <= s /\ s <= upper} /\ page # {}
  BY DEF LedgerInv, ChainStands, Page
<1> HIDE DEF n, page
<1>1. PICK l \in Nat : (l = n /\ n <= upper) \/ (l = upper /\ upper < n)
  BY <1>0
<1>2. page = c..l /\ c <= l /\ l <= n
  BY <1>0, <1>1
<1>3. Cardinality(page) = l - c + 1
  <2>1. Cardinality(c..l) = IF c > l THEN 0 ELSE l - c + 1
    BY FS_Interval
  <2>2. Cardinality(page) = Cardinality(c..l)
    BY <1>2, Zenon
  <2>3. ~(c > l)
    BY <1>2
  <2>4. Cardinality(page) = IF c > l THEN 0 ELSE l - c + 1
    BY <2>1, <2>2, Zenon
  <2> QED  BY <2>3, <2>4
<1>4. LastOf(page) = l
  <2>1. l \in page /\ \A r \in page : r <= l
    BY <1>2
  <2>2. \A s \in page : (\A r \in page : r <= s) => s = l
    BY <1>2, <2>1
  <2> QED  BY <2>1, <2>2 DEF LastOf
<1> QED  BY <1>1, <1>2, <1>3, <1>4 DEF n, page

\* The hash a row of the page must name: of the row before it.
LEMMA ExpectedIsPrev ==
  ASSUME NEW c \in Nat, c > 0, NEW l \in Nat, NEW e, NEW s \in c..l, s # c
  PROVE  Expected(c..l, s, e) = PrevHash(s)
<1> DEFINE before == {r \in c..l : r < s}
<1>1. s - 1 \in before /\ \A q \in before : q <= s - 1
  OBVIOUS
<1>2. \A r \in before : (\A q \in before : q <= r) => r = s - 1
  BY <1>1
<1>3. (CHOOSE r \in before : \A q \in before : q <= r) = s - 1
  BY <1>1, <1>2
<1>4. Expected(c..l, s, e) = table[CHOOSE r \in before : \A q \in before : q <= r].hash
  BY <1>1 DEF Expected
<1>5. s # 1
  OBVIOUS
<1> QED  BY <1>3, <1>4, <1>5 DEF PrevHash

(***************************************************************************)
(* An altered row on the page is found, and what is found is an altered    *)
(* row or the one behind it.                                               *)
(***************************************************************************)
LEMMA BrokenIsAltered ==
  ASSUME LedgerInv, NEW c \in Nat, c > 0, NEW l \in Nat, l <= LastSeq(table), NEW e,
         NEW s \in c..l
  PROVE  /\ s \in damaged => s \in BrokenOn(c..l, e)
         /\ /\ s \in BrokenOn(c..l, e)
            /\ c - 1 \notin damaged => e = PrevHash(c)
            => s \in damaged \/ s - 1 \in damaged
<1>1. s \in DOMAIN table
  BY DEF LedgerInv, ChainStands
<1>2. s \in damaged => s \in BrokenOn(c..l, e)
  BY <1>1 DEF LedgerInv, ChainStands, BrokenOn
<1>3. ASSUME s \notin damaged, s - 1 \notin damaged, c - 1 \notin damaged => e = PrevHash(c)
      PROVE  s \notin BrokenOn(c..l, e)
  <2>1. SelfConsistent(table[s]) /\ table[s].prev = PrevHash(s)
    BY <1>1, <1>3 DEF LedgerInv, ChainStands
  <2>2. Expected(c..l, s, e) = PrevHash(s)
    <3>1. CASE s = c
      <4>1. {r \in c..l : r < s} = {}
        BY <3>1
      <4>2. Expected(c..l, s, e) = e
        BY <4>1 DEF Expected
      <4> QED  BY <1>3, <3>1, <4>2
    <3>2. CASE s # c
      BY <3>2, ExpectedIsPrev
    <3> QED  BY <3>1, <3>2
  <2> QED  BY <2>1, <2>2 DEF BrokenOn
<1> QED  BY <1>2, <1>3

LEMMA FirstIsThere ==
  ASSUME NEW T, T \subseteq Nat, T # {} PROVE FirstOf(T) \in T
<1> DEFINE R == OpToRel(<, Nat)
<1>1. IsWellFoundedOn(R, Nat)
  BY NatLessThanWellFounded
<1>2. \A y, x \in Nat : y < x => <<y, x>> \in R
  BY DEF OpToRel
<1> HIDE DEF R
<1>3. PICK x \in T : \A y \in T : ~ (<<y, x>> \in R)
  BY <1>1, WFMin, Zenon
<1>4. \A y \in T : x <= y
  <2> SUFFICES ASSUME NEW y \in T, y < x PROVE FALSE
    OBVIOUS
  <2>1. <<y, x>> \in R
    BY <1>2
  <2> QED  BY <1>3, <2>1
<1> QED  BY <1>4 DEF FirstOf

-----------------------------------------------------------------------------
(* Walks.                                                                  *)

LEMMA WalkedClaims ==
  ASSUME NEW w, Walked(w) PROVE RunTrue(RunContent(w), LastSeq(table))
  BY DEF Walked, RunTrue, RunContent

\* A walk ends whose range holds no row that was altered before it began.
LEMMA ConcludeKeepsTruth ==
  ASSUME LedgerInv, VerifierInv, NEW v \in Verifiers, NEW w, Conclude(v, w),
         UNCHANGED <<table, damaged>>,
         RunTrue(RunContent(w), LastSeq(table)),
         \A s \in w.known : w.from <= s => PastEnd(s, w.to)
  PROVE  VerifierInv'
<1>1. v \in Appenders /\ Evolves
  BY TableStands DEF Appenders
<1>2. /\ pc'[v] = "begin" /\ job'[v] = RunContent(w)
      /\ \A b \in Appenders : b # v => pc'[b] = pc[b] /\ job'[b] = job[b]
      /\ \A u \in Verifiers : u # v => walk'[u] = walk[u]
  BY <1>1 DEF Conclude, Goto, LedgerInv, TypeOK
<1>3. VerifierIsRight'
  <2>1. RunsClaimWhatTheySaw'
    BY <1>1, RunsStay DEF VerifierInv, VerifierIsRight
  <2>2. verdicts' = verdicts \cup {Verdict(w, None)}
    BY DEF Conclude
  <2>3. IntactMeansUndamaged'
    BY <2>2 DEF IntactMeansUndamaged, Verdict, Asked, PastEnd, VerifierInv, VerifierIsRight
  <2>4. AlarmsAreReal'
    BY <2>2 DEF AlarmsAreReal, Verdict, VerifierInv, VerifierIsRight
  <2> QED  BY <2>1, <2>3, <2>4 DEF VerifierIsRight
<1>4. JobSound(v)'
  <2>1. RunTrue(job'[v], LastSeq(table)')
    <3>1. LastSeq(table)' = LastSeq(table)
      BY DEF LastSeq
    <3> QED  BY <1>2, <3>1
  <2> QED  BY <2>1 DEF JobSound, RunTrue
<1>5. WalkSound(v)'
  BY <1>2 DEF WalkSound
<1> QED  BY <1>1, <1>2, <1>3, <1>4, <1>5, ActorStep

\* A walk goes on, or it ends without having concluded.
LEMMA GoOnKeepsTruth ==
  ASSUME LedgerInv, VerifierInv, NEW v \in Verifiers, NEW w,
         UNCHANGED <<table, damaged, job>>, walk' = [walk EXCEPT ![v] = w],
         NEW label \in {"prior", "page", "alarm", "idle"}, Goto(v, label),
         label \in {"prior", "page"} => Walked(w),
         label = "prior" => w.cursor = w.from,
         label = "page" => Linked(w),
         IntactMeansUndamaged', AlarmsAreReal'
  PROVE  VerifierInv'
<1>1. v \in Appenders /\ Evolves
  BY TableStands DEF Appenders
<1>2. /\ pc'[v] = label /\ walk'[v] = w
      /\ \A b \in Appenders : b # v => pc'[b] = pc[b] /\ job'[b] = job[b]
      /\ \A u \in Verifiers : u # v => walk'[u] = walk[u]
  BY <1>1 DEF Goto, LedgerInv, TypeOK
<1>3. VerifierIsRight'
  BY <1>1, RunsStay DEF VerifierInv, VerifierIsRight
<1>4. JobSound(v)'
  BY <1>2 DEF JobSound, ToAppend, InTransaction
<1>5. WalkSound(v)'
  <2>1. label \in {"prior", "page"} => Walked(w)'
    BY <1>1, WalkedStays
  <2>2. label = "page" => Linked(w)'
    BY <1>1, LinkedStays
  <2> QED  BY <1>2, <2>1, <2>2 DEF WalkSound, Walked, Linked, PrevHash, PastEnd
<1> QED  BY <1>1, <1>2, <1>3, <1>4, <1>5, ActorStep

\* A cursor beyond the range leaves nothing of it unread.
LEMMA PastEndIsDone ==
  ASSUME LedgerInv, NEW w, Walked(w), PastEnd(w.cursor, w.to)
  PROVE  \A s \in w.known : w.from <= s => PastEnd(s, w.to)
<1>1. \A s \in w.known : s \in Nat
  BY DEF Walked, LedgerInv, ChainStands
<1>2. w.to \in Nat
  BY DEF Walked, PastEnd
<1> QED  BY <1>1, <1>2 DEF Walked, PastEnd

LEMMA StartWalkKeepsTruth ==
  ASSUME LedgerInv, VerifierInv, RangesBegin, NEW v \in Verifiers, StartWalk(v)
  PROVE  VerifierInv'
<1>1. PICK range, w :
        /\ range \in Ranges
        /\ w = [from |-> range[1], to |-> range[2], cursor |-> range[1],
                expected |-> Genesis, last |-> range[1] - 1, checked |-> 0,
                anchored |-> TRUE, known |-> damaged]
        /\ \/ /\ range[1] > 1 /\ walk' = [walk EXCEPT ![v] = w] /\ Goto(v, "prior")
              /\ UNCHANGED <<verdicts, job>>
           \/ PastEnd(w.cursor, w.to) /\ Conclude(v, w)
           \/ /\ ~(range[1] > 1) /\ ~PastEnd(w.cursor, w.to)
              /\ walk' = [walk EXCEPT ![v] = w] /\ Goto(v, "page")
              /\ UNCHANGED <<verdicts, job>>
  BY DEF StartWalk
<1>2. UNCHANGED <<table, damaged>>
  BY DEF StartWalk
<1>3. range[1] \in Nat /\ range[1] > 0 /\ range[2] \in Nat \cup {None}
  BY <1>1, LedgerAssumption DEF RangesBegin
<1>4. Walked(w) /\ w.cursor = w.from
  <2>1. \A s \in damaged : s \in Nat
    BY DEF LedgerInv, ChainStands
  <2> QED  BY <1>1, <1>3, <2>1 DEF Walked
<1>5. UNCHANGED verdicts => IntactMeansUndamaged' /\ AlarmsAreReal'
  BY <1>2, TableStands, VerdictsStay DEF VerifierInv, VerifierIsRight
<1>6. CASE PastEnd(w.cursor, w.to) /\ Conclude(v, w)
  BY <1>2, <1>4, <1>6, PastEndIsDone, WalkedClaims, ConcludeKeepsTruth
<1>7. CASE walk' = [walk EXCEPT ![v] = w] /\ Goto(v, "prior") /\ UNCHANGED <<verdicts, job>>
  BY <1>2, <1>4, <1>5, <1>7, GoOnKeepsTruth
<1>8. CASE /\ ~(range[1] > 1) /\ ~PastEnd(w.cursor, w.to)
           /\ walk' = [walk EXCEPT ![v] = w] /\ Goto(v, "page") /\ UNCHANGED <<verdicts, job>>
  <2>1. Linked(w)
    BY <1>1, <1>3, <1>8 DEF Linked, PrevHash
  <2> QED  BY <1>2, <1>4, <1>5, <1>8, <2>1, GoOnKeepsTruth
<1> QED  BY <1>1, <1>6, <1>7, <1>8

LEMMA ReadPriorKeepsTruth ==
  ASSUME LedgerInv, VerifierInv, NEW v \in Verifiers, ReadPrior(v)
  PROVE  VerifierInv'
<1> DEFINE before == walk[v].from - 1
<1>1. PICK w :
        /\ w = [walk[v] EXCEPT !.expected = IF before \in DOMAIN table THEN table[before].hash
                                            ELSE Genesis,
                               !.anchored = before \in DOMAIN table]
        /\ \/ PastEnd(w.cursor, w.to) /\ Conclude(v, w)
           \/ /\ ~PastEnd(w.cursor, w.to)
              /\ walk' = [walk EXCEPT ![v] = w] /\ Goto(v, "page")
              /\ UNCHANGED <<verdicts, job>>
  BY DEF ReadPrior
<1>2. UNCHANGED <<table, damaged>>
  BY DEF ReadPrior
<1>3. Walked(walk[v]) /\ walk[v].cursor = walk[v].from /\ WalkType(walk[v])
  BY DEF ReadPrior, VerifierInv, WalkSound, LedgerInv, TypeOK
<1>4. /\ Walked(w) /\ w.cursor = w.from
      /\ w.from = walk[v].from /\ w.anchored = (before \in DOMAIN table)
      /\ before \in DOMAIN table => w.expected = table[before].hash
  BY <1>1, <1>3 DEF Walked, WalkType
<1>5. UNCHANGED verdicts => IntactMeansUndamaged' /\ AlarmsAreReal'
  BY <1>2, TableStands, VerdictsStay DEF VerifierInv, VerifierIsRight
<1>6. CASE PastEnd(w.cursor, w.to) /\ Conclude(v, w)
  BY <1>2, <1>4, <1>6, PastEndIsDone, WalkedClaims, ConcludeKeepsTruth
<1>7. CASE /\ ~PastEnd(w.cursor, w.to)
           /\ walk' = [walk EXCEPT ![v] = w] /\ Goto(v, "page") /\ UNCHANGED <<verdicts, job>>
  <2>1. before \in DOMAIN table => w.cursor # 1
    BY <1>4 DEF LedgerInv, ChainStands
  <2>2. Linked(w)
    BY <1>4, <1>7, <2>1 DEF Linked, PrevHash
  <2> QED  BY <1>2, <1>4, <1>5, <1>7, <2>2, GoOnKeepsTruth
<1> QED  BY <1>1, <1>6, <1>7

LEMMA UpperIsThere ==
  ASSUME NEW w, Walked(w), ~PastEnd(w.cursor, w.to)
  PROVE  /\ UpperBound(w) \in Nat /\ w.cursor <= UpperBound(w)
         /\ w.to # None => w.to \in Nat /\ UpperBound(w) <= w.to
  BY LedgerAssumption DEF Walked, PastEnd, UpperBound

PageOf(w) == Page(w.cursor, UpperBound(w))

Seen(w) ==
  [w EXCEPT !.last = LastChecked(w, PageOf(w)),
            !.checked = @ + Cardinality(PageOf(w)),
            !.expected = Carry(w, PageOf(w)),
            !.cursor = UpperBound(w) + 1]

IsShort(w) == Cardinality(PageOf(w)) < UpperBound(w) - w.cursor + 1

\* A page without a break holds no row that was altered.
LEMMA SeenIsWalked ==
  ASSUME LedgerInv, NEW w, WalkType(w), Walked(w), ~PastEnd(w.cursor, w.to),
         PageOf(w) # {}, BrokenOn(PageOf(w), w.expected) = {}
  PROVE  /\ RunTrue(RunContent(Seen(w)), LastSeq(table))
         /\ IsShort(w) \/ PastEnd(UpperBound(w) + 1, w.to)
            => \A s \in Seen(w).known : Seen(w).from <= s => PastEnd(s, Seen(w).to)
         /\ ~IsShort(w) => Walked(Seen(w))
         /\ ~IsShort(w) /\ ~PastEnd(UpperBound(w) + 1, w.to) => Linked(Seen(w))
<1> DEFINE upper == UpperBound(w)
           page == PageOf(w)
           seen == Seen(w)
<1>0. /\ upper = UpperBound(w) /\ page = Page(w.cursor, upper) /\ page # {}
      /\ BrokenOn(page, w.expected) = {}
      /\ seen = [w EXCEPT !.last = LastChecked(w, page),
                          !.checked = @ + Cardinality(page),
                          !.expected = Carry(w, page),
                          !.cursor = upper + 1]
      /\ IsShort(w) <=> Cardinality(page) < upper - w.cursor + 1
  BY DEF PageOf, Seen, IsShort
<1> HIDE DEF upper, page, seen
<1> DEFINE n == LastSeq(table)
<1>1. /\ n \in Nat /\ DOMAIN table = 1..n /\ w.cursor \in Nat /\ w.cursor > 0
      /\ w.from \in Nat /\ w.from > 0 /\ w.from <= w.cursor
      /\ upper \in Nat /\ w.cursor <= upper
      /\ w.to # None => w.to \in Nat /\ upper <= w.to
  BY <1>0, UpperIsThere DEF LedgerInv, ChainStands, Walked
<1>2. PICK l \in Nat :
        /\ page = w.cursor..l /\ w.cursor <= l /\ l <= n
        /\ l <= upper /\ (l = n \/ l = upper)
        /\ LastOf(page) = l
        /\ Cardinality(page) = l - w.cursor + 1
  BY <1>0, <1>1, PageIsInterval
<1>3. /\ seen.last = l /\ seen.checked = w.checked + Cardinality(page)
      /\ seen.expected = table[l].hash /\ seen.cursor = upper + 1
      /\ seen.from = w.from /\ seen.to = w.to /\ seen.known = w.known
  BY <1>0, <1>2 DEF WalkType, LastChecked, Carry
<1>4. seen.checked = l - w.from + 1
  BY <1>1, <1>2, <1>3 DEF Walked
<1>5. \A s \in w.known : s \in 1..n /\ ~(w.from <= s /\ s <= l)
  <2> SUFFICES ASSUME NEW s \in w.known PROVE s \in 1..n /\ ~(w.from <= s /\ s <= l)
    OBVIOUS
  <2>1. s \in 1..n /\ s \in damaged /\ ~(w.from <= s /\ s < w.cursor)
    BY <1>1 DEF Walked, LedgerInv, ChainStands
  <2>2. s \notin page
    BY <1>0, <1>1, <1>2, <2>1, BrokenIsAltered
  <2> QED  BY <1>1, <1>2, <2>1, <2>2
<1> HIDE DEF n
<1>6. RunTrue(RunContent(seen), n)
  BY <1>1, <1>2, <1>3, <1>4 DEF RunTrue, RunContent
<1>7. ASSUME IsShort(w) \/ PastEnd(upper + 1, w.to),
             NEW s \in w.known, w.from <= s
      PROVE  PastEnd(s, w.to)
  <2>1. s \in Nat /\ l < s /\ s <= n
    BY <1>1, <1>2, <1>5, <1>7
  <2>2. l = upper
    BY <1>2, <2>1
  <2>3. PastEnd(upper + 1, w.to)
    BY <1>0, <1>1, <1>2, <1>7, <2>2
  <2> QED  BY <1>1, <2>1, <2>2, <2>3 DEF PastEnd
<1>8. ASSUME ~IsShort(w)
      PROVE  Walked(seen) /\ l = upper
  <2>1. l = upper
    BY <1>0, <1>1, <1>2, <1>8
  <2>2. \A s \in w.known : ~(w.from <= s /\ s < upper + 1)
    BY <1>1, <1>5, <2>1
  <2>3. /\ seen.from \in Nat /\ seen.from > 0 /\ seen.to \in Nat \cup {None}
        /\ seen.known \subseteq damaged
    BY <1>3 DEF Walked
  <2>4. /\ seen.cursor \in Nat /\ seen.cursor >= seen.from
        /\ seen.last = seen.cursor - 1 /\ seen.checked = seen.cursor - seen.from
        /\ seen.last <= LastSeq(table)
    BY <1>1, <1>2, <1>3, <1>4, <2>1 DEF n
  <2>5. \A s \in seen.known : ~(seen.from <= s /\ s < seen.cursor)
    BY <1>3, <2>2
  <2> QED  BY <2>1, <2>3, <2>4, <2>5 DEF Walked
<1>9. ASSUME ~IsShort(w), ~PastEnd(upper + 1, w.to)
      PROVE  Linked(seen)
  <2>1. l = upper
    BY <1>8, <1>9
  <2> QED  BY <1>1, <1>2, <1>3, <1>9, <2>1 DEF Linked, PrevHash
<1> QED  BY <1>3, <1>6, <1>7, <1>8, <1>9 DEF n, upper, seen

\* A page with a break: the walk names a row that was altered or the one behind it.
LEMMA AlarmIsReal ==
  ASSUME LedgerInv, NEW w, Walked(w), Linked(w),
         NEW broken, broken = BrokenOn(PageOf(w), w.expected), broken # {}
  PROVE  /\ FirstOf(broken) \in Nat
         /\ w.anchored => {FirstOf(broken), FirstOf(broken) - 1} \cap damaged # {}
<1> DEFINE upper == UpperBound(w)
           page == PageOf(w)
<1>1. /\ LastSeq(table) \in Nat /\ DOMAIN table = 1..LastSeq(table)
      /\ w.cursor \in Nat /\ w.cursor > 0
      /\ upper \in Nat /\ w.cursor <= upper
  BY UpperIsThere DEF LedgerInv, ChainStands, Walked, Linked
<1>2. broken \subseteq page /\ page \subseteq Nat
  BY <1>1 DEF BrokenOn, Page, PageOf
<1>3. PICK l \in Nat : page = w.cursor..l /\ l <= LastSeq(table)
  BY <1>1, <1>2, PageIsInterval DEF PageOf
<1>4. PICK f : f = FirstOf(broken)
  OBVIOUS
<1>5. f \in broken /\ f \in w.cursor..l
  BY <1>2, <1>3, <1>4, FirstIsThere
<1>6. w.anchored => f \in damaged \/ f - 1 \in damaged
  BY <1>1, <1>3, <1>5, BrokenIsAltered DEF Linked
<1> QED  BY <1>1, <1>4, <1>5, <1>6

LEMMA ReadPageKeepsTruth ==
  ASSUME LedgerInv, VerifierInv, NEW v \in Verifiers, ReadPage(v)
  PROVE  VerifierInv'
<1>1. PICK w : w = walk[v]
  OBVIOUS
<1>2. PICK broken : broken = BrokenOn(PageOf(w), w.expected)
  OBVIOUS
<1>3. \/ PageOf(w) = {} /\ Conclude(v, w)
      \/ /\ broken # {}
         /\ walk' = [walk EXCEPT ![v] = [w EXCEPT !.last = FirstOf(broken)]]
         /\ verdicts' = verdicts \cup {Verdict(walk'[v], FirstOf(broken))}
         /\ Goto(v, "alarm")
         /\ UNCHANGED job
      \/ /\ PageOf(w) # {} /\ broken = {}
         /\ IsShort(w) \/ PastEnd(UpperBound(w) + 1, w.to)
         /\ Conclude(v, Seen(w))
      \/ /\ PageOf(w) # {} /\ broken = {}
         /\ ~IsShort(w) /\ ~PastEnd(UpperBound(w) + 1, w.to)
         /\ walk' = [walk EXCEPT ![v] = Seen(w)] /\ UNCHANGED <<pc, verdicts, job>>
  BY <1>1, <1>2, Zenon DEF ReadPage, Page, PageOf, Seen, IsShort
<1>4. /\ UNCHANGED <<table, damaged>> /\ pc[v] = "page"
      /\ Walked(w) /\ Linked(w) /\ WalkType(w) /\ ~PastEnd(w.cursor, w.to)
  BY <1>1 DEF ReadPage, VerifierInv, WalkSound, LedgerInv, TypeOK, Linked
<1>5. UNCHANGED verdicts => IntactMeansUndamaged' /\ AlarmsAreReal'
  BY <1>4, TableStands, VerdictsStay DEF VerifierInv, VerifierIsRight
<1>6. CASE PageOf(w) = {} /\ Conclude(v, w)
  <2>1. ASSUME NEW s \in w.known, w.from <= s PROVE FALSE
    <3>1. s \in DOMAIN table /\ s \in Nat /\ w.cursor <= s /\ s <= LastSeq(table)
      BY <1>4, <2>1 DEF Walked, LedgerInv, ChainStands
    <3>2. w.cursor \in DOMAIN table
      BY <1>4, <3>1 DEF Walked, LedgerInv, ChainStands
    <3>3. w.cursor \in PageOf(w)
      BY <1>4, <3>2, UpperIsThere DEF Walked, PageOf, Page
    <3> QED  BY <1>6, <3>3
  <2> QED  BY <1>4, <1>6, <2>1, WalkedClaims, ConcludeKeepsTruth
<1>7. CASE /\ broken # {}
           /\ walk' = [walk EXCEPT ![v] = [w EXCEPT !.last = FirstOf(broken)]]
           /\ verdicts' = verdicts \cup {Verdict(walk'[v], FirstOf(broken))}
           /\ Goto(v, "alarm")
           /\ UNCHANGED job
  <2>1. PICK f, u : f = FirstOf(broken) /\ u = [w EXCEPT !.last = f]
    OBVIOUS
  <2>2. f \in Nat /\ (w.anchored => {f, f - 1} \cap damaged # {})
    BY <1>2, <1>4, <1>7, <2>1, AlarmIsReal
  <2>3. walk' = [walk EXCEPT ![v] = u] /\ walk'[v] = u /\ u.anchored = w.anchored
    BY <1>4, <1>7, <2>1 DEF LedgerInv, TypeOK, WalkType
  <2>4. verdicts' = verdicts \cup {Verdict(u, f)} /\ f # None
    BY <1>7, <2>1, <2>2, <2>3, LedgerAssumption
  <2>5. IntactMeansUndamaged'
    BY <2>4 DEF IntactMeansUndamaged, Verdict, Asked, PastEnd, VerifierInv, VerifierIsRight
  <2>6. AlarmsAreReal'
    BY <1>4, <2>2, <2>3, <2>4 DEF AlarmsAreReal, Verdict, VerifierInv, VerifierIsRight
  <2> QED  BY <1>4, <1>7, <2>3, <2>5, <2>6, GoOnKeepsTruth
<1>8. CASE /\ PageOf(w) # {} /\ broken = {}
           /\ IsShort(w) \/ PastEnd(UpperBound(w) + 1, w.to)
           /\ Conclude(v, Seen(w))
  <2>1. /\ RunTrue(RunContent(Seen(w)), LastSeq(table))
        /\ \A s \in Seen(w).known : Seen(w).from <= s => PastEnd(s, Seen(w).to)
    BY <1>2, <1>4, <1>8, SeenIsWalked
  <2> QED  BY <1>4, <1>8, <2>1, ConcludeKeepsTruth
<1>9. CASE /\ PageOf(w) # {} /\ broken = {}
           /\ ~IsShort(w) /\ ~PastEnd(UpperBound(w) + 1, w.to)
           /\ walk' = [walk EXCEPT ![v] = Seen(w)] /\ UNCHANGED <<pc, verdicts, job>>
  <2>1. Walked(Seen(w)) /\ Linked(Seen(w))
    BY <1>2, <1>4, <1>9, SeenIsWalked
  <2>2. Goto(v, "page")
    BY <1>4, <1>9 DEF Goto, LedgerInv, TypeOK
  <2> QED  BY <1>4, <1>5, <1>9, <2>1, <2>2, GoOnKeepsTruth
<1> QED  BY <1>3, <1>6, <1>7, <1>8, <1>9

LEMMA EndKeepsTruth ==
  ASSUME LedgerInv, VerifierInv, NEW v \in Verifiers, RecordFailure(v) \/ FailWalk(v)
  PROVE  VerifierInv'
<1>1. /\ UNCHANGED <<table, damaged, job, verdicts>> /\ Goto(v, "idle")
      /\ walk' = [walk EXCEPT ![v] = None]
  BY DEF RecordFailure, FailWalk, txVars
<1>2. IntactMeansUndamaged' /\ AlarmsAreReal'
  BY <1>1, TableStands, VerdictsStay DEF VerifierInv, VerifierIsRight
<1> QED  BY <1>1, <1>2, GoOnKeepsTruth

-----------------------------------------------------------------------------
(* The theorem.                                                            *)

LEMMA VerifierInit == Init => VerifierInv
<1> SUFFICES ASSUME Init PROVE VerifierInv
  OBVIOUS
<1>1. VerifierIsRight
  BY DEF Init, VerifierIsRight, RunsClaimWhatTheySaw, IntactMeansUndamaged, AlarmsAreReal
<1>2. \A a \in Appenders : pc[a] = "idle"
  BY DEF Init
<1>3. \A a \in Appenders : JobSound(a)
  BY <1>2 DEF JobSound, ToAppend, InTransaction
<1>4. \A v \in Verifiers : WalkSound(v)
  BY <1>2 DEF WalkSound, Appenders
<1> QED  BY <1>1, <1>3, <1>4 DEF VerifierInv

LEMMA IdleKeepsTruth ==
  ASSUME LedgerInv, VerifierInv, UNCHANGED vars PROVE VerifierInv'
<1>1. UNCHANGED <<table, damaged, verdicts, walk, pc, job>>
  BY DEF vars, txVars
<1>2. Evolves
  BY <1>1, TableStands
<1>3. VerifierIsRight'
  BY <1>1, <1>2, RunsStay, VerdictsStay DEF VerifierInv, VerifierIsRight
<1>4. \A a \in Appenders : JobSound(a)'
  BY <1>1, <1>2, JobStays DEF VerifierInv
<1>5. \A v \in Verifiers : WalkSound(v)'
  BY <1>1, <1>2, WalkStays DEF VerifierInv
<1> QED  BY <1>3, <1>4, <1>5 DEF VerifierInv

LEMMA NextKeepsTruth ==
  ASSUME RangesBegin
  PROVE  LedgerInv /\ VerifierInv /\ [Next \/ Alter]_vars => VerifierInv'
<1> SUFFICES ASSUME LedgerInv, VerifierInv, [Next \/ Alter]_vars PROVE VerifierInv'
  OBVIOUS
<1>1. ASSUME NEW a \in Appenders, AppendStep(a) PROVE VerifierInv'
  BY <1>1, AppendKeepsTruth, CommitKeepsTruth DEF AppendStep
<1>2. ASSUME NEW v \in Verifiers, WalkStep(v) PROVE VerifierInv'
  BY <1>2, StartWalkKeepsTruth, ReadPriorKeepsTruth, ReadPageKeepsTruth, EndKeepsTruth
     DEF WalkStep
<1> QED  BY <1>1, <1>2, AlterKeepsTruth, IdleKeepsTruth DEF Next

(***************************************************************************)
(* Over a store that alters rows behind the program's back, however many   *)
(* entries are appended between the pages of a walk: an entry about a walk *)
(* claims only rows that precede it, "intact" is not said of a range with  *)
(* a row altered before the walk began, and an alarm names an altered row  *)
(* or the one behind it.  The numbers that a walk is asked for begin at 1, *)
(* as those of the entries do.                                             *)
(***************************************************************************)
THEOREM VerifierAlwaysRight == ASSUME RangesBegin PROVE AlteredSpec => []VerifierIsRight
<1>1. AlteredSpec => []VerifierInv
  BY VerifierInit, NextKeepsTruth, LedgerInvAlways, PTL DEF AlteredSpec
<1>2. VerifierInv => VerifierIsRight
  BY DEF VerifierInv
<1> QED  BY <1>1, <1>2, PTL

=============================================================================
