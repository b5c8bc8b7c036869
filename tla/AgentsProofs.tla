---------------------------- MODULE AgentsProofs ----------------------------
(***************************************************************************)
(* Theorems about the agents on either side of the workflow.  The          *)
(* regulatory watch answers each listing and each entry it saw exactly     *)
(* once, whatever fails and whatever changes meanwhile; and the SLA and    *)
(* evidence entries of the ledger are what the tasks and the graph make    *)
(* true; and the routing of a proposal does not trust what failed or is in *)
(* doubt.  For any pages and listings, tasks, deadlines, uploads, clauses, *)
(* drafts and assessments, and any bounds.                                 *)
(***************************************************************************)
EXTENDS RegulatoryWatch, SlaMonitor, ObligationPipeline, WellFoundedInduction, NaturalsInduction, FiniteSetTheorems, TLAPS

\* A bounded set of numbers has a greatest one.
LEMMA MaxOfNumbers ==
  ASSUME NEW n \in Nat, NEW S, S \subseteq 0..n, S # {}
  PROVE  Max(S) \in S /\ \A i \in S : Max(S) >= i
<1> DEFINE U == {k \in 0..n : \A i \in S : i <= k}
<1>1. n \in U
  OBVIOUS
<1>2. PICK m \in U : \A k \in U : m <= k
  <2> DEFINE Less == {p \in Nat \X Nat : p[1] < p[2]}
  <2>1. IsWellFoundedOn(Less, Nat)
    BY NatLessThanWellFounded DEF OpToRel
  <2>2. U \subseteq Nat /\ U # {}
    BY <1>1
  <2> HIDE DEF Less
  <2>3. \E m \in U : \A k \in U : <<k, m>> \notin Less
    BY <2>1, <2>2, WFMin
  <2>4. ASSUME NEW k \in U, NEW m \in U, <<k, m>> \notin Less PROVE m <= k
    BY <2>2, <2>4 DEF Less
  <2> QED  BY <2>3, <2>4
<1>3. m \in S
  <2>1. SUFFICES ASSUME m \notin S PROVE FALSE
    OBVIOUS
  <2>2. \A i \in S : i <= m - 1
    BY <1>2, <2>1
  <2>3. PICK i \in S : TRUE
    OBVIOUS
  <2>4. m - 1 \in U
    BY <1>2, <2>2, <2>3
  <2> QED  BY <1>2, <2>4
<1> QED  BY <1>2, <1>3 DEF Max

-----------------------------------------------------------------------------
(***************************************************************************)
(* The regulatory watch: the inductive invariant, for each cycle.          *)
(***************************************************************************)
Over == {"true", "false"}

\* The entries of the listing at hand that have no answer yet.
Outstanding(p, q) ==
  /\ p.at = "batch" /\ q[1] = p.url /\ q[2] > p.base
  /\ q[2] - p.base \in DOMAIN p.work => p.work[q[2] - p.base].at \notin Over

Answered(c) == Emitted(c) \cup {q \in Errors(c) : q[2] # 0} \cup poll[c].unchanged

Delivered(p) == {k \in DOMAIN p.work : p.work[k].at = "true"}

LastOfBatch(p) == IF p.base + detailFetchConcurrency < Len(p.rows) THEN p.base + detailFetchConcurrency ELSE Len(p.rows)

\* Where a cycle is.
Progress(c) ==
  LET p == poll[c]
  IN /\ p.at = "none" => p = NoPoll
     /\ p.at # "batch" => p.work = <<>>
     /\ p.at = "listing" => p.base = 0
     /\ p.at = "end" => p.url \notin UrlIds
     /\ p.at = "batch" =>
          /\ p.url \in UrlIds /\ p.base < Len(p.rows) /\ DOMAIN p.work = 1..(LastOfBatch(p) - p.base)
          /\ \A i \in 1..Len(p.rows) : <<p.url, i>> \in p.seen
     /\ \A q \in p.seen :
          /\ q[2] # 0
          /\ q[1] < p.url \/ (q[1] = p.url /\ p.at = "batch" /\ q[2] <= Len(p.rows))

\* What a cycle has seen is answered, unless it is still to be worked on.
EntriesHaveOneAnswer(c) ==
  LET p == poll[c]
  IN /\ Answered(c) \subseteq p.seen
     /\ \A q \in p.seen : q \in Answered(c) <=> ~Outstanding(p, q)
     /\ p.unchanged \cap (Emitted(c) \cup Errors(c)) = {}

CountIsTrue(c) ==
  /\ IsFiniteSet(Emitted(c))
  /\ poll[c].triggersEmitted + Cardinality(Delivered(poll[c])) = Cardinality(Emitted(c) \ Errors(c))

ListingsAreAnswered(c) ==
  /\ poll[c].emptied \subseteq Errors(c)
  /\ changes = 0 => \A u \in UrlIds :
       /\ u < poll[c].url \/ (u = poll[c].url /\ poll[c].at = "batch")
       /\ site[u] # <<>>
       => \E q \in Errors(c) \cup poll[c].seen : q[1] = u

\* What the graph held when a cycle began it still holds, and an entry gets past
\* the look at the graph only when it was not there.
KnownStaysKnown(c) ==
  /\ poll[c].known \subseteq ingested
  /\ \A k \in DOMAIN poll[c].work :
       poll[c].work[k].at \in {"fuzzy", "context", "emit"} => poll[c].work[k].page \notin poll[c].known

CycleInv(c) ==
  /\ Progress(c)
  /\ EntriesHaveOneAnswer(c)
  /\ CountIsTrue(c)
  /\ ListingsAreAnswered(c)
  /\ KnownStaysKnown(c)

WatchInv == WatchTypeOK /\ KnownIsNotNews /\ \A c \in Cycles : CycleInv(c)

-----------------------------------------------------------------------------
LEMMA PlacesAreNumbered ==
  /\ Len(Listings) \in Nat /\ UrlIds = 1..Len(Listings)
  /\ \A q \in Places : q[1] \in UrlIds /\ q[1] \in Nat /\ q[2] \in Nat /\ q = <<q[1], q[2]>>
<1>1. Len(Listings) \in Nat /\ UrlIds = 1..Len(Listings)
  BY WatchAssumption DEF UrlIds
<1> QED  BY <1>1 DEF Places

LEMMA SeqOfRange == ASSUME NEW S, NEW n \in Nat, NEW f \in [1..n -> S] PROVE f \in Seq(S) /\ DOMAIN f = 1..n /\ Len(f) = n
  OBVIOUS

LEMMA MostAlike ==
  ASSUME NEW S, S # {}, NEW L \in [S -> 0..100]
  PROVE  \E q \in S : \A r \in S : L[q] >= L[r]
<1> DEFINE values == {L[q] : q \in S}
<1>1. values \subseteq 0..100 /\ values # {}
  OBVIOUS
<1>2. \E m \in values : \A i \in values : m >= i
  BY <1>1, MaxOfNumbers
<1> QED  BY <1>2

LEMMA BestIsCandidate ==
  ASSUME live \subseteq Pages, NEW page \in Pages, Candidates(page) # {}
  PROVE  Best(page, Candidates(page)) \in Pages
<1> DEFINE S == Candidates(page)
           L == [q \in S |-> TitleLikeness(page, q)]
<1>1. S \subseteq Pages
  BY DEF Candidates
<1>2. L \in [S -> 0..100]
  BY <1>1, WatchAssumption
<1>3. \E q \in S : \A r \in S : L[q] >= L[r]
  BY <1>2, MostAlike
<1>4. \E q \in S : \A r \in S : TitleLikeness(page, q) >= TitleLikeness(page, r)
  BY <1>3
<1>5. (CHOOSE q \in S : \A r \in S : TitleLikeness(page, q) >= TitleLikeness(page, r)) \in S
  BY <1>4
<1> QED  BY <1>1, <1>5 DEF Best

LEMMA TargetIsCandidate ==
  ASSUME live \subseteq Pages, NEW page \in Pages
  PROVE  Target(page, Candidates(page)) \in Pages \cup {None}
<1> DEFINE S == {q \in Candidates(page) : PhraseLikeness(page, q) >= AMENDMENT_TARGET_SIMILARITY_THRESHOLD}
           L == [q \in S |-> PhraseLikeness(page, q)]
<1>1. S \subseteq Pages
  BY DEF Candidates
<1>2. CASE S # {}
  <2>1. L \in [S -> 0..100]
    BY <1>1, WatchAssumption
  <2>2. \E q \in S : \A r \in S : L[q] >= L[r]
    BY <1>2, <2>1, MostAlike
  <2>3. \E q \in S : \A r \in S : PhraseLikeness(page, q) >= PhraseLikeness(page, r)
    BY <2>2
  <2>4. (CHOOSE q \in S : \A r \in S : PhraseLikeness(page, q) >= PhraseLikeness(page, r)) \in S
    BY <2>3
  <2> QED  BY <1>1, <2>4 DEF Target
<1> QED  BY <1>2 DEF Target

LEMMA WorkChanged ==
  ASSUME NEW s \in Seq(Work), NEW k \in DOMAIN s, NEW w \in Work
  PROVE  /\ [s EXCEPT ![k] = w] \in Seq(Work)
         /\ DOMAIN [s EXCEPT ![k] = w] = DOMAIN s
  OBVIOUS

\* What a cycle whose own state stays as it is keeps.
LEMMA CycleStays ==
  ASSUME WatchInv, NEW d \in Cycles, poll'[d] = poll[d], triggers \subseteq triggers', \A e \in triggers' \ triggers : e.cycle # d,
         \/ UNCHANGED <<site, changes>>
         \/ changes' # 0,
         ingested \subseteq ingested'
  PROVE  CycleInv(d)'
<1>1. Emitted(d)' = Emitted(d) /\ Errors(d)' = Errors(d) /\ Answered(d)' = Answered(d)
  BY DEF Emitted, Errors, Answered
<1>3. Progress(d)'
  BY DEF WatchInv, CycleInv, Progress, LastOfBatch
<1>4. EntriesHaveOneAnswer(d)'
  BY <1>1 DEF WatchInv, CycleInv, EntriesHaveOneAnswer, Outstanding
<1>5. CountIsTrue(d)'
  BY <1>1 DEF WatchInv, CycleInv, CountIsTrue, Delivered
<1>6. ListingsAreAnswered(d)'
  BY <1>1 DEF WatchInv, CycleInv, ListingsAreAnswered
<1>7. KnownStaysKnown(d)'
  BY DEF WatchInv, CycleInv, KnownStaysKnown
<1> QED  BY <1>3, <1>4, <1>5, <1>6, <1>7 DEF CycleInv

LEMMA WatchInitInv == WatchInit => WatchInv
<1> SUFFICES ASSUME WatchInit PROVE WatchInv
  OBVIOUS
<1>1. NoPoll \in Poll
  <2>1. 1 \in 1..(Len(Listings) + 1) /\ 0 \in 0..maxRetries
    BY WatchAssumption
  <2> QED  BY <2>1 DEF NoPoll, Poll
<1>2. WatchTypeOK
  <2>1. site \in [UrlIds -> Seq(Pages)]
    BY WatchAssumption DEF WatchInit, UrlIds
  <2>2. poll \in [Cycles -> Poll] /\ rowCountHistory \in [UrlIds -> Nat] /\ triggers \subseteq RegulatoryWatchTriggerEvent
    BY <1>1 DEF WatchInit
  <2>3. failures \in 0..MaxFailures /\ changes \in 0..MaxChanges
    BY WatchAssumption DEF WatchInit
  <2>4. ingested \subseteq Pages /\ live \subseteq ingested /\ pollInProgress \in BOOLEAN /\ \A u \in UrlIds : site[u] \in Listings[u]
    BY DEF WatchInit
  <2> QED  BY <2>1, <2>2, <2>3, <2>4 DEF WatchTypeOK
<1>3. KnownIsNotNews
  BY DEF WatchInit, KnownIsNotNews
<1>4. ASSUME NEW c \in Cycles PROVE CycleInv(c)
  <2>1. poll[c] = NoPoll /\ triggers = {}
    BY DEF WatchInit
  <2>2. Emitted(c) = {} /\ Errors(c) = {} /\ Answered(c) = {} /\ Delivered(poll[c]) = {} /\ NoPoll.at = "none"
        /\ NoPoll.seen = {} /\ NoPoll.triggersEmitted = 0 /\ NoPoll.work = <<>>
    BY <2>1 DEF Emitted, Errors, Answered, Delivered, NoPoll
  <2>3. Progress(c)
    BY <2>1 DEF Progress, NoPoll
  <2>4. EntriesHaveOneAnswer(c)
    BY <2>1, <2>2 DEF EntriesHaveOneAnswer, NoPoll
  <2>5. CountIsTrue(c)
    BY <2>1, <2>2, FS_EmptySet DEF CountIsTrue
  <2>6. ListingsAreAnswered(c)
    BY <2>1, <2>2, WatchAssumption DEF ListingsAreAnswered, NoPoll, UrlIds
  <2>7. KnownStaysKnown(c)
    BY <2>1 DEF KnownStaysKnown, NoPoll
  <2> QED  BY <2>3, <2>4, <2>5, <2>6, <2>7 DEF CycleInv
<1> QED  BY <1>2, <1>3, <1>4 DEF WatchInv

-----------------------------------------------------------------------------
(***************************************************************************)
(* The world, and a cycle from listing to listing.                         *)
(***************************************************************************)
LEMMA WorldKeeps ==
  ASSUME WatchInv,
         \/ \E u \in UrlIds : \E rows \in Listings[u] : EditListing(u, rows)
         \/ \E e \in triggers : Ingest(e)
  PROVE  WatchInv'
<1>1. /\ UNCHANGED <<pollInProgress, poll, rowCountHistory, triggers, failures>>
      /\ changes' = changes + 1 /\ changes < MaxChanges /\ changes' \in 0..MaxChanges /\ changes' # 0
  BY WatchAssumption DEF EditListing, Ingest, WatchInv, WatchTypeOK
<1>2. site' \in [UrlIds -> Seq(Pages)] /\ \A u \in UrlIds : site'[u] \in Listings[u]
  <2>1. ASSUME NEW u \in UrlIds, NEW rows \in Listings[u], EditListing(u, rows)
        PROVE  site' \in [UrlIds -> Seq(Pages)] /\ \A v \in UrlIds : site'[v] \in Listings[v]
    <3>1. rows \in Seq(Pages)
      BY WatchAssumption DEF UrlIds
    <3> QED  BY <2>1, <3>1 DEF EditListing, WatchInv, WatchTypeOK
  <2>2. ASSUME NEW e \in triggers, Ingest(e) PROVE site' = site
    BY <2>2 DEF Ingest
  <2> QED  BY <2>1, <2>2 DEF WatchInv, WatchTypeOK
<1>3. ingested' \subseteq Pages /\ live' \subseteq ingested' /\ ingested \subseteq ingested'
  BY DEF EditListing, Ingest, WatchInv, WatchTypeOK, RegulatoryWatchTriggerEvent
<1>4. WatchTypeOK'
  BY <1>1, <1>2, <1>3 DEF WatchInv, WatchTypeOK
<1>5. KnownIsNotNews'
  BY <1>1 DEF WatchInv, KnownIsNotNews
<1>6. ASSUME NEW c \in Cycles PROVE CycleInv(c)'
  BY <1>1, <1>3, CycleStays
<1> QED  BY <1>4, <1>5, <1>6 DEF WatchInv

\* A step of one cycle.
LEMMA CycleMoves ==
  ASSUME WatchInv, NEW c \in Cycles, NEW p \in Poll, Set(c, p), UNCHANGED <<site, ingested, live, changes>>,
         pollInProgress' \in BOOLEAN, rowCountHistory' \in [UrlIds -> Nat], failures' \in 0..MaxFailures,
         triggers' \subseteq RegulatoryWatchTriggerEvent, triggers \subseteq triggers',
         \A e \in triggers' \ triggers : e.cycle = c /\ e.page \notin p.known,
         p.known = poll[c].known \/ (\A e \in triggers' : e.cycle # c),
         CycleInv(c)'
  PROVE  WatchInv'
<1>1. poll' \in [Cycles -> Poll] /\ poll'[c] = p /\ \A d \in Cycles \ {c} : poll'[d] = poll[d]
  BY DEF Set, WatchInv, WatchTypeOK
<1>2. WatchTypeOK'
  BY <1>1 DEF WatchInv, WatchTypeOK
<1>3. KnownIsNotNews'
  <2>1. SUFFICES ASSUME NEW e \in triggers', e.page \in poll'[e.cycle].known
                 PROVE  FALSE
    BY DEF KnownIsNotNews
  <2>2. e.cycle \in Cycles
    BY DEF RegulatoryWatchTriggerEvent
  <2>3. CASE e \in triggers
    BY <1>1, <2>1, <2>2, <2>3 DEF WatchInv, KnownIsNotNews
  <2>4. CASE e \notin triggers
    BY <1>1, <2>1, <2>4
  <2> QED  BY <2>3, <2>4
<1>4. ASSUME NEW d \in Cycles \ {c} PROVE CycleInv(d)'
  BY <1>1, CycleStays
<1> QED  BY <1>2, <1>3, <1>4 DEF WatchInv

LEMMA StartCycleKeeps == ASSUME WatchInv, NEW c \in Cycles, StartCycle(c) PROVE WatchInv'
<1>1. /\ poll[c] = NoPoll /\ poll[c].at = "none" /\ NoPoll \in Poll /\ Progress(c)
      /\ UNCHANGED <<site, ingested, live, rowCountHistory, triggers, failures, changes>>
  BY DEF StartCycle, WatchInv, CycleInv, Progress, WatchTypeOK
<1>2. /\ Emitted(c) = {} /\ Errors(c) = {} /\ Answered(c) = {} /\ Delivered(poll[c]) = {}
  BY <1>1, SMTT(30) DEF WatchInv, CycleInv, EntriesHaveOneAnswer, Answered, Emitted, Errors, NoPoll, Delivered
<1>3. PICK p \in Poll :
        /\ Set(c, p) /\ p.at \in {"skipped", "listing"} /\ pollInProgress' \in BOOLEAN
        /\ p.url = 1 /\ p.base = 0 /\ p.seen = {} /\ p.unchanged = {} /\ p.errors = {} /\ p.emptied = {} /\ p.triggersEmitted = 0
        /\ p.work = <<>> /\ p.known \subseteq ingested
  <2>1. CASE pollInProgress
    <3> DEFINE p == [NoPoll EXCEPT !.at = "skipped", !.alerts = {"concurrent_run_skipped"}]
    <3>1. Set(c, p) /\ pollInProgress' = pollInProgress
      BY <1>1, <2>1 DEF StartCycle, Set, WatchInv, WatchTypeOK
    <3>2. /\ p \in Poll /\ p.at = "skipped" /\ p.url = 1 /\ p.base = 0 /\ p.seen = {} /\ p.unchanged = {} /\ p.errors = {}
          /\ p.emptied = {} /\ p.triggersEmitted = 0 /\ p.work = <<>> /\ p.known \subseteq ingested
      <4>1. {"concurrent_run_skipped"} \subseteq AlertKinds
        BY DEF AlertKinds
      <4> QED  BY <1>1, <4>1 DEF NoPoll, Poll
    <3> HIDE DEF p
    <3> QED  BY <3>1, <3>2 DEF WatchInv, WatchTypeOK
  <2>2. CASE ~pollInProgress
    <3> DEFINE p == [NoPoll EXCEPT !.at = "listing", !.known = ingested]
    <3>1. Set(c, p) /\ pollInProgress' = TRUE
      BY <1>1, <2>2 DEF StartCycle, Set, WatchInv, WatchTypeOK
    <3>2. /\ p \in Poll /\ p.at = "listing" /\ p.url = 1 /\ p.base = 0 /\ p.seen = {} /\ p.unchanged = {} /\ p.errors = {}
          /\ p.emptied = {} /\ p.triggersEmitted = 0 /\ p.work = <<>> /\ p.known = ingested
      BY <1>1 DEF NoPoll, Poll, WatchInv, WatchTypeOK
    <3> HIDE DEF p
    <3> QED  BY <3>1, <3>2
  <2> QED  BY <2>1, <2>2
<1>4. poll'[c] = p
  BY <1>3 DEF Set, WatchInv, WatchTypeOK
<1>5. Emitted(c)' = {} /\ Errors(c)' = {} /\ Answered(c)' = {} /\ Delivered(p) = {}
  BY <1>1, <1>2, <1>3, <1>4, SMTT(30) DEF Emitted, Errors, Answered, Delivered
<1>6. Progress(c)'
  BY <1>3, <1>4 DEF Progress
<1>7. EntriesHaveOneAnswer(c)'
  BY <1>3, <1>4, <1>5 DEF EntriesHaveOneAnswer
<1>8. CountIsTrue(c)'
  BY <1>3, <1>4, <1>5, FS_EmptySet DEF CountIsTrue
<1>9. ListingsAreAnswered(c)'
  BY <1>3, <1>4, <1>5, WatchAssumption DEF ListingsAreAnswered, UrlIds
<1>10. KnownStaysKnown(c)'
  BY <1>1, <1>3, <1>4 DEF KnownStaysKnown
<1>11. \A e \in triggers : e.cycle # c
  BY <1>2 DEF Emitted
<1> HIDE DEF NoPoll
<1> QED  BY <1>1, <1>3, <1>6, <1>7, <1>8, <1>9, <1>10, <1>11, CycleMoves DEF CycleInv, WatchInv, WatchTypeOK

LEMMA BelowNext == ASSUME NEW m \in Nat, NEW n \in Nat, m < n + 1 PROVE m < n \/ m = n
  OBVIOUS

\* The cycle leaves a listing of which every entry is answered.
LEMMA ListingDone ==
  ASSUME WatchInv, NEW c \in Cycles, NEW p \in Poll, Set(c, p), UNCHANGED <<site, ingested, live, triggers, changes>>,
         pollInProgress' \in BOOLEAN, rowCountHistory' \in [UrlIds -> Nat], failures' \in 0..MaxFailures,
         poll[c].url \in UrlIds, \A q \in poll[c].seen : ~Outstanding(poll[c], q),
         p.at = "listing", p.url = poll[c].url + 1, p.base = 0, p.work = <<>>, p.seen = poll[c].seen, p.unchanged = poll[c].unchanged,
         p.known = poll[c].known, p.triggersEmitted = poll[c].triggersEmitted + Cardinality(Delivered(poll[c])),
         poll[c].errors \subseteq p.errors, \A e \in p.errors \ poll[c].errors : e.place = <<poll[c].url, 0>>,
         \A q \in p.emptied \ poll[c].emptied : \E e \in p.errors : e.place = q,
         changes = 0 /\ site[poll[c].url] # <<>> => \E q \in {e.place : e \in p.errors} \cup p.seen : q[1] = poll[c].url
  PROVE  WatchInv'
<1>1. poll'[c] = p /\ poll[c] \in Poll
  BY DEF Set, WatchInv, WatchTypeOK
<1>2. /\ Emitted(c)' = Emitted(c) /\ Errors(c) \subseteq Errors(c)' /\ Errors(c)' = {e.place : e \in p.errors}
      /\ \A q \in Errors(c)' \ Errors(c) : q = <<poll[c].url, 0>>
  BY <1>1 DEF Emitted, Errors
<1>3. \A q \in poll[c].seen \cup Emitted(c) : q[2] # 0
  BY DEF WatchInv, CycleInv, Progress, EntriesHaveOneAnswer, Answered
<1>4. Answered(c)' = Answered(c) /\ Emitted(c) \ Errors(c)' = Emitted(c) \ Errors(c)
  BY <1>1, <1>2, <1>3 DEF Answered
<1>5. Progress(c)'
  <2>1. poll[c].url \in Nat /\ \A q \in poll[c].seen : q[1] \in Nat
    <3>1. poll[c].url \in Nat
      BY PlacesAreNumbered
    <3>2. poll[c].seen \subseteq Places
      BY <1>1 DEF Poll
    <3> QED  BY <3>1, <3>2, PlacesAreNumbered
  <2>2. \A q \in poll[c].seen : q[2] # 0 /\ (q[1] < poll[c].url \/ q[1] = poll[c].url)
    BY DEF WatchInv, CycleInv, Progress
  <2>3. \A q \in p.seen : q[2] # 0 /\ q[1] < p.url
    BY <2>1, <2>2
  <2> QED  BY <1>1, <2>3 DEF Progress
<1>6. EntriesHaveOneAnswer(c)'
  <2>1. \A q \in p.seen : q \in Answered(c)' /\ ~Outstanding(p, q)
    BY <1>4 DEF WatchInv, CycleInv, EntriesHaveOneAnswer, Outstanding
  <2>2. p.unchanged \cap (Emitted(c)' \cup Errors(c)') = {}
    BY <1>2, <1>3 DEF WatchInv, CycleInv, EntriesHaveOneAnswer, Answered
  <2> QED  BY <1>1, <1>4, <2>1, <2>2 DEF WatchInv, CycleInv, EntriesHaveOneAnswer
<1>7. CountIsTrue(c)'
  <2>1. Delivered(p) = {}
    BY DEF Delivered
  <2>2. Cardinality(Delivered(p)) = 0 /\ p.triggersEmitted \in Nat
    BY <2>1, FS_EmptySet DEF Poll
  <2>3. Emitted(c)' \ Errors(c)' = Emitted(c) \ Errors(c)
    BY <1>2, <1>4
  <2>4. p.triggersEmitted + Cardinality(Delivered(p)) = Cardinality(Emitted(c) \ Errors(c)) /\ IsFiniteSet(Emitted(c))
    <3>1. CountIsTrue(c)
      BY DEF WatchInv, CycleInv
    <3>2. p.triggersEmitted = Cardinality(Emitted(c) \ Errors(c)) /\ IsFiniteSet(Emitted(c))
      BY <3>1 DEF CountIsTrue
    <3> QED  BY <2>2, <3>2
  <2> QED  BY <1>1, <1>2, <2>3, <2>4 DEF CountIsTrue
<1>8. ListingsAreAnswered(c)'
  <2>1. p.emptied \subseteq Errors(c)'
    BY <1>2 DEF WatchInv, CycleInv, ListingsAreAnswered
  <2>2. ASSUME changes = 0, NEW u \in UrlIds, u < p.url, site[u] # <<>> PROVE \E q \in Errors(c)' \cup p.seen : q[1] = u
    <3>1. u \in Nat /\ poll[c].url \in Nat
      BY <2>2, PlacesAreNumbered
    <3>2. u < poll[c].url + 1
      BY <2>2
    <3>3. u < poll[c].url \/ u = poll[c].url
      BY <3>1, <3>2, BelowNext
    <3> QED  BY <1>2, <2>2, <3>3 DEF WatchInv, CycleInv, ListingsAreAnswered
  <2>3. p.url \notin Nat \/ p.url \in Nat
    OBVIOUS
  <2> QED  BY <1>1, <2>1, <2>2 DEF ListingsAreAnswered
<1>9. KnownStaysKnown(c)'
  BY <1>1 DEF WatchInv, CycleInv, KnownStaysKnown
<1> QED  BY <1>5, <1>6, <1>7, <1>8, <1>9, CycleMoves DEF CycleInv, WatchInv, WatchTypeOK

\* The cycle takes up a batch of a listing, of which the entries up to its base
\* are answered.
LEMMA BatchStarts ==
  ASSUME WatchInv, NEW c \in Cycles, NEW p \in Poll, Set(c, p), UNCHANGED <<site, ingested, live, triggers, changes, failures>>,
         pollInProgress' \in BOOLEAN, rowCountHistory' \in [UrlIds -> Nat],
         p.at = "batch", p.url = poll[c].url, p.url \in UrlIds, p.base < Len(p.rows),
         DOMAIN p.work = 1..(LastOfBatch(p) - p.base), \A k \in DOMAIN p.work : p.work[k].at = "fetch",
         \A i \in 1..Len(p.rows) : <<p.url, i>> \in p.seen,
         poll[c].seen \subseteq p.seen, \A q \in p.seen \ poll[c].seen : q[1] = p.url /\ q[2] # 0,
         \A q \in p.seen : q[1] = p.url => q[2] <= Len(p.rows),
         \A q \in p.seen : q \in Answered(c) <=> ~(q[1] = p.url /\ q[2] > p.base),
         p.unchanged = poll[c].unchanged, p.errors = poll[c].errors, p.emptied = poll[c].emptied, p.known = poll[c].known,
         p.triggersEmitted = poll[c].triggersEmitted + Cardinality(Delivered(poll[c]))
  PROVE  WatchInv'
<1>1. poll'[c] = p /\ poll[c] \in Poll
  BY DEF Set, WatchInv, WatchTypeOK
<1>2. Emitted(c)' = Emitted(c) /\ Errors(c)' = Errors(c) /\ Answered(c)' = Answered(c)
  BY <1>1 DEF Emitted, Errors, Answered
<1>3. \A q \in p.seen : Outstanding(p, q) <=> q[1] = p.url /\ q[2] > p.base
  BY DEF Outstanding, Over
<1>4. Progress(c)'
  <2>1. \A q \in p.seen : q[2] # 0 /\ (q[1] < p.url \/ q[1] = p.url)
    BY DEF WatchInv, CycleInv, Progress
  <2> QED  BY <1>1, <2>1 DEF Progress, LastOfBatch
<1>5. EntriesHaveOneAnswer(c)'
  BY <1>1, <1>2, <1>3 DEF WatchInv, CycleInv, EntriesHaveOneAnswer
<1>6. CountIsTrue(c)'
  <2>1. Delivered(p) = {}
    BY DEF Delivered
  <2>2. Cardinality(Delivered(p)) = 0 /\ p.triggersEmitted \in Nat
    BY <2>1, FS_EmptySet DEF Poll
  <2>3. p.triggersEmitted + Cardinality(Delivered(p)) = Cardinality(Emitted(c) \ Errors(c)) /\ IsFiniteSet(Emitted(c))
    <3>1. CountIsTrue(c)
      BY DEF WatchInv, CycleInv
    <3>2. p.triggersEmitted = Cardinality(Emitted(c) \ Errors(c)) /\ IsFiniteSet(Emitted(c))
      BY <3>1 DEF CountIsTrue
    <3> QED  BY <2>2, <3>2
  <2> QED  BY <1>1, <1>2, <2>3 DEF CountIsTrue
<1>7. ListingsAreAnswered(c)'
  <2>1. <<p.url, 1>> \in p.seen
    BY SMTT(30) DEF Poll
  <2>2. \A u \in UrlIds : u < p.url /\ changes = 0 /\ site[u] # <<>> => \E q \in Errors(c) \cup p.seen : q[1] = u
    BY DEF WatchInv, CycleInv, ListingsAreAnswered
  <2>3. p.emptied \subseteq Errors(c)
    BY DEF WatchInv, CycleInv, ListingsAreAnswered
  <2> QED  BY <1>1, <1>2, <2>1, <2>2, <2>3 DEF ListingsAreAnswered
<1>8. KnownStaysKnown(c)'
  BY <1>1 DEF WatchInv, CycleInv, KnownStaysKnown
<1> QED  BY <1>4, <1>5, <1>6, <1>7, <1>8, CycleMoves DEF CycleInv, WatchInv, WatchTypeOK

\* NextUrl and StartBatch, field by field.
LEMMA NextUrlFields ==
  ASSUME NEW p \in Poll, p.url \in UrlIds
  PROVE  LET n == NextUrl(p)
         IN /\ n \in Poll /\ n.at = "listing" /\ n.url = p.url + 1 /\ n.base = 0 /\ n.work = <<>>
            /\ n.seen = p.seen /\ n.unchanged = p.unchanged /\ n.errors = p.errors /\ n.emptied = p.emptied
            /\ n.known = p.known /\ n.triggersEmitted = p.triggersEmitted
<1>1. p.url + 1 \in 1..(Len(Listings) + 1) /\ 0 \in 0..maxRetries /\ 0 \in Nat /\ <<>> \in Seq(Pages) /\ <<>> \in Seq(Work)
  BY WatchAssumption DEF UrlIds
<1> QED  BY <1>1 DEF NextUrl, Poll

LEMMA StartBatchFields ==
  ASSUME NEW p \in Poll, p.url \in UrlIds
  PROVE  LET n == StartBatch(p)
         IN /\ n \in Poll
            /\ n.seen = p.seen /\ n.unchanged = p.unchanged /\ n.errors = p.errors /\ n.emptied = p.emptied
            /\ n.known = p.known /\ n.triggersEmitted = p.triggersEmitted
            /\ \/ p.base >= Len(p.rows) /\ n.at = "listing" /\ n.url = p.url + 1 /\ n.base = 0 /\ n.work = <<>>
               \/ /\ p.base < Len(p.rows) /\ n.at = "batch" /\ n.url = p.url /\ n.base = p.base /\ n.rows = p.rows
                  /\ DOMAIN n.work = 1..(LastOfBatch(p) - p.base) /\ \A k \in DOMAIN n.work : n.work[k].at = "fetch"
<1> DEFINE n == StartBatch(p)
<1>1. CASE p.base >= Len(p.rows)
  BY <1>1, NextUrlFields DEF StartBatch
<1>2. CASE p.base < Len(p.rows)
  <2> DEFINE work == [k \in 1..(LastOfBatch(p) - p.base) |-> [NoWork EXCEPT !.at = "fetch", !.page = p.rows[p.base + k]]]
  <2>1. p.base \in Nat /\ Len(p.rows) \in Nat /\ p.rows \in Seq(Pages)
    BY DEF Poll
  <2>2. LastOfBatch(p) \in Nat /\ LastOfBatch(p) - p.base \in Nat /\ LastOfBatch(p) <= Len(p.rows)
    BY <1>2, <2>1, WatchAssumption DEF LastOfBatch
  <2>3. ASSUME NEW k \in 1..(LastOfBatch(p) - p.base) PROVE work[k] \in Work /\ work[k].at = "fetch"
    <3>1. p.rows[p.base + k] \in Pages
      BY <2>1, <2>2, <2>3
    <3>2. 0 \in 0..maxRetries
      BY WatchAssumption
    <3> QED  BY <3>1, <3>2 DEF Work, NoWork
  <2>4. work \in Seq(Work) /\ DOMAIN work = 1..(LastOfBatch(p) - p.base)
    <3>1. work \in [1..(LastOfBatch(p) - p.base) -> Work]
      BY <2>3
    <3> HIDE DEF work
    <3> QED  BY <2>2, <3>1, SeqOfRange, SMTT(30)
  <2>5. n = [p EXCEPT !.at = "batch", !.work = work]
    BY <1>2, <2>1 DEF StartBatch, LastOfBatch
  <2>6. \A k \in DOMAIN work : work[k].at = "fetch"
    BY <2>3, <2>4
  <2> HIDE DEF work, n
  <2>7. /\ n \in Poll /\ n.at = "batch" /\ n.work = work /\ n.url = p.url /\ n.base = p.base /\ n.rows = p.rows
        /\ n.seen = p.seen /\ n.unchanged = p.unchanged /\ n.errors = p.errors /\ n.emptied = p.emptied
        /\ n.known = p.known /\ n.triggersEmitted = p.triggersEmitted
    BY <2>4, <2>5 DEF Poll
  <2> QED  BY <1>2, <2>4, <2>6, <2>7 DEF n
<1>3. p.base \in Nat /\ Len(p.rows) \in Nat
  BY DEF Poll
<1> QED  BY <1>1, <1>2, <1>3

\* An error of the listing at hand.
LEMMA ListingErrorFields ==
  ASSUME NEW p \in Poll, p.url \in UrlIds, NEW kind \in AlertKinds
  PROVE  LET n == ListingError(p, kind)
         IN /\ n \in Poll /\ n.at = "listing" /\ n.url = p.url + 1 /\ n.base = 0 /\ n.work = <<>>
            /\ n.seen = p.seen /\ n.unchanged = p.unchanged /\ n.emptied = p.emptied
            /\ n.errors = p.errors \cup {[stage |-> "listing_fetch", place |-> <<p.url, 0>>]}
            /\ n.known = p.known /\ n.triggersEmitted = p.triggersEmitted
<1> DEFINE e == [stage |-> "listing_fetch", place |-> <<p.url, 0>>]
           m == [p EXCEPT !.errors = @ \cup {e}, !.alerts = @ \cup {kind}]
<1>1. e \in PollError
  BY DEF PollError, Stages, Places
<1> HIDE DEF e
<1>2. /\ m \in Poll /\ m.url = p.url /\ m.errors = p.errors \cup {e}
      /\ m.seen = p.seen /\ m.unchanged = p.unchanged /\ m.emptied = p.emptied
      /\ m.known = p.known /\ m.triggersEmitted = p.triggersEmitted
  BY <1>1 DEF Poll
<1>3. ListingError(p, kind) = NextUrl(m)
  BY DEF ListingError, Continue, e
<1> HIDE DEF m
<1> QED  BY <1>2, <1>3, NextUrlFields DEF e

\* A cycle that is at a listing has nothing to wait for.
LEMMA AtListing ==
  ASSUME WatchInv, NEW c \in Cycles, poll[c].at = "listing"
  PROVE  /\ poll[c] \in Poll /\ Delivered(poll[c]) = {} /\ Cardinality(Delivered(poll[c])) = 0
         /\ \A q : ~Outstanding(poll[c], q)
         /\ \A q \in poll[c].seen : q[1] < poll[c].url
         /\ poll[c].triggersEmitted \in Nat
<1>1. poll[c] \in Poll
  BY DEF WatchInv, WatchTypeOK
<1>2. Delivered(poll[c]) = {}
  BY DEF WatchInv, CycleInv, Progress, Delivered
<1>3. Cardinality(Delivered(poll[c])) = 0
  BY <1>2, FS_EmptySet
<1>4. \A q \in poll[c].seen : q[1] < poll[c].url
  BY DEF WatchInv, CycleInv, Progress
<1>5. poll[c].triggersEmitted \in Nat
  BY <1>1 DEF Poll
<1> QED  BY <1>1, <1>2, <1>3, <1>4, <1>5 DEF Outstanding

LEMMA FetchListingKeeps == ASSUME WatchInv, NEW c \in Cycles, FetchListing(c) PROVE WatchInv'
<1> DEFINE p == poll[c]
           rows == site[p.url]
<1>1. /\ p \in Poll /\ p.at = "listing" /\ p.url \in UrlIds /\ Cardinality(Delivered(p)) = 0
      /\ (\A q : ~Outstanding(p, q)) /\ \A q \in p.seen : q[1] < p.url
      /\ p.triggersEmitted \in Nat /\ p.triggersEmitted + 0 = p.triggersEmitted
      /\ UNCHANGED <<site, ingested, live, pollInProgress, triggers, failures, changes>> /\ rows \in Seq(Pages)
      /\ failures' \in 0..MaxFailures /\ pollInProgress' \in BOOLEAN
  BY AtListing DEF FetchListing, WatchInv, WatchTypeOK
<1>2. rowCountHistory' \in [UrlIds -> Nat]
  <2>1. Len(rows) \in Nat /\ rowCountHistory \in [UrlIds -> Nat]
    BY <1>1 DEF WatchInv, WatchTypeOK
  <2>2. rowCountHistory' = rowCountHistory \/ rowCountHistory' = [rowCountHistory EXCEPT ![p.url] = Len(rows)]
    BY DEF FetchListing
  <2> HIDE DEF rows
  <2> QED  BY <2>1, <2>2
<1>3. CASE rows = <<>> /\ rowCountHistory[p.url] >= 1
  <2> DEFINE m == ListingError(p, "selector_mismatch")
             n == [m EXCEPT !.emptied = @ \cup {<<p.url, 0>>}]
  <2>1. /\ m \in Poll /\ m.at = "listing" /\ m.url = p.url + 1 /\ m.base = 0 /\ m.work = <<>>
        /\ m.seen = p.seen /\ m.unchanged = p.unchanged /\ m.emptied = p.emptied
        /\ m.errors = p.errors \cup {[stage |-> "listing_fetch", place |-> <<p.url, 0>>]}
        /\ m.known = p.known /\ m.triggersEmitted = p.triggersEmitted
    BY <1>1, ListingErrorFields DEF AlertKinds
  <2>2. Set(c, n)
    BY <1>3 DEF FetchListing
  <2> HIDE DEF m
  <2>3. <<p.url, 0>> \in Places
    BY <1>1 DEF Places
  <2>4. /\ n \in Poll /\ n.at = "listing" /\ n.url = p.url + 1 /\ n.base = 0 /\ n.work = <<>>
        /\ n.seen = p.seen /\ n.unchanged = p.unchanged /\ n.emptied = p.emptied \cup {<<p.url, 0>>}
        /\ n.errors = p.errors \cup {[stage |-> "listing_fetch", place |-> <<p.url, 0>>]}
        /\ n.known = p.known /\ n.triggersEmitted = p.triggersEmitted
    BY <2>1, <2>3 DEF Poll
  <2> HIDE DEF n
  <2>5. \A e \in n.errors \ p.errors : e.place = <<p.url, 0>>
    BY <2>4
  <2>6. \A q \in n.emptied \ p.emptied : \E e \in n.errors : e.place = q
    <3> DEFINE e == [stage |-> "listing_fetch", place |-> <<p.url, 0>>]
    <3>1. e \in n.errors /\ e.place = <<p.url, 0>>
      BY <2>4
    <3> HIDE DEF e
    <3> QED  BY <2>4, <3>1
  <2> QED  BY <1>1, <1>2, <1>3, <2>2, <2>4, <2>5, <2>6, ListingDone
<1>4. CASE ~(rows = <<>> /\ rowCountHistory[p.url] >= 1)
  <2> DEFINE fresh == {<<p.url, i>> : i \in DOMAIN rows}
             m == [p EXCEPT !.rows = rows, !.seen = @ \cup fresh]
             n == StartBatch(m)
  <2>1. fresh \subseteq Places /\ \A q \in fresh : q[1] = p.url /\ q[2] \in 1..Len(rows)
    BY <1>1 DEF Places
  <2>2. Set(c, n)
    BY <1>4 DEF FetchListing
  <2>3. /\ p.base = 0
        /\ \A i \in 1..Len(rows) : <<p.url, i>> \in fresh
    BY <1>1 DEF WatchInv, CycleInv, Progress
  <2> HIDE DEF fresh
  <2>4. /\ m \in Poll /\ m.url = p.url /\ m.rows = rows /\ m.seen = p.seen \cup fresh /\ m.base = 0
        /\ m.unchanged = p.unchanged /\ m.errors = p.errors /\ m.emptied = p.emptied
        /\ m.known = p.known /\ m.triggersEmitted = p.triggersEmitted
    BY <1>1, <2>1, <2>3 DEF Poll
  <2> HIDE DEF m
  <2>5. /\ n \in Poll
        /\ n.seen = p.seen \cup fresh /\ n.unchanged = p.unchanged /\ n.errors = p.errors /\ n.emptied = p.emptied
        /\ n.known = p.known /\ n.triggersEmitted = p.triggersEmitted
        /\ \/ 0 >= Len(rows) /\ n.at = "listing" /\ n.url = p.url + 1 /\ n.base = 0 /\ n.work = <<>>
           \/ /\ 0 < Len(rows) /\ n.at = "batch" /\ n.url = p.url /\ n.base = 0 /\ n.rows = rows
              /\ DOMAIN n.work = 1..(LastOfBatch(m) - 0) /\ LastOfBatch(m) = LastOfBatch(n)
              /\ \A k \in DOMAIN n.work : n.work[k].at = "fetch"
    BY <1>1, <2>4, StartBatchFields DEF LastOfBatch
  <2> HIDE DEF n
  <2>6. CASE n.at = "listing"
    <3>1. rows = <<>> /\ fresh = {}
      BY <1>1, <2>1, <2>5, <2>6
    <3> QED  BY <1>1, <1>2, <2>2, <2>5, <2>6, <3>1, ListingDone
  <2>7. CASE n.at = "batch"
    <3>1. \A q \in n.seen : q[1] = n.url <=> q \in fresh
      BY <1>1, <2>1, <2>5, <2>7, PlacesAreNumbered, SMTT(30) DEF Poll
    <3>2. \A q \in fresh : q[2] \in Nat /\ q[2] > 0 /\ q[2] <= Len(n.rows) /\ q[2] # 0
      BY <1>1, <2>1, <2>5, <2>7
    <3>3. \A q \in fresh : q \notin Answered(c)
      BY <1>1, <2>1, PlacesAreNumbered DEF WatchInv, CycleInv, EntriesHaveOneAnswer
    <3>4. \A q \in p.seen : q \in Answered(c)
      BY <1>1 DEF WatchInv, CycleInv, EntriesHaveOneAnswer
    <3>5. \A q \in n.seen : q \in Answered(c) <=> ~(q[1] = n.url /\ q[2] > n.base)
      BY <2>5, <2>7, <3>1, <3>2, <3>3, <3>4
    <3>6. \A i \in 1..Len(n.rows) : <<n.url, i>> \in n.seen
      BY <2>3, <2>5, <2>7
    <3> QED  BY <1>1, <1>2, <2>1, <2>2, <2>5, <2>7, <3>1, <3>2, <3>5, <3>6, BatchStarts, SMTT(30)
  <2> QED  BY <2>5, <2>6, <2>7
<1> QED  BY <1>3, <1>4

LEMMA ListingFailsKeeps == ASSUME WatchInv, NEW c \in Cycles, ListingFails(c) PROVE WatchInv'
<1> DEFINE p == poll[c]
<1>1. /\ p \in Poll /\ p.at = "listing" /\ p.url \in UrlIds /\ Cardinality(Delivered(p)) = 0
      /\ (\A q : ~Outstanding(p, q))
      /\ p.triggersEmitted \in Nat /\ p.triggersEmitted + 0 = p.triggersEmitted
      /\ UNCHANGED <<site, ingested, live, pollInProgress, rowCountHistory, triggers, changes>>
      /\ failures' \in 0..MaxFailures /\ pollInProgress' \in BOOLEAN /\ rowCountHistory' \in [UrlIds -> Nat]
  BY AtListing, WatchAssumption, SMTT(30) DEF ListingFails, Fails, WatchInv, WatchTypeOK
<1>2. CASE p.tries < maxRetries
  <2> DEFINE n == [p EXCEPT !.tries = @ + 1]
  <2>1. Set(c, n)
    BY <1>2 DEF ListingFails
  <2>2. p.tries + 1 \in 0..maxRetries
    <3>1. p.tries \in 0..maxRetries
      BY <1>1 DEF Poll
    <3>2. maxRetries \in Nat
      BY WatchAssumption
    <3> QED  BY <1>2, <3>1, <3>2
  <2>3. /\ n \in Poll /\ n.at = p.at /\ n.url = p.url /\ n.base = p.base /\ n.work = p.work /\ n.seen = p.seen /\ n.unchanged = p.unchanged
        /\ n.errors = p.errors /\ n.emptied = p.emptied /\ n.known = p.known /\ n.triggersEmitted = p.triggersEmitted
    BY <1>1, <2>2 DEF Poll
  <2> HIDE DEF n
  <2>4. poll'[c] = n
    BY <2>1 DEF Set, WatchInv, WatchTypeOK
  <2>5. Emitted(c)' = Emitted(c) /\ Errors(c)' = Errors(c) /\ Answered(c)' = Answered(c) /\ Delivered(n) = Delivered(p)
    BY <1>1, <2>3, <2>4 DEF Emitted, Errors, Answered, Delivered
  <2>6. Progress(c)'
    BY <1>1, <2>3, <2>4 DEF WatchInv, CycleInv, Progress
  <2>7. EntriesHaveOneAnswer(c)'
    BY <1>1, <2>3, <2>4, <2>5 DEF WatchInv, CycleInv, EntriesHaveOneAnswer, Outstanding
  <2>8. CountIsTrue(c)'
    BY <2>3, <2>4, <2>5 DEF WatchInv, CycleInv, CountIsTrue
  <2>9. ListingsAreAnswered(c)'
    BY <1>1, <2>3, <2>4, <2>5 DEF WatchInv, CycleInv, ListingsAreAnswered
  <2>10. KnownStaysKnown(c)'
    BY <1>1, <2>3, <2>4 DEF WatchInv, CycleInv, KnownStaysKnown
  <2> QED  BY <1>1, <2>1, <2>3, <2>6, <2>7, <2>8, <2>9, <2>10, CycleMoves DEF CycleInv, WatchInv, WatchTypeOK
<1>3. CASE ~(p.tries < maxRetries)
  <2> DEFINE n == ListingError(p, "upstream_unavailable")
  <2>1. Set(c, n)
    BY <1>3 DEF ListingFails
  <2>2. /\ n \in Poll /\ n.at = "listing" /\ n.url = p.url + 1 /\ n.base = 0 /\ n.work = <<>>
        /\ n.seen = p.seen /\ n.unchanged = p.unchanged /\ n.emptied = p.emptied
        /\ n.errors = p.errors \cup {[stage |-> "listing_fetch", place |-> <<p.url, 0>>]}
        /\ n.known = p.known /\ n.triggersEmitted = p.triggersEmitted
    BY <1>1, ListingErrorFields DEF AlertKinds
  <2> HIDE DEF n
  <2>3. \A e \in n.errors \ p.errors : e.place = <<p.url, 0>>
    BY <2>2
  <2>4. \E q \in {e.place : e \in n.errors} : q[1] = p.url
    <3> DEFINE e == [stage |-> "listing_fetch", place |-> <<p.url, 0>>]
    <3>1. e \in n.errors /\ e.place = <<p.url, 0>>
      BY <2>2
    <3> HIDE DEF e
    <3>2. <<p.url, 0>> \in {x.place : x \in n.errors}
      BY <3>1
    <3> QED  BY <3>2
  <2> QED  BY <1>1, <2>1, <2>2, <2>3, <2>4, ListingDone
<1> QED  BY <1>2, <1>3

LEMMA EndCycleKeeps == ASSUME WatchInv, NEW c \in Cycles, EndCycle(c) PROVE WatchInv'
<1> DEFINE p == poll[c]
           n == [p EXCEPT !.at = "end"]
<1>1. /\ p \in Poll /\ p.at = "listing" /\ p.url \notin UrlIds /\ (\A q : ~Outstanding(p, q))
      /\ UNCHANGED <<site, ingested, live, rowCountHistory, triggers, failures, changes>> /\ Set(c, n) /\ pollInProgress' = FALSE
  BY AtListing DEF EndCycle, Set, WatchInv, WatchTypeOK
<1>2. /\ n \in Poll /\ n.at = "end" /\ n.url = p.url /\ n.work = p.work /\ n.seen = p.seen /\ n.unchanged = p.unchanged
      /\ n.errors = p.errors /\ n.emptied = p.emptied /\ n.known = p.known /\ n.triggersEmitted = p.triggersEmitted
  BY <1>1 DEF Poll
<1> HIDE DEF n
<1>3. poll'[c] = n
  BY <1>1 DEF Set, WatchInv, WatchTypeOK
<1>4. Emitted(c)' = Emitted(c) /\ Errors(c)' = Errors(c) /\ Answered(c)' = Answered(c) /\ Delivered(n) = Delivered(p)
  BY <1>1, <1>2, <1>3 DEF Emitted, Errors, Answered, Delivered
<1>5. Progress(c)'
  BY <1>1, <1>2, <1>3 DEF WatchInv, CycleInv, Progress
<1>6. EntriesHaveOneAnswer(c)'
  BY <1>1, <1>2, <1>3, <1>4 DEF WatchInv, CycleInv, EntriesHaveOneAnswer, Outstanding
<1>7. CountIsTrue(c)'
  BY <1>2, <1>3, <1>4 DEF WatchInv, CycleInv, CountIsTrue
<1>8. ListingsAreAnswered(c)'
  BY <1>1, <1>2, <1>3, <1>4 DEF WatchInv, CycleInv, ListingsAreAnswered
<1>9. KnownStaysKnown(c)'
  BY <1>1, <1>2, <1>3 DEF WatchInv, CycleInv, KnownStaysKnown
<1> QED  BY <1>1, <1>2, <1>5, <1>6, <1>7, <1>8, <1>9, CycleMoves DEF CycleInv, WatchInv, WatchTypeOK

\* The entries of a batch and the places of the listing.
LEMMA AtBatch ==
  ASSUME WatchInv, NEW c \in Cycles, poll[c].at = "batch"
  PROVE  LET p == poll[c]
         IN /\ p \in Poll /\ p.url \in UrlIds /\ p.url \in Nat /\ p.base \in Nat /\ Len(p.rows) \in Nat /\ p.base < Len(p.rows)
            /\ LastOfBatch(p) \in Nat /\ LastOfBatch(p) > p.base /\ LastOfBatch(p) <= Len(p.rows)
            /\ LastOfBatch(p) <= p.base + detailFetchConcurrency
            /\ LastOfBatch(p) = Len(p.rows) \/ LastOfBatch(p) = p.base + detailFetchConcurrency
            /\ p.work \in Seq(Work) /\ DOMAIN p.work = 1..(LastOfBatch(p) - p.base)
            /\ \A k \in DOMAIN p.work : Place(p, k) \in p.seen /\ Place(p, k) = <<p.url, p.base + k>>
            /\ p.seen \subseteq Places /\ p.triggersEmitted \in Nat
            /\ IsFiniteSet(Delivered(p)) /\ Cardinality(Delivered(p)) \in Nat
<1> DEFINE p == poll[c]
<1>1. p \in Poll /\ p.url \in UrlIds /\ p.base < Len(p.rows) /\ DOMAIN p.work = 1..(LastOfBatch(p) - p.base)
      /\ \A i \in 1..Len(p.rows) : <<p.url, i>> \in p.seen
  BY DEF WatchInv, WatchTypeOK, CycleInv, Progress
<1>2. p.base \in Nat /\ p.rows \in Seq(Pages) /\ p.work \in Seq(Work) /\ p.seen \subseteq Places /\ p.triggersEmitted \in Nat
  BY <1>1 DEF Poll
<1>3. Len(p.rows) \in Nat /\ p.url \in Nat
  BY <1>1, <1>2, PlacesAreNumbered
<1> HIDE DEF p
<1>4. /\ LastOfBatch(p) \in Nat /\ LastOfBatch(p) > p.base /\ LastOfBatch(p) <= Len(p.rows)
      /\ LastOfBatch(p) <= p.base + detailFetchConcurrency
      /\ LastOfBatch(p) = Len(p.rows) \/ LastOfBatch(p) = p.base + detailFetchConcurrency
  BY <1>1, <1>2, <1>3, WatchAssumption, SMTT(30) DEF LastOfBatch
<1>5. ASSUME NEW k \in DOMAIN p.work PROVE Place(p, k) \in p.seen /\ Place(p, k) = <<p.url, p.base + k>>
  <2>1. p.base + k \in 1..Len(p.rows)
    BY <1>1, <1>2, <1>3, <1>4
  <2> QED  BY <1>1, <2>1 DEF Place
<1>6. IsFiniteSet(Delivered(p)) /\ Cardinality(Delivered(p)) \in Nat
  <2>1. LastOfBatch(p) - p.base \in Int /\ Delivered(p) \subseteq 1..(LastOfBatch(p) - p.base)
    BY <1>1, <1>2, <1>4 DEF Delivered
  <2>2. IsFiniteSet(1..(LastOfBatch(p) - p.base))
    BY <2>1, FS_Interval
  <2> QED  BY <2>1, <2>2, FS_Subset, FS_CardinalityType
<1> QED  BY <1>1, <1>2, <1>3, <1>4, <1>5, <1>6 DEF p

LEMMA EndBatchKeeps == ASSUME WatchInv, NEW c \in Cycles, EndBatch(c) PROVE WatchInv'
<1> DEFINE p == poll[c]
           m == [p EXCEPT !.triggersEmitted = @ + Cardinality(Delivered(p)), !.base = @ + detailFetchConcurrency, !.work = <<>>]
           n == StartBatch(m)
<1>1. /\ p.at = "batch" /\ (\A k \in DOMAIN p.work : p.work[k].at \in Over) /\ Set(c, n)
      /\ UNCHANGED <<site, ingested, live, pollInProgress, rowCountHistory, triggers, failures, changes>>
  BY DEF EndBatch, Delivered, Over
<1>2. /\ p \in Poll /\ p.url \in UrlIds /\ p.base \in Nat /\ Len(p.rows) \in Nat
      /\ LastOfBatch(p) \in Nat /\ LastOfBatch(p) <= Len(p.rows)
      /\ LastOfBatch(p) = Len(p.rows) \/ LastOfBatch(p) = p.base + detailFetchConcurrency
      /\ LastOfBatch(p) <= p.base + detailFetchConcurrency
      /\ DOMAIN p.work = 1..(LastOfBatch(p) - p.base)
      /\ p.seen \subseteq Places /\ p.triggersEmitted \in Nat /\ Cardinality(Delivered(p)) \in Nat
  BY <1>1, AtBatch
<1>3. /\ p.base + detailFetchConcurrency \in Nat /\ p.triggersEmitted + Cardinality(Delivered(p)) \in Nat /\ <<>> \in Seq(Work)
  <2>1. detailFetchConcurrency \in Nat
    BY WatchAssumption
  <2>2. p.base \in Nat /\ p.triggersEmitted \in Nat /\ Cardinality(Delivered(p)) \in Nat
    BY <1>2
  <2> QED  BY <2>1, <2>2
<1>4. /\ m \in Poll /\ m.url = p.url /\ m.base = p.base + detailFetchConcurrency /\ m.rows = p.rows
      /\ m.seen = p.seen /\ m.unchanged = p.unchanged /\ m.errors = p.errors /\ m.emptied = p.emptied /\ m.known = p.known
      /\ m.triggersEmitted = p.triggersEmitted + Cardinality(Delivered(p))
  BY <1>2, <1>3 DEF Poll
<1> HIDE DEF m
<1>5. /\ n \in Poll
      /\ n.seen = p.seen /\ n.unchanged = p.unchanged /\ n.errors = p.errors /\ n.emptied = p.emptied
      /\ n.known = p.known /\ n.triggersEmitted = p.triggersEmitted + Cardinality(Delivered(p))
      /\ \/ /\ p.base + detailFetchConcurrency >= Len(p.rows) /\ n.at = "listing" /\ n.url = p.url + 1 /\ n.base = 0
            /\ n.work = <<>>
         \/ /\ p.base + detailFetchConcurrency < Len(p.rows) /\ n.at = "batch" /\ n.url = p.url
            /\ n.base = p.base + detailFetchConcurrency /\ n.rows = p.rows
            /\ DOMAIN n.work = 1..(LastOfBatch(m) - n.base) /\ LastOfBatch(m) = LastOfBatch(n)
            /\ \A k \in DOMAIN n.work : n.work[k].at = "fetch"
  BY <1>2, <1>4, StartBatchFields, SMTT(30) DEF LastOfBatch
<1> HIDE DEF n
\* Of the listing only what comes after the batch is outstanding.
<1>6. \A q \in p.seen : Outstanding(p, q) <=> q[1] = p.url /\ q[2] > p.base + detailFetchConcurrency
  <2>1. SUFFICES ASSUME NEW q \in p.seen
                 PROVE  Outstanding(p, q) <=> q[1] = p.url /\ q[2] > p.base + detailFetchConcurrency
    OBVIOUS
  <2>2. q[1] \in Nat /\ q[2] \in Nat
    BY <1>2, PlacesAreNumbered
  <2>3. q[1] = p.url => q[2] <= Len(p.rows)
    BY <1>1, <1>2, <2>2, PlacesAreNumbered DEF WatchInv, CycleInv, Progress
  <2>4. CASE q[1] = p.url /\ q[2] > p.base
    <3>1. q[2] - p.base \in DOMAIN p.work <=> q[2] <= LastOfBatch(p)
      BY <1>2, <2>2, <2>4
    <3>2. q[2] <= LastOfBatch(p) <=> q[2] <= p.base + detailFetchConcurrency
      BY <1>2, <2>2, <2>3, <2>4, WatchAssumption, SMTT(30)
    <3>3. Outstanding(p, q) <=> ~(q[2] <= LastOfBatch(p))
      BY <1>1, <2>4, <3>1 DEF Outstanding
    <3> QED  BY <1>2, <2>2, <2>4, <3>2, <3>3, WatchAssumption, SMTT(30)
  <2>5. CASE ~(q[1] = p.url /\ q[2] > p.base)
    <3>1. q[2] > p.base + detailFetchConcurrency => q[2] > p.base
      BY <1>2, <2>2, WatchAssumption, SMTT(30)
    <3>2. ~Outstanding(p, q)
      BY <2>5 DEF Outstanding
    <3> QED  BY <2>5, <3>1, <3>2
  <2> QED  BY <2>4, <2>5
<1>7. CASE n.at = "listing"
  <2>1. \A q \in p.seen : ~Outstanding(p, q)
    <3>1. SUFFICES ASSUME NEW q \in p.seen, q[1] = p.url, q[2] > p.base + detailFetchConcurrency PROVE FALSE
      BY <1>6
    <3>2. q[2] \in Nat /\ q[2] <= Len(p.rows)
      BY <1>1, <1>2, <3>1, PlacesAreNumbered DEF WatchInv, CycleInv, Progress
    <3> QED  BY <1>2, <1>5, <1>7, <3>1, <3>2, WatchAssumption, SMTT(30)
  <2>2. \E q \in p.seen : q[1] = p.url
    <3>1. Place(p, 1) \in p.seen /\ Place(p, 1) = <<p.url, p.base + 1>>
      BY <1>1, AtBatch, SMTT(30)
    <3> QED  BY <3>1
  <2> QED  BY <1>1, <1>2, <1>5, <1>7, <2>1, <2>2, ListingDone DEF WatchInv, WatchTypeOK
<1>8. CASE n.at = "batch"
  <2>1. \A q \in n.seen : q \in Answered(c) <=> ~(q[1] = n.url /\ q[2] > n.base)
    BY <1>5, <1>6, <1>8 DEF WatchInv, CycleInv, EntriesHaveOneAnswer
  <2>2. \A i \in 1..Len(n.rows) : <<n.url, i>> \in n.seen
    BY <1>1, <1>5, <1>8 DEF WatchInv, CycleInv, Progress
  <2>3. \A q \in n.seen : q[1] = n.url => q[2] <= Len(n.rows)
    BY <1>1, <1>2, <1>5, <1>8, PlacesAreNumbered DEF WatchInv, CycleInv, Progress
  <2> QED  BY <1>1, <1>2, <1>5, <1>8, <2>1, <2>2, <2>3, BatchStarts DEF WatchInv, WatchTypeOK
<1> QED  BY <1>5, <1>7, <1>8

-----------------------------------------------------------------------------
(***************************************************************************)
(* The entries of a batch.                                                 *)
(***************************************************************************)
\* The k-th entry becomes w; nothing else of the work changes.
LEMMA WorkOfEntry ==
  ASSUME WatchInv, NEW c \in Cycles, poll[c].at = "batch", NEW k \in DOMAIN poll[c].work, NEW w \in Work
  PROVE  LET p == poll[c]
             s == [p.work EXCEPT ![k] = w]
         IN /\ p.work[k] \in Work
            /\ s \in Seq(Work) /\ DOMAIN s = DOMAIN p.work /\ s[k] = w /\ \A j \in DOMAIN s : j # k => s[j] = p.work[j]
<1>1. poll[c].work \in Seq(Work)
  BY AtBatch
<1> QED  BY <1>1

\* An entry goes on to its next step.
LEMMA EntryGoes ==
  ASSUME WatchInv, NEW c \in Cycles, poll[c].at = "batch", NEW k \in DOMAIN poll[c].work, NEW w \in Work,
         Go(c, k, w), poll[c].work[k].at \notin Over, w.at \notin Over,
         w.at \in {"fuzzy", "context", "emit"} => w.page \notin poll[c].known,
         UNCHANGED <<site, ingested, live, pollInProgress, rowCountHistory, triggers, changes>>, failures' \in 0..MaxFailures
  PROVE  WatchInv'
<1> DEFINE p == poll[c]
           s == [p.work EXCEPT ![k] = w]
           n == [p EXCEPT !.work = s]
<1>1. Set(c, n)
  BY DEF Go
<1>2. p \in Poll /\ s \in Seq(Work) /\ DOMAIN s = DOMAIN p.work /\ s[k] = w /\ \A j \in DOMAIN s : j # k => s[j] = p.work[j]
  BY AtBatch, WorkOfEntry
<1> HIDE DEF s
<1>3. /\ n \in Poll /\ n.at = "batch" /\ n.url = p.url /\ n.base = p.base /\ n.rows = p.rows /\ n.work = s /\ n.seen = p.seen
      /\ n.unchanged = p.unchanged /\ n.errors = p.errors /\ n.emptied = p.emptied /\ n.known = p.known
      /\ n.triggersEmitted = p.triggersEmitted
  BY <1>2 DEF Poll
<1> HIDE DEF n
<1>4. poll'[c] = n
  BY <1>1 DEF Set, WatchInv, WatchTypeOK
<1>5. Emitted(c)' = Emitted(c) /\ Errors(c)' = Errors(c) /\ Answered(c)' = Answered(c)
  BY <1>3, <1>4 DEF Emitted, Errors, Answered
<1>6. Delivered(n) = Delivered(p) /\ \A q : Outstanding(n, q) <=> Outstanding(p, q)
  <2>1. \A j \in DOMAIN s : (s[j].at = "true" <=> p.work[j].at = "true") /\ (s[j].at \in Over <=> p.work[j].at \in Over)
    BY <1>2 DEF Over
  <2>2. Delivered(n) = Delivered(p)
    BY <1>2, <1>3, <2>1 DEF Delivered
  <2>3. \A q : Outstanding(n, q) <=> Outstanding(p, q)
    BY <1>2, <1>3, <2>1 DEF Outstanding
  <2> QED  BY <2>2, <2>3
<1>7. Progress(c)'
  BY <1>2, <1>3, <1>4 DEF WatchInv, CycleInv, Progress, LastOfBatch
<1>8. EntriesHaveOneAnswer(c)'
  BY <1>3, <1>4, <1>5, <1>6 DEF WatchInv, CycleInv, EntriesHaveOneAnswer
<1>9. CountIsTrue(c)'
  BY <1>3, <1>4, <1>5, <1>6 DEF WatchInv, CycleInv, CountIsTrue
<1>10. ListingsAreAnswered(c)'
  BY <1>3, <1>4, <1>5 DEF WatchInv, CycleInv, ListingsAreAnswered
<1>11. KnownStaysKnown(c)'
  <2>1. \A j \in DOMAIN s : s[j].at \in {"fuzzy", "context", "emit"} => s[j].page \notin p.known
    BY <1>2 DEF WatchInv, CycleInv, KnownStaysKnown
  <2> QED  BY <1>3, <1>4, <2>1 DEF WatchInv, CycleInv, KnownStaysKnown
<1> QED  BY <1>1, <1>3, <1>7, <1>8, <1>9, <1>10, <1>11, CycleMoves DEF CycleInv, WatchInv, WatchTypeOK

\* An entry has its answer: an error, that it is known, or a trigger (which may
\* also have been delivered when the answer is an error).
LEMMA EntrySettles ==
  ASSUME WatchInv, NEW c \in Cycles, poll[c].at = "batch", NEW k \in DOMAIN poll[c].work, NEW over \in Over,
         NEW U \in SUBSET {Place(poll[c], k)}, NEW E \in SUBSET PollError, NEW A \in SUBSET AlertKinds,
         poll[c].work[k].at \notin Over,
         Set(c, [poll[c] EXCEPT !.work[k].at = over, !.alerts = @ \cup A, !.errors = @ \cup E, !.unchanged = @ \cup U]),
         \A e \in E : e.place = Place(poll[c], k),
         triggers' = triggers \/ (triggers' = triggers \cup {TriggerOf(c, k)} /\ poll[c].work[k].at = "emit"),
         \/ over = "true" /\ U = {} /\ E = {} /\ triggers' = triggers \cup {TriggerOf(c, k)}
         \/ over = "false" /\ U = {} /\ E # {}
         \/ over = "false" /\ U # {} /\ E = {} /\ triggers' = triggers,
         triggers' \subseteq RegulatoryWatchTriggerEvent,
         UNCHANGED <<site, ingested, live, pollInProgress, rowCountHistory, changes>>, failures' \in 0..MaxFailures
  PROVE  WatchInv'
<1> DEFINE p == poll[c]
           here == Place(p, k)
           w == [p.work[k] EXCEPT !.at = over]
           s == [p.work EXCEPT ![k] = w]
           n == [p EXCEPT !.work = s, !.alerts = @ \cup A, !.errors = @ \cup E, !.unchanged = @ \cup U]
<1>1. /\ p \in Poll /\ p.url \in Nat /\ p.base \in Nat /\ p.work \in Seq(Work) /\ p.seen \subseteq Places
      /\ here \in p.seen /\ here = <<p.url, p.base + k>> /\ k \in Nat \ {0}
      /\ p.triggersEmitted \in Nat /\ IsFiniteSet(Delivered(p)) /\ Cardinality(Delivered(p)) \in Nat
  BY AtBatch, SMTT(30)
<1>2. w \in Work /\ w.at = over /\ w.page = p.work[k].page
  <2>1. p.work[k] \in Work
    BY <1>1
  <2>2. over \in {"false", "true"}
    BY DEF Over
  <2> QED  BY <2>1, <2>2 DEF Work
<1>3. Set(c, n)
  BY <1>1
<1> HIDE DEF w
<1>4. s \in Seq(Work) /\ DOMAIN s = DOMAIN p.work /\ s[k] = w /\ \A j \in DOMAIN s : j # k => s[j] = p.work[j]
  BY <1>2, WorkOfEntry
<1> HIDE DEF s
<1>5. /\ n \in Poll /\ n.at = "batch" /\ n.url = p.url /\ n.base = p.base /\ n.rows = p.rows /\ n.work = s /\ n.seen = p.seen
      /\ n.unchanged = p.unchanged \cup U /\ n.errors = p.errors \cup E /\ n.emptied = p.emptied /\ n.known = p.known
      /\ n.triggersEmitted = p.triggersEmitted
  <2>1. U \subseteq Places
    BY <1>1
  <2> HIDE DEF here
  <2> QED  BY <1>1, <1>4, <2>1 DEF Poll
<1> HIDE DEF n
<1>6. poll'[c] = n
  BY <1>3 DEF Set, WatchInv, WatchTypeOK
<1>7. here \notin Emitted(c) /\ here \notin Errors(c) /\ here \notin p.unchanged /\ here[2] # 0 /\ Outstanding(p, here)
  <2>1. here[1] = p.url /\ here[2] = p.base + k /\ here[2] > p.base /\ here[2] - p.base = k /\ here[2] # 0
    <3>1. p.base + k > p.base /\ (p.base + k) - p.base = k /\ p.base + k # 0
      <4>1. k \in Nat /\ k # 0 /\ p.base \in Nat
        BY <1>1
      <4> QED  BY <4>1
    <3>2. here[1] = p.url /\ here[2] = p.base + k
      BY DEF Place
    <3> HIDE DEF here
    <3> QED  BY <3>1, <3>2
  <2>2. Outstanding(p, here)
    BY <2>1 DEF Outstanding
  <2>3. here \notin Answered(c)
    BY <1>1, <2>2 DEF WatchInv, CycleInv, EntriesHaveOneAnswer
  <2> HIDE DEF here
  <2> QED  BY <2>1, <2>2, <2>3 DEF Answered
<1>8. Errors(c)' = Errors(c) \cup (IF E = {} THEN {} ELSE {here})
  <2>1. Errors(c)' = {e.place : e \in p.errors \cup E}
    BY <1>5, <1>6 DEF Errors
  <2> HIDE DEF here
  <2>2. {e.place : e \in p.errors \cup E} = Errors(c) \cup {e.place : e \in E}
    BY DEF Errors
  <2>3. {e.place : e \in E} = IF E = {} THEN {} ELSE {here}
    BY DEF here
  <2> QED  BY <2>1, <2>2, <2>3
<1>9. Emitted(c)' = Emitted(c) \cup (IF triggers' = triggers THEN {} ELSE {here})
      /\ (triggers' = triggers \cup {TriggerOf(c, k)} => here \in Emitted(c)')
  <2>1. TriggerOf(c, k).cycle = c /\ TriggerOf(c, k).place = here
    BY DEF TriggerOf
  <2> HIDE DEF here
  <2>2. CASE triggers' = triggers
    BY <2>1, <2>2 DEF Emitted
  <2>3. CASE triggers' # triggers
    BY <2>1, <2>3 DEF Emitted
  <2> QED  BY <2>2, <2>3, SMTT(30)
<1>10. U = {} \/ U = {here}
  OBVIOUS
<1> HIDE DEF here
<1>11. Answered(c)' = Answered(c) \cup {here}
  BY <1>5, <1>6, <1>7, <1>8, <1>9, <1>10 DEF Answered
<1>12. \A q \in p.seen : Outstanding(n, q) <=> Outstanding(p, q) /\ q # here
  <2>1. SUFFICES ASSUME NEW q \in p.seen PROVE Outstanding(n, q) <=> Outstanding(p, q) /\ q # here
    OBVIOUS
  <2>2. q[1] \in Nat /\ q[2] \in Nat /\ q = <<q[1], q[2]>>
    BY <1>1, PlacesAreNumbered
  <2>3. CASE q = here
    <3>1. q[2] - p.base = k /\ s[k].at \in Over
      BY <1>1, <1>2, <1>4, <2>3, SMTT(30)
    <3> QED  BY <1>4, <1>5, <2>3, <3>1 DEF Outstanding
  <2>4. CASE q # here
    <3>1. q[1] = p.url => q[2] - p.base # k
      BY <1>1, <2>2, <2>4
    <3> QED  BY <1>4, <1>5, <2>4, <3>1 DEF Outstanding
  <2> QED  BY <2>3, <2>4
<1>13. Progress(c)'
  BY <1>4, <1>5, <1>6, SMTT(30) DEF WatchInv, CycleInv, Progress, LastOfBatch
<1>14. EntriesHaveOneAnswer(c)'
  <2>1. n.unchanged \cap (Emitted(c)' \cup Errors(c)') = {}
    BY <1>5, <1>7, <1>8, <1>9, <1>10 DEF WatchInv, CycleInv, EntriesHaveOneAnswer
  <2>2. Answered(c)' \subseteq n.seen
    BY <1>1, <1>5, <1>11 DEF WatchInv, CycleInv, EntriesHaveOneAnswer
  <2>3. \A q \in n.seen : q \in Answered(c)' <=> ~Outstanding(n, q)
    BY <1>5, <1>11, <1>12 DEF WatchInv, CycleInv, EntriesHaveOneAnswer
  <2> QED  BY <1>6, <2>1, <2>2, <2>3 DEF EntriesHaveOneAnswer
<1>15. CountIsTrue(c)'
  <2>1. IsFiniteSet(Emitted(c)) /\ p.triggersEmitted + Cardinality(Delivered(p)) = Cardinality(Emitted(c) \ Errors(c))
    BY DEF WatchInv, CycleInv, CountIsTrue
  <2>2. IsFiniteSet(Emitted(c)') /\ IsFiniteSet(Emitted(c) \ Errors(c))
    BY <1>9, <2>1, FS_AddElement, FS_Subset
  <2>3. CASE over = "true"
    <3>1. Emitted(c)' \ Errors(c)' = (Emitted(c) \ Errors(c)) \cup {here} /\ here \notin Emitted(c) \ Errors(c)
      BY <1>7, <1>8, <1>9, <2>3 DEF Over
    <3>2. Cardinality(Emitted(c)' \ Errors(c)') = Cardinality(Emitted(c) \ Errors(c)) + 1
      <4> DEFINE S == Emitted(c) \ Errors(c)
      <4>1. IsFiniteSet(S) /\ here \notin S /\ Emitted(c)' \ Errors(c)' = S \cup {here}
        BY <2>2, <3>1
      <4> HIDE DEF S
      <4>2. Cardinality(S \cup {here}) = Cardinality(S) + 1
        BY <4>1, FS_AddElement
      <4>3. Cardinality(Emitted(c)' \ Errors(c)') = Cardinality(S) + 1
        BY <4>1, <4>2
      <4> QED  BY <4>3 DEF S
    <3>3. Delivered(n) = Delivered(p) \cup {k} /\ k \notin Delivered(p)
      BY <1>2, <1>4, <1>5, <2>3 DEF Delivered, Over
    <3>4. Cardinality(Delivered(n)) = Cardinality(Delivered(p)) + 1
      BY <1>1, <3>3, FS_AddElement, ZenonT(60)
    <3> QED  BY <1>1, <1>5, <1>6, <2>1, <2>2, <3>2, <3>4 DEF CountIsTrue
  <2>4. CASE over = "false"
    <3>1. Emitted(c)' \ Errors(c)' = Emitted(c) \ Errors(c)
      BY <1>7, <1>8, <1>9, <2>4
    <3>2. Delivered(n) = Delivered(p)
      BY <1>2, <1>4, <1>5, <2>4, SMTT(30) DEF Delivered, Over
    <3> QED  BY <1>5, <1>6, <2>1, <2>2, <3>1, <3>2 DEF CountIsTrue
  <2> QED  BY <2>3, <2>4 DEF Over
<1>16. ListingsAreAnswered(c)'
  BY <1>5, <1>6, <1>8 DEF WatchInv, CycleInv, ListingsAreAnswered
<1>17. KnownStaysKnown(c)'
  <2>1. \A j \in DOMAIN s : s[j].at \in {"fuzzy", "context", "emit"} => s[j].page \notin p.known
    BY <1>2, <1>4 DEF WatchInv, CycleInv, KnownStaysKnown, Over
  <2> QED  BY <1>5, <1>6, <2>1 DEF WatchInv, CycleInv, KnownStaysKnown
<1>18. \A e \in triggers' \ triggers : e.cycle = c /\ e.page \notin n.known
  <2>1. SUFFICES ASSUME NEW e \in triggers' \ triggers PROVE e.cycle = c /\ e.page \notin n.known
    OBVIOUS
  <2>2. e = TriggerOf(c, k) /\ p.work[k].at = "emit"
    BY SMTT(30)
  <2>3. e.cycle = c /\ e.page = p.work[k].page
    BY <2>2, SMTT(30) DEF TriggerOf
  <2> QED  BY <1>5, <2>2, <2>3 DEF WatchInv, CycleInv, KnownStaysKnown
<1> QED
  BY <1>3, <1>5, <1>13, <1>14, <1>15, <1>16, <1>17, <1>18, CycleMoves DEF CycleInv, WatchInv, WatchTypeOK

LEMMA EntryFails ==
  ASSUME WatchInv, NEW c \in Cycles, poll[c].at = "batch", NEW k \in DOMAIN poll[c].work, poll[c].work[k].at \notin Over,
         NEW point \in Stages, NEW alerts \in SUBSET AlertKinds, EntryError(c, k, point, alerts),
         triggers' = triggers \/ (triggers' = triggers \cup {TriggerOf(c, k)} /\ poll[c].work[k].at = "emit"),
         triggers' \subseteq RegulatoryWatchTriggerEvent,
         UNCHANGED <<site, ingested, live, pollInProgress, rowCountHistory, changes>>, failures' \in 0..MaxFailures
  PROVE  WatchInv'
<1> DEFINE p == poll[c]
           e == [stage |-> point, place |-> Place(p, k)]
           E == {e}
           U == {q \in {Place(p, k)} : FALSE}
<1>1. Place(p, k) \in Places /\ p \in Poll
  BY AtBatch
<1>2. e \in PollError /\ e.place = Place(p, k)
  BY <1>1 DEF PollError
<1>3. Set(c, [p EXCEPT !.work[k].at = "false", !.alerts = @ \cup alerts, !.errors = @ \cup E])
  BY DEF EntryError
<1> HIDE DEF e
<1>4. p.unchanged \cup U = p.unchanged /\ U = {} /\ U \in SUBSET {Place(p, k)}
  OBVIOUS
<1> HIDE DEF U
<1>5. [p EXCEPT !.work[k].at = "false", !.alerts = @ \cup alerts, !.errors = @ \cup E, !.unchanged = @ \cup U]
      = [p EXCEPT !.work[k].at = "false", !.alerts = @ \cup alerts, !.errors = @ \cup E]
  BY <1>1, <1>4 DEF Poll
<1>6. Set(c, [p EXCEPT !.work[k].at = "false", !.alerts = @ \cup alerts, !.errors = @ \cup E, !.unchanged = @ \cup U])
  BY <1>3, <1>5
<1>7. E \in SUBSET PollError /\ E # {} /\ \A x \in E : x.place = Place(p, k)
  BY <1>2
<1> HIDE DEF E
<1>8. "false" \in Over
  BY SMTT(30) DEF Over
<1> QED  BY <1>4, <1>6, <1>7, <1>8, EntrySettles

LEMMA EntryIsKnown ==
  ASSUME WatchInv, NEW c \in Cycles, poll[c].at = "batch", NEW k \in DOMAIN poll[c].work, poll[c].work[k].at \notin Over,
         Set(c, [poll[c] EXCEPT !.work[k].at = "false", !.unchanged = @ \cup {Place(poll[c], k)}]),
         UNCHANGED <<site, ingested, live, pollInProgress, rowCountHistory, triggers, changes>>, failures' \in 0..MaxFailures
  PROVE  WatchInv'
<1> DEFINE p == poll[c]
           U == {Place(p, k)}
<1>1. p \in Poll /\ triggers \subseteq RegulatoryWatchTriggerEvent
  BY AtBatch DEF WatchInv, WatchTypeOK
<1>2. U \in SUBSET {Place(p, k)} /\ U # {}
  OBVIOUS
<1>3. Set(c, [p EXCEPT !.work[k].at = "false", !.unchanged = @ \cup U])
  OBVIOUS
<1> HIDE DEF U
<1>4. [p EXCEPT !.work[k].at = "false", !.alerts = @ \cup {}, !.errors = @ \cup {}, !.unchanged = @ \cup U]
      = [p EXCEPT !.work[k].at = "false", !.unchanged = @ \cup U]
  BY <1>1 DEF Poll
<1>5. Set(c, [p EXCEPT !.work[k].at = "false", !.alerts = @ \cup {}, !.errors = @ \cup {}, !.unchanged = @ \cup U])
  BY <1>3, <1>4
<1>6. "false" \in Over
  BY DEF Over
<1> QED  BY <1>1, <1>2, <1>5, <1>6, EntrySettles

LEMMA EntryDelivers ==
  ASSUME WatchInv, NEW c \in Cycles, poll[c].at = "batch", NEW k \in DOMAIN poll[c].work, poll[c].work[k].at = "emit",
         Set(c, [poll[c] EXCEPT !.work[k].at = "true"]), triggers' = triggers \cup {TriggerOf(c, k)},
         triggers' \subseteq RegulatoryWatchTriggerEvent,
         UNCHANGED <<site, ingested, live, pollInProgress, rowCountHistory, changes>>, failures' \in 0..MaxFailures
  PROVE  WatchInv'
<1> DEFINE p == poll[c]
<1>1. p \in Poll
  BY AtBatch
<1>2. [p EXCEPT !.work[k].at = "true", !.alerts = @ \cup {}, !.errors = @ \cup {}, !.unchanged = @ \cup {}]
      = [p EXCEPT !.work[k].at = "true"]
  BY <1>1 DEF Poll
<1>3. Set(c, [p EXCEPT !.work[k].at = "true", !.alerts = @ \cup {}, !.errors = @ \cup {}, !.unchanged = @ \cup {}])
  BY <1>2
<1>4. "true" \in Over /\ "emit" \notin Over
  BY DEF Over
<1> QED  BY <1>3, <1>4, EntrySettles

LEMMA FetchDetailKeeps == ASSUME WatchInv, NEW c \in Cycles, NEW k \in 1..detailFetchConcurrency, FetchDetail(c, k) PROVE WatchInv'
<1> DEFINE p == poll[c]
           w == p.work[k]
<1>1. /\ p.at = "batch" /\ k \in DOMAIN p.work /\ w.at = "fetch" /\ w.at \notin Over /\ w \in Work
      /\ UNCHANGED <<site, ingested, live, pollInProgress, rowCountHistory, triggers, changes>>
      /\ failures' \in 0..MaxFailures /\ triggers' \subseteq RegulatoryWatchTriggerEvent
  <2>1. p.at = "batch" /\ k \in DOMAIN p.work /\ w.at = "fetch"
    BY DEF FetchDetail, At
  <2>2. w \in Work
    BY <2>1, AtBatch
  <2>3. failures' \in 0..MaxFailures
    BY WatchAssumption DEF FetchDetail, Fails, WatchInv, WatchTypeOK
  <2> QED  BY <2>1, <2>2, <2>3 DEF Over, FetchDetail, WatchInv, WatchTypeOK
<1>2. CASE Go(c, k, [w EXCEPT !.at = "hash"])
  <2> DEFINE v == [w EXCEPT !.at = "hash"]
  <2>1. v \in Work /\ v.at = "hash"
    BY <1>1 DEF Work
  <2>2. Go(c, k, v)
    BY <1>2
  <2> HIDE DEF v, w
  <2> QED  BY <1>1, <2>1, <2>2, EntryGoes DEF Over, w
<1>3. CASE w.tries < maxRetries /\ Go(c, k, [w EXCEPT !.tries = @ + 1])
  <2> DEFINE v == [w EXCEPT !.tries = @ + 1]
  <2>1. v \in Work /\ v.at = "fetch"
    <3>1. w.tries + 1 \in 0..maxRetries
      BY <1>1, <1>3, WatchAssumption, SMTT(30) DEF Work
    <3> QED  BY <1>1, <3>1 DEF Work
  <2>2. Go(c, k, v)
    BY <1>3
  <2> HIDE DEF v, w
  <2> QED  BY <1>1, <2>1, <2>2, EntryGoes DEF Over, w
<1>4. ASSUME NEW alerts \in SUBSET AlertKinds, EntryError(c, k, "detail_fetch", alerts) PROVE WatchInv'
  BY <1>1, <1>4, EntryFails DEF Stages
<1>5. {} \subseteq AlertKinds /\ {"selector_mismatch"} \subseteq AlertKinds
  BY DEF AlertKinds
<1> QED  BY <1>2, <1>3, <1>4, <1>5 DEF FetchDetail

LEMMA CompareHashKeeps == ASSUME WatchInv, NEW c \in Cycles, NEW k \in 1..detailFetchConcurrency, CompareHash(c, k) PROVE WatchInv'
<1> DEFINE p == poll[c]
           w == p.work[k]
<1>1. /\ p.at = "batch" /\ k \in DOMAIN p.work /\ w.at = "hash" /\ w.at \notin Over /\ w \in Work
      /\ UNCHANGED <<site, ingested, live, pollInProgress, rowCountHistory, triggers, changes>>
      /\ failures' \in 0..MaxFailures /\ triggers' \subseteq RegulatoryWatchTriggerEvent
  <2>1. p.at = "batch" /\ k \in DOMAIN p.work /\ w.at = "hash"
    BY DEF CompareHash, At
  <2>2. w \in Work
    BY <2>1, AtBatch
  <2>3. failures' \in 0..MaxFailures
    BY WatchAssumption, SMTT(30) DEF CompareHash, Fails, WatchInv, WatchTypeOK
  <2> QED  BY <2>1, <2>2, <2>3 DEF Over, CompareHash, WatchInv, WatchTypeOK
<1>2. CASE Set(c, [p EXCEPT !.work[k].at = "false", !.unchanged = @ \cup {Place(p, k)}])
  BY <1>1, <1>2, EntryIsKnown
<1>3. CASE w.page \notin ingested /\ Go(c, k, [w EXCEPT !.at = "fuzzy"])
  <2> DEFINE v == [w EXCEPT !.at = "fuzzy"]
  <2>1. v \in Work /\ v.at = "fuzzy" /\ v.page = w.page
    BY <1>1 DEF Work
  <2>2. Go(c, k, v)
    BY <1>3
  <2>3. v.page \notin p.known
    BY <1>3, <2>1 DEF WatchInv, CycleInv, KnownStaysKnown
  <2> HIDE DEF v, w
  <2> QED  BY <1>1, <2>1, <2>2, <2>3, EntryGoes DEF Over, w
<1>4. CASE EntryError(c, k, "change_detect", {})
  BY <1>1, <1>4, EntryFails DEF Stages
<1> QED  BY <1>2, <1>3, <1>4 DEF CompareHash

LEMMA CompareTitlesKeeps == ASSUME WatchInv, NEW c \in Cycles, NEW k \in 1..detailFetchConcurrency, CompareTitles(c, k) PROVE WatchInv'
<1> DEFINE p == poll[c]
           w == p.work[k]
           candidates == Candidates(w.page)
           best == IF candidates = {} THEN None ELSE Best(w.page, candidates)
<1>1. /\ p.at = "batch" /\ k \in DOMAIN p.work /\ w.at = "fuzzy" /\ w.at \notin Over /\ w \in Work /\ live \subseteq Pages
      /\ UNCHANGED <<site, ingested, live, pollInProgress, rowCountHistory, triggers, changes>>
      /\ failures' \in 0..MaxFailures /\ triggers' \subseteq RegulatoryWatchTriggerEvent
  <2>1. p.at = "batch" /\ k \in DOMAIN p.work /\ w.at = "fuzzy"
    BY DEF CompareTitles, At
  <2>2. w \in Work
    BY <2>1, AtBatch
  <2>3. failures' \in 0..MaxFailures
    BY WatchAssumption DEF CompareTitles, Fails, WatchInv, WatchTypeOK
  <2> QED  BY <2>1, <2>2, <2>3 DEF Over, CompareTitles, WatchInv, WatchTypeOK
<1>2. best \in Pages \cup {None} /\ w.page \in Pages
  <2>1. w.page \in Pages
    BY <1>1 DEF Work
  <2> QED  BY <1>1, <2>1, BestIsCandidate
<1>3. w.page \notin p.known
  BY <1>1 DEF WatchInv, CycleInv, KnownStaysKnown
<1>4. /\ "new" \in ChangeTypes /\ "amendment" \in ChangeTypes /\ "new" # None /\ "amendment" # None
  BY WatchAssumption DEF ChangeTypes
<1> HIDE DEF best
<1>5. CASE Go(c, k, [w EXCEPT !.at = "emit", !.type = "amendment", !.other = best])
  <2> DEFINE v == [w EXCEPT !.at = "emit", !.type = "amendment", !.other = best]
  <2>1. v \in Work /\ v.at = "emit" /\ v.page = w.page
    BY <1>1, <1>2, <1>4 DEF Work
  <2>2. Go(c, k, v)
    BY <1>5
  <2> HIDE DEF v, w
  <2> QED  BY <1>1, <1>3, <2>1, <2>2, EntryGoes DEF Over, w
<1>6. CASE Go(c, k, [w EXCEPT !.at = "context", !.type = "new"])
  <2> DEFINE v == [w EXCEPT !.at = "context", !.type = "new"]
  <2>1. v \in Work /\ v.at = "context" /\ v.page = w.page
    BY <1>1, <1>4 DEF Work
  <2>2. Go(c, k, v)
    BY <1>6
  <2> HIDE DEF v, w
  <2> QED  BY <1>1, <1>3, <2>1, <2>2, EntryGoes DEF Over, w
<1>7. CASE EntryError(c, k, "change_detect", {})
  BY <1>1, <1>7, EntryFails DEF Stages
<1> QED  BY <1>5, <1>6, <1>7 DEF CompareTitles, best

LEMMA FindTargetKeeps == ASSUME WatchInv, NEW c \in Cycles, NEW k \in 1..detailFetchConcurrency, FindTarget(c, k) PROVE WatchInv'
<1> DEFINE p == poll[c]
           w == p.work[k]
           target == Target(w.page, Candidates(w.page))
<1>1. /\ p.at = "batch" /\ k \in DOMAIN p.work /\ w.at = "context" /\ w.at \notin Over /\ w \in Work /\ live \subseteq Pages
      /\ UNCHANGED <<site, ingested, live, pollInProgress, rowCountHistory, triggers, changes>> /\ failures' \in 0..MaxFailures
  <2>1. p.at = "batch" /\ k \in DOMAIN p.work /\ w.at = "context"
    BY DEF FindTarget, At
  <2>2. w \in Work
    BY <2>1, AtBatch
  <2>3. failures' \in 0..MaxFailures
    BY WatchAssumption DEF FindTarget, Fails, WatchInv, WatchTypeOK
  <2> QED  BY <2>1, <2>2, <2>3 DEF Over, FindTarget, WatchInv, WatchTypeOK
<1>2. target \in Pages \cup {None}
  <2>1. w.page \in Pages
    BY <1>1 DEF Work
  <2> QED  BY <1>1, <2>1, TargetIsCandidate
<1>3. w.page \notin p.known
  BY <1>1 DEF WatchInv, CycleInv, KnownStaysKnown
<1> HIDE DEF target
<1>4. CASE Go(c, k, [w EXCEPT !.at = "emit", !.other = target])
  <2> DEFINE v == [w EXCEPT !.at = "emit", !.other = target]
  <2>1. v \in Work /\ v.at = "emit" /\ v.page = w.page
    BY <1>1, <1>2 DEF Work
  <2>2. Go(c, k, v)
    BY <1>4
  <2> HIDE DEF v, w
  <2> QED  BY <1>1, <1>3, <2>1, <2>2, EntryGoes DEF Over, w
<1>5. CASE Go(c, k, [w EXCEPT !.at = "emit"])
  <2> DEFINE v == [w EXCEPT !.at = "emit"]
  <2>1. v \in Work /\ v.at = "emit" /\ v.page = w.page
    BY <1>1 DEF Work
  <2>2. Go(c, k, v)
    BY <1>5
  <2> HIDE DEF v, w
  <2> QED  BY <1>1, <1>3, <2>1, <2>2, EntryGoes DEF Over, w
<1> QED  BY <1>4, <1>5 DEF FindTarget, target

LEMMA EmitTriggerKeeps == ASSUME WatchInv, NEW c \in Cycles, NEW k \in 1..detailFetchConcurrency, EmitTrigger(c, k) PROVE WatchInv'
<1> DEFINE p == poll[c]
           w == p.work[k]
<1>1. /\ p.at = "batch" /\ k \in DOMAIN p.work /\ w.at = "emit" /\ w.at \notin Over /\ w \in Work
      /\ UNCHANGED <<site, ingested, live, pollInProgress, rowCountHistory, changes>> /\ failures' \in 0..MaxFailures
      /\ triggers' = triggers \/ triggers' = triggers \cup {TriggerOf(c, k)}
  <2>1. p.at = "batch" /\ k \in DOMAIN p.work /\ w.at = "emit"
    BY DEF EmitTrigger, At
  <2>2. w \in Work
    BY <2>1, AtBatch
  <2>3. failures' \in 0..MaxFailures
    BY WatchAssumption DEF EmitTrigger, Fails, WatchInv, WatchTypeOK
  <2> QED  BY <2>1, <2>2, <2>3 DEF Over, EmitTrigger
<1>2. TriggerOf(c, k) \in RegulatoryWatchTriggerEvent
  <2>1. Place(p, k) \in Places
    BY <1>1, AtBatch
  <2>2. w.page \in Pages /\ w.type \in ChangeTypes /\ w.other \in Pages \cup {None}
    BY <1>1 DEF Work
  <2> HIDE DEF w
  <2> QED  BY <2>1, <2>2 DEF TriggerOf, RegulatoryWatchTriggerEvent, w
<1>3. triggers' \subseteq RegulatoryWatchTriggerEvent
  BY <1>1, <1>2 DEF WatchInv, WatchTypeOK
<1>4. CASE triggers' = triggers \cup {TriggerOf(c, k)} /\ Go(c, k, [w EXCEPT !.at = "true"])
  <2>1. Set(c, [p EXCEPT !.work[k].at = "true"])
    BY <1>1, <1>4, AtBatch DEF Go
  <2> QED  BY <1>1, <1>3, <1>4, <2>1, EntryDelivers
<1>5. CASE EntryError(c, k, "trigger_emit", {})
  BY <1>1, <1>3, <1>5, EntryFails DEF Stages
<1> QED  BY <1>4, <1>5 DEF EmitTrigger

LEMMA WatchNextKeeps == ASSUME WatchInv, WatchNext PROVE WatchInv'
<1>1. ASSUME NEW c \in Cycles, StartCycle(c) \/ FetchListing(c) \/ ListingFails(c) \/ EndBatch(c) \/ EndCycle(c) PROVE WatchInv'
  BY <1>1, StartCycleKeeps, FetchListingKeeps, ListingFailsKeeps, EndBatchKeeps, EndCycleKeeps
<1>2. ASSUME NEW c \in Cycles, NEW k \in 1..detailFetchConcurrency,
             FetchDetail(c, k) \/ CompareHash(c, k) \/ CompareTitles(c, k) \/ FindTarget(c, k) \/ EmitTrigger(c, k)
      PROVE  WatchInv'
  BY <1>2, FetchDetailKeeps, CompareHashKeeps, CompareTitlesKeeps, FindTargetKeeps, EmitTriggerKeeps
<1> QED  BY <1>1, <1>2, WorldKeeps DEF WatchNext

\* The invariant of the watch holds in every state (runPollCycle, processEntry).
THEOREM WatchInvAlways == WatchSpec => []WatchInv
<1>1. ASSUME WatchInv, UNCHANGED watchVars PROVE WatchInv'
  <2>1. UNCHANGED <<site, ingested, live, pollInProgress, poll, rowCountHistory, triggers, failures, changes>>
    BY <1>1 DEF watchVars
  <2>2. WatchTypeOK' /\ KnownIsNotNews'
    BY <1>1, <2>1 DEF WatchInv, WatchTypeOK, KnownIsNotNews
  <2>3. ASSUME NEW c \in Cycles PROVE CycleInv(c)'
    BY <1>1, <2>1, CycleStays
  <2> QED  BY <2>2, <2>3 DEF WatchInv
<1> QED  BY <1>1, WatchInitInv, WatchNextKeeps, PTL DEF WatchSpec

LEMMA WatchInvAccounts == WatchInv => NewsIsAccounted
<1> SUFFICES ASSUME WatchInv PROVE NewsIsAccounted
  OBVIOUS
<1>1. ASSUME NEW c \in Cycles, poll[c].at = "end"
      PROVE  /\ changes = 0 => \A u \in UrlIds : site[u] # <<>> => \E q \in Errors(c) \cup poll[c].seen : q[1] = u
             /\ poll[c].emptied \subseteq Errors(c)
             /\ poll[c].seen = Emitted(c) \cup {q \in Errors(c) : q[2] # 0} \cup poll[c].unchanged
             /\ poll[c].unchanged \cap (Emitted(c) \cup Errors(c)) = {}
             /\ poll[c].triggersEmitted = Cardinality(Emitted(c) \ Errors(c))
  <2> DEFINE p == poll[c]
  <2>1. /\ CycleInv(c) /\ p \in Poll /\ p.work = <<>> /\ p.url \notin UrlIds /\ p.url \in 1..(Len(Listings) + 1)
    BY <1>1 DEF WatchInv, WatchTypeOK, CycleInv, Progress, Poll
  <2>2. \A u \in UrlIds : u < p.url
    BY <2>1, PlacesAreNumbered
  <2>3. changes = 0 => \A u \in UrlIds : site[u] # <<>> => \E q \in Errors(c) \cup p.seen : q[1] = u
    BY <2>1, <2>2 DEF CycleInv, ListingsAreAnswered
  <2>4. p.emptied \subseteq Errors(c)
    BY <2>1 DEF CycleInv, ListingsAreAnswered
  <2>5. p.seen = Answered(c) /\ p.unchanged \cap (Emitted(c) \cup Errors(c)) = {}
    BY <1>1, <2>1 DEF CycleInv, EntriesHaveOneAnswer, Outstanding
  <2>6. p.triggersEmitted = Cardinality(Emitted(c) \ Errors(c))
    <3>1. Delivered(p) = {}
      BY <2>1 DEF Delivered
    <3>2. Cardinality(Delivered(p)) = 0 /\ p.triggersEmitted \in Nat
      BY <2>1, <3>1, FS_EmptySet DEF Poll
    <3>3. p.triggersEmitted + Cardinality(Delivered(p)) = Cardinality(Emitted(c) \ Errors(c))
      BY <2>1 DEF CycleInv, CountIsTrue
    <3> QED  BY <3>2, <3>3
  <2> QED  BY <2>3, <2>4, <2>5, <2>6 DEF Answered
<1>2. EntriesAreAccounted
  BY <1>1 DEF EntriesAreAccounted
<1>3. KnownIsNotNews
  BY DEF WatchInv
<1> QED  BY <1>2, <1>3 DEF NewsIsAccounted

\* The types of the watch's state.
THEOREM WatchTypesAlwaysHold == WatchSpec => []WatchTypeOK
<1>1. WatchInv => WatchTypeOK
  BY DEF WatchInv
<1> QED  BY <1>1, WatchInvAlways, PTL

\* Whatever fails, and however the listings and the graph change meanwhile, a
\* poll cycle that has ended has one answer for each listing and each entry it
\* saw, counts what it delivered, and reports a known circular only when it
\* has been superseded (runPollCycle, processEntry).
THEOREM NewsAlwaysAccounted == WatchSpec => []NewsIsAccounted
  BY WatchInvAlways, WatchInvAccounts, PTL

-----------------------------------------------------------------------------
(***************************************************************************)
(* The SLA monitor: the inductive invariant.                               *)
(***************************************************************************)
\* A scan, an upload and the sweep, as SlaTypeOK has them.
ScanType == [at: {"idle", "rows", "append"}, date: 0..MaxTime, rows: SUBSET Artifact,
             todo: SUBSET Tasks, task: Tasks \cup {None}, event: SlaEvents \cup {None}, since: Nat, lost: 0..MaxLost]

UploadType ==
  [at: {"new", "mismatch", "lookup", "duplicate", "write", "record", "ended"},
   task: Tasks \cup {None}, file: Contents \cup {None},
   uploadedAt: 0..MaxTime, artifact: Uploads \cup {None},
   answer: {None, "ingested", "duplicate", "hash_mismatch", "error"}]

SweepType ==
  [at: {"idle", "rows", "append", "done"}, read: SUBSET Artifact, todo: SUBSET Artifact, task: Tasks \cup {None},
   artifact: Uploads \cup {None}]

DatesArePast == \A i \in DOMAIN entries : entries[i].event \in SlaEvents => entries[i].date \in 0..now

\* A scan knows the evidence there was when it began, and what it is about to
\* report follows from it.
ScanFacts(s) ==
  LET m == scan[s]
  IN /\ m.date <= now
     /\ m.at # "idle" => \A a \in artifacts : a \in m.rows \/ a.recordedAt >= m.date
     /\ m.at = "append" =>
          /\ m.task \in Tasks /\ m.event \in SlaEvents
          /\ m.event = "SLA_APPROACHING" => SlaHours[m.task] > 0 /\ m.date <= SlaHours[m.task]
          /\ m.event = "SLA_BREACHED" =>
               /\ m.date > SlaHours[m.task] \/ SlaHours[m.task] <= 0
               /\ \A a \in m.rows : a.task # m.task

\* An upload writes its own artifact once, and knows the one it appends for.
UploadFacts(u) ==
  LET m == upload[u]
  IN /\ m.at # "new" => m.task \in Tasks /\ m.file \in Contents
     /\ m.at # "ended" => m.answer = None
     /\ m.at = "record" => m.artifact = u
     /\ m.at \in {"record", "duplicate"} =>
          \E a \in artifacts : a.id = m.artifact /\ a.task = m.task /\ a.file = m.file
     /\ m.at \in {"new", "mismatch", "lookup", "duplicate", "write"} => \A a \in artifacts : a.id # u

\* What a sweep has read and no longer has to look at is in the ledger.
SweepFacts ==
  /\ sweep.at # "idle" =>
       /\ sweep.read \subseteq artifacts /\ sweep.todo \subseteq sweep.read
       /\ \A a \in sweep.read : Recorded(a.id) \/ a \in sweep.todo
  /\ sweep.at = "append" => \E a \in artifacts : a.id = sweep.artifact /\ a.task = sweep.task
  /\ sweep.at = "done" => sweep.todo = {}

SlaInv ==
  /\ SlaTypeOK
  /\ DatesArePast
  /\ BreachesAreTrue
  /\ IngestedEntriesNameArtifacts
  /\ AnswersAreKept
  /\ \A s \in Scanners : ScanFacts(s)
  /\ \A u \in Uploads : UploadFacts(u)
  /\ SweepFacts

\* A scan has seen the SLA entries there were when it began.  It writes once of
\* each task, but for a report whose answer was lost, and no event that was the
\* task's last unless another scan has written of the task since.
ScanIsUpToDate(s) ==
  LET m == scan[s]
  IN m.at # "idle" =>
       /\ m.since <= Len(entries)
       /\ \A i \in DOMAIN entries : entries[i].event \in SlaEvents /\ i <= m.since => entries[i].date <= m.date
       /\ \A i \in DOMAIN entries : entries[i].event \in SlaEvents /\ i > m.since /\ entries[i].by = s /\ entries[i].task \in m.todo =>
            m.at = "append" /\ entries[i] = Transition(s)
       /\ m.at = "append" =>
            /\ m.task \in m.todo
            /\ (\A i \in SlaEntriesOf(m.task) : i <= m.since) => LatestSlaEvent(m.task) # m.event

SlaOrder == SlaEntriesGoForward /\ \A s \in Scanners : ScanIsUpToDate(s)

-----------------------------------------------------------------------------
(***************************************************************************)
(* The ledger.                                                             *)
(***************************************************************************)
LEMMA AppendAdds ==
  ASSUME SlaTypeOK, NEW e \in Entry, Append1(e)
  PROVE  /\ entries' \in Seq(Entry)
         /\ DOMAIN entries' = DOMAIN entries \cup {Len(entries) + 1}
         /\ \A i \in DOMAIN entries : i \in Nat /\ i < Len(entries) + 1 /\ entries'[i] = entries[i]
         /\ entries'[Len(entries) + 1] = e
  BY DEF SlaTypeOK, Append1

LEMMA LastSlaEntryIsLast ==
  ASSUME SlaTypeOK
  PROVE  LastSlaEntry \in Nat /\ LastSlaEntry <= Len(entries) /\ \A i \in DOMAIN entries : entries[i].event \in SlaEvents => i <= LastSlaEntry
<1> DEFINE all == {i \in DOMAIN entries : entries[i].event \in SlaEvents}
<1>1. Len(entries) \in Nat /\ all \subseteq 1..Len(entries)
  BY DEF SlaTypeOK
<1>2. all # {} => Max(all) \in all /\ \A i \in all : Max(all) >= i
  BY <1>1, MaxOfNumbers
<1> QED  BY <1>1, <1>2 DEF LastSlaEntry

LEMMA RecordsStay == ASSUME SlaTypeOK, NEW e \in Entry, Append1(e), NEW id, Recorded(id) PROVE Recorded(id)'
  BY AppendAdds DEF Recorded

-----------------------------------------------------------------------------
(***************************************************************************)
(* The invariant.                                                          *)
(***************************************************************************)
LEMMA SlaInitInv == SlaInit => SlaInv
<1> SUFFICES ASSUME SlaInit PROVE SlaInv
  OBVIOUS
<1>1. SlaTypeOK
  BY SlaAssumption DEF SlaInit, SlaTypeOK, NoScan, NoUpload, NoSweep
<1>2. DatesArePast /\ BreachesAreTrue /\ IngestedEntriesNameArtifacts
  BY DEF SlaInit, DatesArePast, BreachesAreTrue, IngestedEntriesNameArtifacts
<1>3. AnswersAreKept
  BY SlaAssumption DEF SlaInit, AnswersAreKept, NoUpload
<1>4. \A s \in Scanners : ScanFacts(s)
  BY DEF SlaInit, ScanFacts, NoScan
<1>5. \A u \in Uploads : UploadFacts(u)
  BY DEF SlaInit, UploadFacts, NoUpload
<1>6. SweepFacts
  BY DEF SlaInit, SweepFacts, NoSweep
<1> QED  BY <1>1, <1>2, <1>3, <1>4, <1>5, <1>6 DEF SlaInv

LEMMA TickKeeps == ASSUME SlaInv, SlaTick PROVE SlaInv'
<1> USE DEF SlaTick
<1>1. SlaTypeOK' /\ now' \in Nat /\ now < now' /\ now \in Nat
  BY SlaAssumption DEF SlaInv, SlaTypeOK
<1>2. DatesArePast' /\ BreachesAreTrue' /\ IngestedEntriesNameArtifacts' /\ AnswersAreKept'
  BY <1>1 DEF SlaInv, DatesArePast, BreachesAreTrue, IngestedEntriesNameArtifacts, AnswersAreKept
<1>3. ASSUME NEW s \in Scanners PROVE ScanFacts(s)'
  BY <1>1, <1>3, SlaAssumption DEF SlaInv, ScanFacts, SlaTypeOK
<1>4. ASSUME NEW u \in Uploads PROVE UploadFacts(u)'
  BY <1>4 DEF SlaInv, UploadFacts
<1>5. SweepFacts'
  BY DEF SlaInv, SweepFacts, Recorded
<1> QED  BY <1>1, <1>2, <1>3, <1>4, <1>5 DEF SlaInv

\* Steps that change neither the graph nor the ledger, nor the clock.
LEMMA QuietStepKeeps ==
  ASSUME SlaInv, UNCHANGED <<now, artifacts, entries>>
  PROVE  /\ DatesArePast' /\ BreachesAreTrue' /\ IngestedEntriesNameArtifacts'
         /\ upload' = upload => AnswersAreKept'
         /\ \A s \in Scanners : scan'[s] = scan[s] => ScanFacts(s)'
         /\ \A u \in Uploads : upload'[u] = upload[u] => UploadFacts(u)'
         /\ sweep' = sweep => SweepFacts'
<1>1. DatesArePast' /\ BreachesAreTrue' /\ IngestedEntriesNameArtifacts'
  BY DEF SlaInv, DatesArePast, BreachesAreTrue, IngestedEntriesNameArtifacts
<1>2. upload' = upload => AnswersAreKept'
  BY DEF SlaInv, AnswersAreKept
<1>3. ASSUME NEW s \in Scanners, scan'[s] = scan[s] PROVE ScanFacts(s)'
  BY <1>3 DEF SlaInv, ScanFacts
<1>4. ASSUME NEW u \in Uploads, upload'[u] = upload[u] PROVE UploadFacts(u)'
  BY <1>4 DEF SlaInv, UploadFacts
<1>5. sweep' = sweep => SweepFacts'
  BY DEF SlaInv, SweepFacts, Recorded
<1> QED  BY <1>1, <1>2, <1>3, <1>4, <1>5

\* Steps that append e and change neither the graph nor the clock.
LEMMA AppendKeeps ==
  ASSUME SlaInv, NEW e \in Entry, Append1(e), UNCHANGED <<now, artifacts>>,
         e.event \in SlaEvents => e.date \in 0..now,
         e.event = "SLA_BREACHED" =>
           /\ e.date > Deadline(e.task) \/ SlaHours[e.task] <= 0
           /\ \A a \in artifacts : a.task = e.task => a.recordedAt >= e.date,
         e.event = "EVIDENCE_ARTIFACT_INGESTED" => \E a \in artifacts : a.id = e.artifact /\ a.task = e.task
  PROVE  /\ DatesArePast' /\ BreachesAreTrue' /\ IngestedEntriesNameArtifacts'
         /\ upload' = upload => AnswersAreKept'
         /\ \A s \in Scanners : scan'[s] = scan[s] => ScanFacts(s)'
         /\ \A u \in Uploads : upload'[u] = upload[u] => UploadFacts(u)'
         /\ sweep' = sweep => SweepFacts'
<1> USE DEF SlaInv
<1>1. DatesArePast'
  BY AppendAdds DEF DatesArePast
<1>2. BreachesAreTrue'
  BY AppendAdds DEF BreachesAreTrue
<1>3. IngestedEntriesNameArtifacts'
  BY AppendAdds DEF IngestedEntriesNameArtifacts
<1>4. ASSUME upload' = upload PROVE AnswersAreKept'
  BY AppendAdds, <1>4 DEF AnswersAreKept
<1>5. ASSUME NEW s \in Scanners, scan'[s] = scan[s] PROVE ScanFacts(s)'
  BY <1>5 DEF ScanFacts
<1>6. ASSUME NEW u \in Uploads, upload'[u] = upload[u] PROVE UploadFacts(u)'
  BY <1>6 DEF UploadFacts
<1>7. ASSUME sweep' = sweep PROVE SweepFacts'
  BY RecordsStay, <1>7 DEF SweepFacts
<1> QED  BY <1>1, <1>2, <1>3, <1>4, <1>5, <1>6, <1>7

-----------------------------------------------------------------------------
(***************************************************************************)
(* The steps of a scan.                                                    *)
(***************************************************************************)
LEMMA TransitionIsEntry ==
  ASSUME SlaInv, NEW s \in Scanners, scan[s].at = "append"
  PROVE  /\ Transition(s) \in Entry /\ Transition(s).date \in 0..now
         /\ Transition(s).event \in SlaEvents /\ Transition(s).task \in Tasks
<1>1. /\ scan[s].event \in SlaEvents /\ scan[s].task \in Tasks /\ scan[s].date \in 0..MaxTime /\ scan[s].date <= now
      /\ scan[s].since \in Nat /\ now \in Nat
  BY SlaAssumption DEF SlaInv, SlaTypeOK, ScanFacts
<1> QED  BY <1>1, SlaAssumption DEF Transition, Entry, SlaEvents

LEMMA ScanKeeps ==
  ASSUME SlaInv, NEW s \in Scanners, Scanning,
         UNCHANGED entries \/ AppendTransition(s) \/ AppendUnanswered(s), SlaTypeOK',
         \A q \in Scanners \ {s} : scan'[q] = scan[q], ScanFacts(s)'
  PROVE  SlaInv'
<1>1. CASE UNCHANGED entries
  BY <1>1, QuietStepKeeps DEF SlaInv, Scanning
<1>2. CASE AppendTransition(s) \/ AppendUnanswered(s)
  <2> DEFINE e == Transition(s)
  <2>1. e \in Entry /\ e.date \in 0..now
    BY <1>2, TransitionIsEntry DEF AppendTransition, AppendUnanswered
  <2>2. e.event = "SLA_BREACHED" =>
           /\ e.date > Deadline(e.task) \/ SlaHours[e.task] <= 0
           /\ \A a \in artifacts : a.task = e.task => a.recordedAt >= e.date
    BY <1>2 DEF AppendTransition, AppendUnanswered, Transition, SlaInv, ScanFacts, Deadline
  <2>3. e.event # "EVIDENCE_ARTIFACT_INGESTED"
    BY <1>2 DEF AppendTransition, AppendUnanswered, Transition, SlaInv, ScanFacts, SlaEvents
  <2>4. Append1(e)
    BY <1>2 DEF AppendTransition, AppendUnanswered
  <2> HIDE DEF e
  <2> QED  BY <2>1, <2>2, <2>3, <2>4, AppendKeeps DEF SlaInv, Scanning
<1> QED  BY <1>1, <1>2

LEMMA ReadRowsKeeps == ASSUME SlaInv, NEW s \in Scanners, ReadRows(s) PROVE SlaInv'
<1>1. SlaTypeOK'
  <2> DEFINE m == [NoScan EXCEPT !.at = "rows", !.date = now, !.rows = artifacts, !.todo = Tasks, !.since = LastSlaEntry]
  <2>1. LastSlaEntry \in Nat /\ 0 \in 0..MaxLost /\ now \in 0..MaxTime /\ artifacts \subseteq Artifact
    BY LastSlaEntryIsLast, SlaAssumption DEF SlaInv, SlaTypeOK
  <2>2. m \in ScanType
    BY <2>1 DEF NoScan, ScanType
  <2>3. scan' = [scan EXCEPT ![s] = m] /\ UNCHANGED <<now, artifacts, entries, upload, sweep>>
    BY DEF ReadRows, Scanning
  <2> HIDE DEF m
  <2> QED  BY <2>2, <2>3 DEF SlaInv, SlaTypeOK, ScanType
<1>2. ScanFacts(s)'
  BY SlaAssumption DEF SlaInv, SlaTypeOK, ReadRows, Scanning, NoScan, ScanFacts
<1> QED  BY <1>1, <1>2, ScanKeeps DEF ReadRows, SlaInv, SlaTypeOK

LEMMA LeaveRowKeeps ==
  ASSUME SlaInv, NEW s \in Scanners, NEW t \in Tasks, LeaveRow(s, t), scan[s].at # "idle", UNCHANGED <<now, artifacts>>
  PROVE  /\ scan' \in [Scanners -> ScanType]
         /\ \A q \in Scanners \ {s} : scan'[q] = scan[q]
         /\ ScanFacts(s)'
<1> DEFINE rest == scan[s].todo \ {t}
           left == [scan[s] EXCEPT !.at = "rows", !.todo = rest, !.task = None, !.event = None, !.lost = 0]
           m == IF rest = {} THEN NoScan ELSE left
<1>1. scan' = [scan EXCEPT ![s] = m]
  BY DEF LeaveRow
<1>2. scan[s] \in ScanType
  BY DEF SlaInv, SlaTypeOK, ScanType
<1>3. /\ left \in ScanType
      /\ left.at = "rows" /\ left.date = scan[s].date /\ left.rows = scan[s].rows
  <2>1. 0 \in 0..MaxLost
    BY SlaAssumption
  <2> QED  BY <1>2, <2>1 DEF ScanType
<1>4. NoScan \in ScanType /\ NoScan.at = "idle" /\ NoScan.date = 0
  BY SlaAssumption DEF ScanType, NoScan
<1> HIDE DEF left
<1>5. m \in ScanType
  BY <1>3, <1>4
<1> HIDE DEF m
<1>6. scan' \in [Scanners -> ScanType]
  BY <1>1, <1>5 DEF SlaInv, SlaTypeOK, ScanType
<1>7. scan'[s] = m
  BY <1>1 DEF SlaInv, SlaTypeOK
<1>8. /\ m.at = "idle" \/ (m.at = "rows" /\ m.rows = scan[s].rows /\ m.date = scan[s].date)
      /\ m.date <= now
  BY <1>3, <1>4, SlaAssumption DEF m, ScanFacts, SlaInv, SlaTypeOK
<1>9. ScanFacts(s)'
  BY <1>7, <1>8 DEF ScanFacts, SlaInv
<1> QED  BY <1>1, <1>6, <1>9 DEF SlaInv, SlaTypeOK

\* What the classification of a row means for its event.
LEMMA EventMeans ==
  ASSUME NEW t \in Tasks, NEW held, NEW date \in Nat, NEW event, event = SlaEventOf(ClassifySlaStatus(t, held, date)), event # None
  PROVE  /\ event \in SlaEvents
         /\ event = "SLA_APPROACHING" => SlaHours[t] > 0 /\ date <= SlaHours[t]
         /\ event = "SLA_BREACHED" => held = {} /\ (date > SlaHours[t] \/ SlaHours[t] <= 0)
<1>1. SlaHours[t] \in Int
  BY SlaAssumption
<1>2. CASE SlaHours[t] <= 0
  BY <1>1, <1>2, SlaAssumption DEF SlaEventOf, ClassifySlaStatus, SlaEvents
<1>3. CASE SlaHours[t] > 0 /\ held # {}
  BY <1>1, <1>3, SlaAssumption DEF SlaEventOf, ClassifySlaStatus, SlaEvents, Deadline
<1>4. CASE SlaHours[t] > 0 /\ held = {}
  BY <1>1, <1>4, SlaAssumption DEF SlaEventOf, ClassifySlaStatus, SlaEvents, Deadline, NearDeadline
<1> QED  BY <1>1, <1>2, <1>3, <1>4

LEMMA ClassifyRowKeeps == ASSUME SlaInv, NEW s \in Scanners, NEW t \in Tasks, ClassifyRow(s, t) PROVE SlaInv'
<1> DEFINE held == {a \in scan[s].rows : a.task = t}
           event == RowEvent(s, t)
<1>1. scan[s].date \in Nat /\ scan[s].at = "rows" /\ scan[s] \in ScanType
  BY DEF ClassifyRow, SlaInv, SlaTypeOK, ScanType
<1>2. CASE event = None \/ LatestSlaEvent(t) = event
  <2>1. LeaveRow(s, t) /\ Scanning /\ UNCHANGED entries
    BY <1>2 DEF ClassifyRow
  <2> QED  BY <1>1, <2>1, LeaveRowKeeps, ScanKeeps DEF SlaInv, SlaTypeOK, ScanType, Scanning
<1>3. CASE ~(event = None \/ LatestSlaEvent(t) = event)
  <2>1. scan' = [scan EXCEPT ![s].at = "append", ![s].task = t, ![s].event = event] /\ Scanning /\ UNCHANGED entries
    BY <1>3 DEF ClassifyRow
  <2>2. /\ event \in SlaEvents
        /\ event = "SLA_APPROACHING" => SlaHours[t] > 0 /\ scan[s].date <= SlaHours[t]
        /\ event = "SLA_BREACHED" => held = {} /\ (scan[s].date > SlaHours[t] \/ SlaHours[t] <= 0)
    BY <1>1, <1>3, EventMeans DEF RowEvent
  <2> HIDE DEF event
  <2>3. SlaTypeOK'
    BY <1>1, <2>1, <2>2 DEF SlaInv, SlaTypeOK, ScanType, Scanning
  <2>4. ScanFacts(s)'
    BY <1>1, <2>1, <2>2 DEF SlaInv, SlaTypeOK, ScanType, ScanFacts, Scanning
  <2> QED  BY <2>1, <2>3, <2>4, ScanKeeps DEF SlaInv, SlaTypeOK
<1> QED  BY <1>2, <1>3

LEMMA AppendTransitionKeeps == ASSUME SlaInv, NEW s \in Scanners, AppendTransition(s) PROVE SlaInv'
<1>1. scan[s].task \in Tasks /\ scan[s].at = "append" /\ LeaveRow(s, scan[s].task) /\ Scanning
  BY DEF AppendTransition, SlaInv, ScanFacts
<1>2. Transition(s) \in Entry /\ Append1(Transition(s))
  BY <1>1, TransitionIsEntry DEF AppendTransition
<1>3. entries' \in Seq(Entry)
  BY <1>2, AppendAdds DEF SlaInv
<1>4. SlaTypeOK' /\ ScanFacts(s)' /\ \A q \in Scanners \ {s} : scan'[q] = scan[q]
  BY <1>1, <1>3, LeaveRowKeeps DEF SlaInv, SlaTypeOK, ScanType, Scanning
<1> QED  BY <1>1, <1>4, ScanKeeps

LEMMA AppendUnansweredKeeps == ASSUME SlaInv, NEW s \in Scanners, AppendUnanswered(s) PROVE SlaInv'
<1>1. /\ scan[s].at = "append" /\ Append1(Transition(s)) /\ scan' = [scan EXCEPT ![s].lost = @ + 1] /\ Scanning
      /\ scan[s] \in ScanType /\ scan[s].lost + 1 \in 0..MaxLost
  BY SlaAssumption DEF AppendUnanswered, SlaInv, SlaTypeOK, ScanType
<1>2. entries' \in Seq(Entry)
  BY <1>1, TransitionIsEntry, AppendAdds DEF SlaInv
<1>3. SlaTypeOK' /\ ScanFacts(s)' /\ \A q \in Scanners \ {s} : scan'[q] = scan[q]
  <2> DEFINE m == [scan[s] EXCEPT !.lost = @ + 1]
  <2>1. m \in ScanType /\ scan' = [scan EXCEPT ![s] = m]
    BY <1>1 DEF ScanType
  <2>2. /\ m.at = scan[s].at /\ m.date = scan[s].date /\ m.rows = scan[s].rows /\ m.task = scan[s].task
        /\ m.event = scan[s].event
    BY <1>1 DEF ScanType
  <2> HIDE DEF m
  <2>3. scan' \in [Scanners -> ScanType] /\ scan'[s] = m /\ \A q \in Scanners \ {s} : scan'[q] = scan[q]
    BY <2>1 DEF SlaInv, SlaTypeOK, ScanType
  <2>4. SlaTypeOK'
    BY <1>1, <1>2, <2>3 DEF SlaInv, SlaTypeOK, ScanType, Scanning
  <2>5. ScanFacts(s)'
    BY <1>1, <2>2, <2>3 DEF SlaInv, ScanFacts, Scanning
  <2> QED  BY <2>3, <2>4, <2>5
<1> QED  BY <1>1, <1>3, ScanKeeps

LEMMA ScanFailsKeeps == ASSUME SlaInv, NEW s \in Scanners, ScanFails(s) PROVE SlaInv'
<1>1. SlaTypeOK'
  BY SlaAssumption DEF SlaInv, SlaTypeOK, ScanFails, Scanning, NoScan
<1>2. ScanFacts(s)'
  BY SlaAssumption DEF SlaInv, SlaTypeOK, ScanFails, Scanning, NoScan, ScanFacts
<1> QED  BY <1>1, <1>2, ScanKeeps DEF ScanFails, SlaInv, SlaTypeOK

-----------------------------------------------------------------------------
(***************************************************************************)
(* The steps of an upload.                                                 *)
(***************************************************************************)
\* A step of an upload that appends nothing, or an entry e of its own.
LEMMA UploadKeeps ==
  ASSUME SlaInv, NEW u \in Uploads, Uploading, UNCHANGED artifacts, SlaTypeOK',
         \A v \in Uploads \ {u} : upload'[v] = upload[v], UploadFacts(u)',
         \/ /\ UNCHANGED entries
            /\ upload'[u].answer \notin {"ingested", "duplicate", "hash_mismatch"}
         \/ \E e \in Entry :
              /\ Append1(e) /\ e.event \notin SlaEvents /\ e.by = u
              /\ e.event = "EVIDENCE_ARTIFACT_INGESTED" => \E a \in artifacts : a.id = e.artifact /\ a.task = e.task
              /\ upload'[u].answer \in {"ingested", "duplicate"} =>
                   /\ e.artifact = upload'[u].artifact
                   /\ \E a \in artifacts : a.task = upload'[u].task /\ a.file = upload'[u].file
              /\ upload'[u].answer = "hash_mismatch" => \A a \in artifacts : a.id # u
  PROVE  SlaInv'
<1>1. CASE UNCHANGED entries /\ upload'[u].answer \notin {"ingested", "duplicate", "hash_mismatch"}
  <2>1. AnswersAreKept'
    BY <1>1 DEF AnswersAreKept, SlaInv
  <2> QED  BY <1>1, <2>1, QuietStepKeeps DEF SlaInv, Uploading
<1>2. ASSUME NEW e \in Entry,
             Append1(e), e.event \notin SlaEvents, e.by = u,
             e.event = "EVIDENCE_ARTIFACT_INGESTED" => \E a \in artifacts : a.id = e.artifact /\ a.task = e.task,
             upload'[u].answer \in {"ingested", "duplicate"} =>
                   /\ e.artifact = upload'[u].artifact
                   /\ \E a \in artifacts : a.task = upload'[u].task /\ a.file = upload'[u].file,
             upload'[u].answer = "hash_mismatch" => \A a \in artifacts : a.id # u
      PROVE  SlaInv'
  <2>1. SUFFICES ASSUME NEW v \in Uploads
                 PROVE  /\ upload'[v].answer \in {"ingested", "duplicate"} =>
                             /\ \E a \in artifacts : a.task = upload'[v].task /\ a.file = upload'[v].file
                             /\ \E i \in DOMAIN entries' : entries'[i].by = v /\ entries'[i].artifact = upload'[v].artifact
                        /\ upload'[v].answer = "hash_mismatch" => ~\E a \in artifacts : a.id = v
    BY <1>2, AppendKeeps DEF SlaInv, Uploading, AnswersAreKept, SlaEvents
  <2>2. CASE v = u
    BY <1>2, <2>2, AppendAdds DEF SlaInv
  <2>3. CASE v # u
    BY <1>2, <2>3, AppendAdds DEF SlaInv, AnswersAreKept
  <2> QED  BY <2>2, <2>3
<1> QED  BY <1>1, <1>2

LEMMA SubmitKeeps ==
  ASSUME SlaInv, NEW u \in Uploads, NEW t \in Tasks, NEW f \in Contents, NEW date \in {0, now}, NEW claimHolds \in BOOLEAN,
         Submit(u, t, f, date, claimHolds)
  PROVE  SlaInv'
<1> DEFINE point == IF claimHolds THEN "lookup" ELSE "mismatch"
           m == [NoUpload EXCEPT !.at = point, !.task = t, !.file = f, !.uploadedAt = date]
<1>1. /\ upload' = [upload EXCEPT ![u] = m] /\ UNCHANGED <<artifacts, entries>> /\ Uploading
      /\ m.task = t /\ m.file = f /\ m.answer = None /\ m.at \in {"lookup", "mismatch"}
      /\ upload[u].at = "new" /\ m \in UploadType
  <2>1. upload' = [upload EXCEPT ![u] = m] /\ UNCHANGED <<artifacts, entries>> /\ Uploading /\ upload[u].at = "new"
    BY DEF Submit
  <2>2. date \in 0..MaxTime /\ point \in {"lookup", "mismatch"}
    BY SlaAssumption DEF SlaInv, SlaTypeOK
  <2> HIDE DEF point
  <2>3. NoUpload \in UploadType /\ NoUpload.answer = None
    BY SlaAssumption DEF NoUpload, UploadType
  <2>4. m.task = t /\ m.file = f /\ m.answer = None /\ m.at = point /\ m \in UploadType
    BY <2>2, <2>3 DEF UploadType
  <2> HIDE DEF m
  <2> QED  BY <2>1, <2>2, <2>3, <2>4
<1> HIDE DEF m
<1>2. SlaTypeOK'
  BY <1>1 DEF SlaInv, SlaTypeOK, UploadType, Uploading
<1>3. UploadFacts(u)'
  BY <1>1 DEF SlaInv, SlaTypeOK, UploadFacts
<1>4. upload'[u].answer \notin {"ingested", "duplicate", "hash_mismatch"}
  BY <1>1, SlaAssumption DEF SlaInv, SlaTypeOK
<1> QED  BY <1>1, <1>2, <1>3, <1>4, UploadKeeps DEF SlaInv, SlaTypeOK

LEMMA LookUpDuplicateKeeps == ASSUME SlaInv, NEW u \in Uploads, LookUpDuplicate(u) PROVE SlaInv'
<1>1. /\ UNCHANGED <<artifacts, entries>> /\ Uploading
      /\ upload[u].at = "lookup" /\ upload[u] \in UploadType /\ upload[u].answer = None
  BY DEF LookUpDuplicate, SlaInv, SlaTypeOK, UploadType, UploadFacts
<1>2. PICK m \in UploadType :
        /\ upload' = [upload EXCEPT ![u] = m]
        /\ m.task = upload[u].task /\ m.file = upload[u].file /\ m.answer = None
        /\ \/ m.at = "write"
           \/ m.at = "duplicate" /\ \E a \in artifacts : a.id = m.artifact /\ a.task = m.task /\ a.file = m.file
  <2>1. CASE upload' = [upload EXCEPT ![u].at = "write"]
    <3> DEFINE m == [upload[u] EXCEPT !.at = "write"]
    <3>1. m \in UploadType /\ m.task = upload[u].task /\ m.file = upload[u].file /\ m.answer = None /\ m.at = "write"
      BY <1>1 DEF UploadType
    <3>2. upload' = [upload EXCEPT ![u] = m]
      BY <2>1 DEF SlaInv, SlaTypeOK
    <3> HIDE DEF m
    <3> QED  BY <3>1, <3>2
  <2>2. ASSUME NEW a \in artifacts, a.task = upload[u].task, a.file = upload[u].file,
               upload' = [upload EXCEPT ![u].at = "duplicate", ![u].artifact = a.id]
        PROVE  \E m \in UploadType :
        /\ upload' = [upload EXCEPT ![u] = m]
        /\ m.task = upload[u].task /\ m.file = upload[u].file /\ m.answer = None
        /\ \/ m.at = "write"
           \/ m.at = "duplicate" /\ \E b \in artifacts : b.id = m.artifact /\ b.task = m.task /\ b.file = m.file
    <3> DEFINE m == [upload[u] EXCEPT !.at = "duplicate", !.artifact = a.id]
    <3>1. a.id \in Uploads
      BY DEF SlaInv, SlaTypeOK, Artifact
    <3>2. /\ m \in UploadType /\ m.task = upload[u].task /\ m.file = upload[u].file /\ m.answer = None /\ m.at = "duplicate"
          /\ m.artifact = a.id
      BY <1>1, <3>1 DEF UploadType
    <3>3. upload' = [upload EXCEPT ![u] = m]
      BY <2>2 DEF SlaInv, SlaTypeOK
    <3> HIDE DEF m
    <3> QED  BY <2>2, <3>2, <3>3, ZenonT(60)
  <2> QED  BY <2>1, <2>2 DEF LookUpDuplicate
<1>3. SlaTypeOK'
  BY <1>1, <1>2 DEF SlaInv, SlaTypeOK, UploadType, Uploading
<1>4. upload'[u] = m
  BY <1>2 DEF SlaInv, SlaTypeOK
<1>5. UploadFacts(u)'
  BY <1>1, <1>2, <1>4 DEF SlaInv, UploadFacts
<1>6. upload'[u].answer \notin {"ingested", "duplicate", "hash_mismatch"}
  BY <1>2, <1>4, SlaAssumption
<1> QED  BY <1>1, <1>2, <1>3, <1>5, <1>6, UploadKeeps DEF SlaInv, SlaTypeOK

LEMMA WriteArtifactKeeps == ASSUME SlaInv, NEW u \in Uploads, WriteArtifact(u) PROVE SlaInv'
<1> DEFINE m == [upload[u] EXCEPT !.at = "record", !.artifact = u]
           b == [id |-> u, task |-> upload[u].task, file |-> upload[u].file, uploadedAt |-> upload[u].uploadedAt, recordedAt |-> now]
<1>1. /\ UNCHANGED entries /\ Uploading /\ upload[u].at = "write" /\ upload[u] \in UploadType
      /\ artifacts' = artifacts \cup {b} /\ upload[u].task \in Tasks /\ upload[u].file \in Contents /\ upload[u].answer = None
      /\ now \in Nat
  BY SlaAssumption DEF WriteArtifact, SlaInv, SlaTypeOK, UploadType, UploadFacts
<1>2. /\ upload' = [upload EXCEPT ![u] = m] /\ m \in UploadType
      /\ m.task = upload[u].task /\ m.file = upload[u].file /\ m.answer = None /\ m.at = "record" /\ m.artifact = u
  BY <1>1 DEF WriteArtifact, SlaInv, SlaTypeOK, UploadType
<1>3. b \in Artifact /\ b.id = u /\ b.task = m.task /\ b.file = m.file /\ b.recordedAt = now
  BY <1>1, <1>2 DEF UploadType, Artifact, SlaInv, SlaTypeOK
<1> HIDE DEF m, b
<1>4. SlaTypeOK'
  BY <1>1, <1>2, <1>3 DEF SlaInv, SlaTypeOK, UploadType, Uploading
<1>5. upload'[u] = m /\ \A v \in Uploads \ {u} : upload'[v] = upload[v]
  BY <1>2 DEF SlaInv, SlaTypeOK
<1>6. DatesArePast' /\ IngestedEntriesNameArtifacts'
  BY <1>1 DEF SlaInv, DatesArePast, IngestedEntriesNameArtifacts, Uploading
<1>7. BreachesAreTrue'
  BY <1>1, <1>3 DEF SlaInv, BreachesAreTrue, DatesArePast, SlaEvents
<1>8. AnswersAreKept'
  <2>1. SUFFICES ASSUME NEW v \in Uploads
                 PROVE  /\ upload'[v].answer \in {"ingested", "duplicate"} =>
                             /\ \E a \in artifacts' : a.task = upload'[v].task /\ a.file = upload'[v].file
                             /\ \E i \in DOMAIN entries' : entries'[i].by = v /\ entries'[i].artifact = upload'[v].artifact
                        /\ upload'[v].answer = "hash_mismatch" => ~\E a \in artifacts' : a.id = v
    BY DEF AnswersAreKept
  <2>2. CASE v = u
    BY <1>2, <1>5, <2>2, SlaAssumption
  <2>3. CASE v # u
    BY <1>1, <1>3, <1>5, <2>3 DEF SlaInv, AnswersAreKept
  <2> QED  BY <2>2, <2>3
<1>9. ASSUME NEW s \in Scanners PROVE ScanFacts(s)'
  BY <1>1, <1>3 DEF SlaInv, ScanFacts, Uploading
<1>10. ASSUME NEW v \in Uploads PROVE UploadFacts(v)'
  <2>1. CASE v = u
    BY <1>1, <1>2, <1>3, <1>5, <2>1 DEF UploadFacts
  <2>2. CASE v # u
    BY <1>1, <1>3, <1>5, <2>2 DEF SlaInv, UploadFacts
  <2> QED  BY <2>1, <2>2
<1>11. SweepFacts'
  BY <1>1 DEF SlaInv, SweepFacts, Recorded, Uploading
<1> QED  BY <1>4, <1>6, <1>7, <1>8, <1>9, <1>10, <1>11 DEF SlaInv

\* The end of an upload keeps what it is about.
LEMMA EndOfUpload ==
  ASSUME SlaInv, NEW u \in Uploads, NEW answer \in {"ingested", "duplicate", "hash_mismatch", "error"}, End(u, answer)
  PROVE  /\ upload' \in [Uploads -> UploadType]
         /\ \A v \in Uploads \ {u} : upload'[v] = upload[v]
         /\ upload'[u].answer = answer /\ upload'[u].at = "ended"
         /\ upload'[u].task = upload[u].task /\ upload'[u].file = upload[u].file /\ upload'[u].artifact = upload[u].artifact
<1> DEFINE m == [upload[u] EXCEPT !.at = "ended", !.answer = answer, !.uploadedAt = 0]
<1>1. upload' = [upload EXCEPT ![u] = m]
  BY DEF End, SlaInv, SlaTypeOK
<1>2. upload[u] \in UploadType /\ 0 \in 0..MaxTime
  BY SlaAssumption DEF SlaInv, SlaTypeOK, UploadType
<1>3. /\ m \in UploadType
      /\ m.task = upload[u].task /\ m.file = upload[u].file /\ m.answer = answer /\ m.at = "ended" /\ m.artifact = upload[u].artifact
  BY <1>2 DEF UploadType
<1> HIDE DEF m
<1> QED  BY <1>1, <1>3 DEF SlaInv, SlaTypeOK, UploadType

LEMMA AppendIngestedKeeps == ASSUME SlaInv, NEW u \in Uploads, AppendIngested(u) PROVE SlaInv'
<1> DEFINE e == IngestedEntry(upload[u].task, upload[u].artifact, u)
           answer == IF upload[u].at = "record" THEN "ingested" ELSE "duplicate"
<1>1. /\ upload[u].at \in {"record", "duplicate"} /\ UNCHANGED artifacts /\ Uploading /\ Append1(e) /\ End(u, answer)
      /\ upload[u].task \in Tasks
      /\ \E a \in artifacts : a.id = upload[u].artifact /\ a.task = upload[u].task /\ a.file = upload[u].file
  BY DEF AppendIngested, SlaInv, UploadFacts
<1>2. /\ e \in Entry /\ e.event \notin SlaEvents /\ e.by = u /\ e.artifact = upload[u].artifact /\ e.task = upload[u].task
  BY <1>1 DEF IngestedEntry, Entry, SlaEvents, SlaInv, SlaTypeOK
<1>3. answer \in {"ingested", "duplicate"}
  OBVIOUS
<1> HIDE DEF e, answer
<1>4. SlaTypeOK'
  BY <1>1, <1>2, <1>3, EndOfUpload, AppendAdds DEF SlaInv, SlaTypeOK, UploadType, Uploading
<1>5. UploadFacts(u)'
  BY <1>1, <1>3, EndOfUpload DEF SlaInv, UploadFacts
<1> QED  BY <1>1, <1>2, <1>3, <1>4, <1>5, EndOfUpload, UploadKeeps

LEMMA AppendMismatchKeeps == ASSUME SlaInv, NEW u \in Uploads, AppendMismatch(u) PROVE SlaInv'
<1> DEFINE e == [event |-> "EVIDENCE_HASH_MISMATCH", task |-> upload[u].task, artifact |-> None, by |-> u, date |-> None, since |-> 0]
<1>1. /\ upload[u].at = "mismatch" /\ UNCHANGED artifacts /\ Uploading /\ Append1(e) /\ End(u, "hash_mismatch")
      /\ upload[u].task \in Tasks /\ \A a \in artifacts : a.id # u
  BY DEF AppendMismatch, SlaInv, UploadFacts
<1>2. e \in Entry /\ e.event \notin SlaEvents /\ e.by = u /\ e.event # "EVIDENCE_ARTIFACT_INGESTED"
  BY <1>1 DEF Entry, SlaEvents
<1> HIDE DEF e
<1>3. SlaTypeOK'
  BY <1>1, <1>2, EndOfUpload, AppendAdds DEF SlaInv, SlaTypeOK, UploadType, Uploading
<1>4. UploadFacts(u)'
  BY <1>1, EndOfUpload DEF SlaInv, UploadFacts
<1> QED  BY <1>1, <1>2, <1>3, <1>4, EndOfUpload, UploadKeeps

LEMMA UploadFailsKeeps == ASSUME SlaInv, NEW u \in Uploads, UploadFails(u) PROVE SlaInv'
<1>1. upload[u].at \notin {"new", "ended"} /\ UNCHANGED <<artifacts, entries>> /\ Uploading /\ End(u, "error")
  BY DEF UploadFails
<1>2. SlaTypeOK'
  BY <1>1, EndOfUpload DEF SlaInv, SlaTypeOK, UploadType, Uploading
<1>3. UploadFacts(u)'
  BY <1>1, EndOfUpload DEF SlaInv, UploadFacts
<1> QED  BY <1>1, <1>2, <1>3, EndOfUpload, UploadKeeps

LEMMA UploadStepKeeps == ASSUME SlaInv, NEW u \in Uploads, UploadStep(u) PROVE SlaInv'
  BY SubmitKeeps, LookUpDuplicateKeeps, WriteArtifactKeeps, AppendIngestedKeeps, AppendMismatchKeeps, UploadFailsKeeps DEF UploadStep

-----------------------------------------------------------------------------
(***************************************************************************)
(* The steps of the sweep.                                                 *)
(***************************************************************************)
LEMMA QuietSweepKeeps == ASSUME SlaInv, Sweeping, UNCHANGED entries, sweep' \in SweepType, SweepFacts' PROVE SlaInv'
<1>1. SlaTypeOK'
  BY DEF SlaInv, SlaTypeOK, SweepType, Sweeping
<1> QED  BY <1>1, QuietStepKeeps DEF SlaInv, Sweeping

LEMMA ReadArtifactsKeeps == ASSUME SlaInv, ReadArtifacts PROVE SlaInv'
<1> DEFINE recent == {a \in artifacts : a.recordedAt >= now - Lookback}
<1>1. sweep' = [at |-> "rows", read |-> recent, todo |-> recent, task |-> None, artifact |-> None]
  BY DEF ReadArtifacts, NoSweep
<1>2. recent \subseteq artifacts /\ UNCHANGED entries /\ Sweeping
  BY DEF ReadArtifacts
<1> HIDE DEF recent
<1>3. sweep' \in SweepType /\ SweepFacts'
  BY <1>1, <1>2 DEF SlaInv, SlaTypeOK, SweepType, SweepFacts, Sweeping
<1> QED  BY <1>2, <1>3, QuietSweepKeeps

\* Artifacts leave the list of a sweep when the ledger has their entry.
LEMMA SweepLeavesKeeps ==
  ASSUME SlaInv, UNCHANGED artifacts, NEW id, SweepLeaves(id), sweep.at # "idle", Recorded(id)',
         \A a : Recorded(a) => Recorded(a)'
  PROVE  sweep' \in SweepType /\ SweepFacts'
<1> DEFINE rest == {b \in sweep.todo : b.id # id}
           at == IF rest = {} THEN "done" ELSE "rows"
<1>1. sweep' = [sweep EXCEPT !.at = at, !.todo = rest, !.task = None, !.artifact = None]
  BY DEF SweepLeaves
<1>2. at \in {"done", "rows"} /\ (at = "done" => rest = {}) /\ rest \subseteq sweep.todo
  OBVIOUS
<1>3. \A a \in sweep.read : Recorded(a.id)' \/ a \in rest
  BY DEF SlaInv, SweepFacts
<1> HIDE DEF rest, at
<1>4. sweep \in SweepType /\ sweep.read \subseteq artifacts /\ sweep.todo \subseteq sweep.read
  BY DEF SlaInv, SlaTypeOK, SweepType, SweepFacts
<1>5. /\ sweep' \in SweepType
      /\ sweep'.at = at /\ sweep'.read = sweep.read /\ sweep'.todo = rest
  BY <1>1, <1>2, <1>4 DEF SweepType
<1> QED  BY <1>2, <1>3, <1>4, <1>5 DEF SweepFacts

LEMMA CheckArtifactKeeps == ASSUME SlaInv, NEW a \in sweep.todo, CheckArtifact(a) PROVE SlaInv'
<1>1. sweep.at = "rows" /\ UNCHANGED entries /\ Sweeping /\ a \in artifacts /\ \A b : Recorded(b) => Recorded(b)'
  BY DEF CheckArtifact, SlaInv, SweepFacts, Recorded
<1>2. CASE Recorded(a.id)
  BY <1>1, <1>2, SweepLeavesKeeps, QuietSweepKeeps DEF CheckArtifact, Sweeping
<1>3. CASE ~Recorded(a.id)
  <2>1. sweep' = [sweep EXCEPT !.at = "append", !.task = a.task, !.artifact = a.id]
    BY <1>3 DEF CheckArtifact
  <2>2. sweep \in SweepType /\ a.task \in Tasks /\ a.id \in Uploads
    BY <1>1 DEF SlaInv, SlaTypeOK, SweepType, Artifact
  <2>3. /\ sweep' \in SweepType /\ sweep'.at = "append" /\ sweep'.task = a.task /\ sweep'.artifact = a.id
        /\ sweep'.read = sweep.read /\ sweep'.todo = sweep.todo
    BY <2>1, <2>2 DEF SweepType
  <2>4. SweepFacts'
    BY <1>1, <2>3 DEF SlaInv, SweepFacts, Sweeping
  <2> QED  BY <1>1, <2>3, <2>4, QuietSweepKeeps
<1> QED  BY <1>2, <1>3

LEMMA BackfillArtifactKeeps == ASSUME SlaInv, BackfillArtifact PROVE SlaInv'
<1> DEFINE e == IngestedEntry(sweep.task, sweep.artifact, "sweep")
<1>1. sweep.at = "append" /\ Append1(e) /\ SweepLeaves(sweep.artifact) /\ Sweeping
  BY DEF BackfillArtifact
<1>2. PICK a \in artifacts : a.id = sweep.artifact /\ a.task = sweep.task
  BY <1>1 DEF SlaInv, SweepFacts
<1>3. /\ e \in Entry /\ e.event \notin SlaEvents /\ e.event = "EVIDENCE_ARTIFACT_INGESTED"
      /\ e.artifact = sweep.artifact /\ e.task = sweep.task
  BY <1>2 DEF SlaInv, SlaTypeOK, Artifact, IngestedEntry, Entry, SlaEvents
<1> HIDE DEF e
<1>4. Recorded(a.id)' /\ \A b : Recorded(b) => Recorded(b)'
  <2>1. Recorded(a.id)'
    BY <1>1, <1>2, <1>3, AppendAdds DEF SlaInv, Recorded
  <2>2. ASSUME NEW b, Recorded(b) PROVE Recorded(b)'
    BY <1>1, <1>3, <2>2, RecordsStay DEF SlaInv
  <2> QED  BY <2>1, <2>2
<1>5. sweep' \in SweepType /\ SweepFacts'
  BY <1>1, <1>2, <1>4, SweepLeavesKeeps DEF Sweeping
<1>6. SlaTypeOK'
  BY <1>1, <1>3, <1>5, AppendAdds DEF SlaInv, SlaTypeOK, SweepType, Sweeping
<1> QED  BY <1>1, <1>2, <1>3, <1>5, <1>6, AppendKeeps DEF SlaInv, Sweeping, SlaEvents

LEMMA SweepFailsKeeps == ASSUME SlaInv, SweepFails PROVE SlaInv'
<1>1. sweep' \in SweepType /\ SweepFacts'
  BY DEF SweepFails, NoSweep, SweepType, SweepFacts
<1> QED  BY <1>1, QuietSweepKeeps DEF SweepFails

-----------------------------------------------------------------------------
(***************************************************************************)
(* The theorems.                                                           *)
(***************************************************************************)
LEMMA SlaNextKeeps == SlaInv /\ [SlaNext]_slaVars => SlaInv'
<1> SUFFICES ASSUME SlaInv, [SlaNext]_slaVars PROVE SlaInv'
  OBVIOUS
<1>1. CASE SlaTick
  BY <1>1, TickKeeps
<1>2. ASSUME NEW s \in Scanners, ScanStep(s) PROVE SlaInv'
  BY <1>2, ReadRowsKeeps, ClassifyRowKeeps, AppendTransitionKeeps, AppendUnansweredKeeps, ScanFailsKeeps DEF ScanStep
<1>3. ASSUME NEW u \in Uploads, UploadStep(u) PROVE SlaInv'
  BY <1>3, UploadStepKeeps
<1>4. CASE SweepStep \/ SweepFails
  BY <1>4, ReadArtifactsKeeps, CheckArtifactKeeps, BackfillArtifactKeeps, SweepFailsKeeps DEF SweepStep
<1>5. CASE UNCHANGED slaVars
  <2>1. SlaTypeOK' /\ UNCHANGED <<now, artifacts, entries, scan, upload, sweep>>
    BY <1>5 DEF slaVars, SlaInv, SlaTypeOK
  <2> QED  BY <2>1, QuietStepKeeps DEF SlaInv
<1> QED  BY <1>1, <1>2, <1>3, <1>4, <1>5 DEF SlaNext

\* The invariant of the monitor holds in every state (scanForSlaGaps,
\* ingestEvidenceArtifact, reconcileLedgerGaps).
THEOREM SlaInvAlways == SlaSpec => []SlaInv
<1>1. SlaInit => SlaInv
  BY SlaInitInv
<1>2. SlaInv /\ [SlaNext]_slaVars => SlaInv'
  BY SlaNextKeeps
<1> QED  BY <1>1, <1>2, PTL DEF SlaSpec

-----------------------------------------------------------------------------
(***************************************************************************)
(* The order of the SLA entries, however many scans there are at a time.   *)
(***************************************************************************)
LEMMA NumbersOfEntries ==
  ASSUME SlaTypeOK, NEW t, SlaEntriesOf(t) # {}
  PROVE  Max(SlaEntriesOf(t)) \in SlaEntriesOf(t) /\ \A i \in SlaEntriesOf(t) : Max(SlaEntriesOf(t)) >= i
<1>1. Len(entries) \in Nat /\ SlaEntriesOf(t) \subseteq 1..Len(entries)
  BY DEF SlaTypeOK, SlaEntriesOf
<1> QED  BY <1>1, MaxOfNumbers

\* Entries of other kinds do not count.
LEMMA OtherEntriesKeepOrder ==
  ASSUME SlaTypeOK, UNCHANGED entries \/ \E e \in Entry : e.event \notin SlaEvents /\ Append1(e)
  PROVE  /\ \A t : SlaEntriesOf(t)' = SlaEntriesOf(t) /\ LatestSlaEvent(t)' = LatestSlaEvent(t)
         /\ SlaEntriesGoForward => SlaEntriesGoForward'
         /\ \A s \in Scanners : ScanIsUpToDate(s) /\ scan'[s] = scan[s] => ScanIsUpToDate(s)'
<1>1. ASSUME NEW t
      PROVE  SlaEntriesOf(t)' = SlaEntriesOf(t) /\ \A i \in SlaEntriesOf(t) : entries'[i] = entries[i]
  <2>1. CASE UNCHANGED entries
    BY <2>1 DEF SlaEntriesOf
  <2>2. ASSUME NEW e \in Entry, e.event \notin SlaEvents, Append1(e)
        PROVE  SlaEntriesOf(t)' = SlaEntriesOf(t) /\ \A i \in SlaEntriesOf(t) : entries'[i] = entries[i]
    BY <2>2, AppendAdds DEF SlaEntriesOf
  <2> QED  BY <2>1, <2>2
<1>2. ASSUME NEW t PROVE LatestSlaEvent(t)' = LatestSlaEvent(t)
  <2>1. CASE SlaEntriesOf(t) = {}
    BY <1>1, <2>1 DEF LatestSlaEvent
  <2>2. CASE SlaEntriesOf(t) # {}
    BY <1>1, <2>2, NumbersOfEntries DEF LatestSlaEvent
  <2> QED  BY <2>1, <2>2
<1>3. SlaEntriesGoForward => SlaEntriesGoForward'
  BY <1>1 DEF SlaEntriesGoForward, Follows
<1>4. ASSUME NEW s \in Scanners, ScanIsUpToDate(s), scan'[s] = scan[s] PROVE ScanIsUpToDate(s)'
  <2>1. /\ scan[s].at = "append" /\ (\A i \in SlaEntriesOf(scan[s].task)' : i <= scan[s].since) =>
             LatestSlaEvent(scan[s].task)' # scan[s].event
        /\ scan[s].at = "append" => scan[s].task \in scan[s].todo
    BY <1>1, <1>2, <1>4 DEF ScanIsUpToDate
  <2>2. ASSUME scan[s].at # "idle", NEW i \in DOMAIN entries', entries'[i].event \in SlaEvents
        PROVE  /\ i <= scan[s].since => entries'[i].date <= scan[s].date
               /\ i > scan[s].since /\ entries'[i].by = s /\ entries'[i].task \in scan[s].todo =>
                    scan[s].at = "append" /\ entries'[i] = Transition(s)
    <3>1. i \in DOMAIN entries /\ entries'[i] = entries[i]
      BY <2>2, AppendAdds
    <3> QED  BY <1>4, <2>2, <3>1 DEF ScanIsUpToDate
  <2>3. Transition(s)' = Transition(s)
    BY <1>4 DEF Transition
  <2>4. scan[s].at # "idle" => scan[s].since <= Len(entries')
    <3>1. Len(entries) \in Nat /\ (entries' = entries \/ Len(entries') = Len(entries) + 1)
      BY DEF SlaTypeOK, Append1
    <3>2. scan[s].since \in Nat
      BY DEF SlaTypeOK
    <3> QED  BY <1>4, <3>1, <3>2 DEF ScanIsUpToDate
  <2> QED  BY <1>4, <2>1, <2>2, <2>3, <2>4 DEF ScanIsUpToDate
<1> QED  BY <1>1, <1>2, <1>3, <1>4

\* The entry a scan appends follows the last one as it should.
LEMMA TransitionGoesForward ==
  ASSUME SlaInv, SlaOrder, NEW s \in Scanners, scan[s].at = "append", Append1(Transition(s)),
         NEW i \in SlaEntriesOf(scan[s].task), \A k \in SlaEntriesOf(scan[s].task) : k <= i
  PROVE  \/ entries[i].event = "SLA_APPROACHING" /\ scan[s].event = "SLA_BREACHED"
         \/ entries[i] = Transition(s)
         \/ entries[i].by # s /\ i > scan[s].since
<1> DEFINE t == scan[s].task
<1>1. /\ t \in Tasks /\ scan[s].event \in SlaEvents /\ ScanIsUpToDate(s) /\ scan[s].since \in Nat /\ scan[s].date \in Nat
  BY DEF SlaInv, SlaTypeOK, ScanFacts, SlaOrder
<1>2. i \in DOMAIN entries /\ i \in Nat /\ entries[i].event \in SlaEvents /\ entries[i].task = t
  BY DEF SlaEntriesOf, SlaInv, SlaTypeOK
<1>3. CASE i > scan[s].since
  BY <1>1, <1>2, <1>3 DEF ScanIsUpToDate
<1>4. CASE i <= scan[s].since
  <2> DEFINE m == Max(SlaEntriesOf(t))
  <2>1. m \in SlaEntriesOf(t) /\ m >= i /\ LatestSlaEvent(t) = entries[m].event
    BY NumbersOfEntries DEF LatestSlaEvent, SlaInv
  <2>2. m \in Nat /\ m <= i
    BY <2>1 DEF SlaEntriesOf, SlaInv, SlaTypeOK
  <2> HIDE DEF m
  <2>3. m = i
    BY <1>2, <2>1, <2>2
  <2>4. \A k \in SlaEntriesOf(t) : k <= scan[s].since
    <3>1. \A k \in SlaEntriesOf(t) : k \in Nat
      BY DEF SlaEntriesOf, SlaInv, SlaTypeOK
    <3> QED  BY <1>1, <1>2, <1>4, <3>1
  <2>5. entries[i].event # scan[s].event
    BY <1>1, <2>1, <2>3, <2>4 DEF ScanIsUpToDate
  <2>6. ASSUME entries[i].event = "SLA_BREACHED" PROVE FALSE
    <3>1. entries[i].date \in Nat /\ entries[i].date <= scan[s].date
      BY <1>1, <1>2, <1>4 DEF ScanIsUpToDate, SlaInv, DatesArePast, SlaTypeOK
    <3>2. entries[i].date > SlaHours[t] \/ SlaHours[t] <= 0
      BY <1>2, <2>6 DEF SlaInv, BreachesAreTrue, Deadline
    <3>3. scan[s].event = "SLA_APPROACHING"
      BY <1>1, <2>5, <2>6 DEF SlaEvents
    <3>4. SlaHours[t] > 0 /\ scan[s].date <= SlaHours[t] /\ SlaHours[t] \in Int
      BY <1>1, <3>3, SlaAssumption DEF SlaInv, ScanFacts
    <3> QED  BY <1>1, <3>1, <3>2, <3>4
  <2> QED  BY <1>1, <1>2, <2>5, <2>6 DEF SlaEvents
<1> QED  BY <1>1, <1>2, <1>3, <1>4

LEMMA TransitionKeepsOrder ==
  ASSUME SlaInv, SlaOrder, NEW s \in Scanners, scan[s].at = "append", Append1(Transition(s))
  PROVE  /\ SlaEntriesGoForward'
         /\ \A q \in Scanners \ {s} : scan'[q] = scan[q] => ScanIsUpToDate(q)'
<1> DEFINE t == scan[s].task
           e == Transition(s)
           n == Len(entries) + 1
<1>1. e \in Entry /\ e.event \in SlaEvents /\ t \in Tasks
  BY TransitionIsEntry DEF Transition
<1>2. /\ e.event = scan[s].event /\ e.date = scan[s].date /\ e.task = t /\ e.by = s /\ e.since = scan[s].since
  BY DEF Transition
<1>3. n \in Nat /\ \A u : SlaEntriesOf(u) \subseteq DOMAIN entries /\ SlaEntriesOf(u) \subseteq Nat
  BY DEF SlaInv, SlaTypeOK, SlaEntriesOf
<1>4. /\ DOMAIN entries' = DOMAIN entries \cup {n} /\ entries'[n] = e /\ n \notin DOMAIN entries /\ Len(entries') = n
      /\ \A i \in DOMAIN entries : i \in Nat /\ i < n /\ entries'[i] = entries[i]
  <2>1. Len(entries') = n /\ n \notin DOMAIN entries
    BY DEF Append1, SlaInv, SlaTypeOK
  <2> QED  BY <1>1, <2>1, AppendAdds DEF SlaInv
<1>5. \A u : SlaEntriesOf(u)' = IF u = t THEN SlaEntriesOf(u) \cup {n} ELSE SlaEntriesOf(u)
  BY <1>1, <1>2, <1>4 DEF SlaEntriesOf
<1> HIDE DEF e, n
<1>6. SlaEntriesGoForward'
  <2>1. SUFFICES ASSUME NEW u \in Tasks, NEW i \in SlaEntriesOf(u)', NEW j \in SlaEntriesOf(u)', Follows(u, i, j)'
                 PROVE  \/ entries'[i].event = "SLA_APPROACHING" /\ entries'[j].event = "SLA_BREACHED"
                        \/ entries'[i] = entries'[j]
                        \/ entries'[i].by # entries'[j].by /\ i > entries'[j].since
    BY DEF SlaEntriesGoForward
  <2>2. i < j /\ \A k \in SlaEntriesOf(u)' : ~(i < k /\ k < j)
    BY <2>1 DEF Follows
  <2>3. i \in SlaEntriesOf(u) /\ i \in DOMAIN entries
    BY <1>3, <1>4, <1>5, <2>2
  <2>4. CASE j = n
    <3>1. u = t
      BY <1>3, <1>4, <1>5, <2>4
    <3>2. \A k \in SlaEntriesOf(t) : k <= i
      BY <1>3, <1>4, <1>5, <2>2, <2>3, <2>4, <3>1
    <3> QED  BY <1>2, <1>4, <2>3, <2>4, <3>1, <3>2, TransitionGoesForward DEF e
  <2>5. CASE j # n
    <3>1. j \in SlaEntriesOf(u) /\ j \in DOMAIN entries
      BY <1>3, <1>5, <2>5
    <3>2. Follows(u, i, j)
      BY <1>5, <2>2 DEF Follows
    <3> QED  BY <1>4, <2>3, <3>1, <3>2 DEF SlaOrder, SlaEntriesGoForward
  <2> QED  BY <2>4, <2>5
<1>7. ASSUME NEW q \in Scanners \ {s}, scan'[q] = scan[q], scan[q].at # "idle" PROVE ScanIsUpToDate(q)'
  <2>1. ScanIsUpToDate(q) /\ scan[q].since \in Nat /\ scan[q].since < n
    BY <1>3, <1>7 DEF SlaOrder, ScanIsUpToDate, SlaInv, SlaTypeOK, n
  <2>2. Transition(q)' = Transition(q)
    BY <1>7 DEF Transition
  <2>3. \A i \in DOMAIN entries' : entries'[i].event \in SlaEvents /\ i <= scan[q].since => entries'[i].date <= scan[q].date
    BY <1>3, <1>4, <1>7, <2>1 DEF ScanIsUpToDate
  <2>4. \A i \in DOMAIN entries' :
          entries'[i].event \in SlaEvents /\ i > scan[q].since /\ entries'[i].by = q /\ entries'[i].task \in scan[q].todo =>
            scan[q].at = "append" /\ entries'[i] = Transition(q)
    BY <1>2, <1>4, <1>7, <2>1 DEF ScanIsUpToDate
  <2>5. ASSUME scan[q].at = "append", NEW v, v = scan[q].task, \A i \in SlaEntriesOf(v)' : i <= scan[q].since
        PROVE  LatestSlaEvent(v)' # scan[q].event
    <3>1. v # t
      BY <1>3, <1>5, <2>1, <2>5
    <3>2. SlaEntriesOf(v)' = SlaEntriesOf(v)
      BY <1>5, <3>1
    <3>3. LatestSlaEvent(v)' = LatestSlaEvent(v)
      <4>1. CASE SlaEntriesOf(v) = {}
        BY <3>2, <4>1 DEF LatestSlaEvent
      <4>2. CASE SlaEntriesOf(v) # {}
        <5>1. Max(SlaEntriesOf(v)) \in DOMAIN entries
          BY <1>3, <4>2, NumbersOfEntries DEF SlaInv
        <5> QED  BY <1>4, <3>2, <4>2, <5>1 DEF LatestSlaEvent
      <4> QED  BY <4>1, <4>2
    <3> QED  BY <1>7, <2>1, <2>5, <3>2, <3>3 DEF ScanIsUpToDate
  <2>6. scan[q].since <= Len(entries') /\ (scan[q].at = "append" => scan[q].task \in scan[q].todo)
    BY <1>3, <1>4, <1>7, <2>1 DEF ScanIsUpToDate
  <2> QED  BY <1>7, <2>2, <2>3, <2>4, <2>5, <2>6 DEF ScanIsUpToDate
<1>8. ASSUME NEW q \in Scanners, scan'[q] = scan[q], scan[q].at = "idle" PROVE ScanIsUpToDate(q)'
  BY <1>8 DEF ScanIsUpToDate
<1> QED  BY <1>6, <1>7, <1>8

\* A scan that leaves a row is up to date if it has written of no other row.
LEMMA LeaveRowKeepsOrder ==
  ASSUME SlaInv, NEW s \in Scanners, NEW t, LeaveRow(s, t), scan[s].at # "idle",
         scan[s].since <= Len(entries'),
         \A i \in DOMAIN entries' : entries'[i].event \in SlaEvents /\ i <= scan[s].since => entries'[i].date <= scan[s].date,
         \A i \in DOMAIN entries' :
           entries'[i].event \in SlaEvents /\ i > scan[s].since /\ entries'[i].by = s /\ entries'[i].task \in scan[s].todo =>
             entries'[i].task = t
  PROVE  ScanIsUpToDate(s)' /\ \A q \in Scanners \ {s} : scan'[q] = scan[q]
<1>1. /\ \A q \in Scanners \ {s} : scan'[q] = scan[q]
      /\ \/ scan'[s].at = "idle"
         \/ /\ scan'[s].at = "rows" /\ scan'[s].date = scan[s].date /\ scan'[s].since = scan[s].since
            /\ scan'[s].todo = scan[s].todo \ {t}
  BY DEF LeaveRow, NoScan, SlaInv, SlaTypeOK
<1> QED  BY <1>1 DEF ScanIsUpToDate

LEMMA ScanKeepsOrder == ASSUME SlaInv, SlaOrder, NEW s \in Scanners, ScanStep(s) PROVE SlaOrder'
<1> SUFFICES /\ SlaEntriesGoForward' /\ ScanIsUpToDate(s)'
             /\ \A q \in Scanners \ {s} : ScanIsUpToDate(q)'
  BY DEF SlaOrder
<1>1. ASSUME UNCHANGED entries, \A q \in Scanners \ {s} : scan'[q] = scan[q]
      PROVE  SlaEntriesGoForward' /\ \A q \in Scanners \ {s} : ScanIsUpToDate(q)'
  BY <1>1, OtherEntriesKeepOrder DEF SlaInv, SlaOrder
<1>2. CASE ReadRows(s)
  <2>1. /\ UNCHANGED entries /\ scan'[s].date = now /\ scan'[s].at = "rows" /\ scan'[s].since = LastSlaEntry
        /\ \A q \in Scanners \ {s} : scan'[q] = scan[q]
    BY <1>2 DEF ReadRows, NoScan, SlaInv, SlaTypeOK
  <2>2. LastSlaEntry \in Nat /\ LastSlaEntry <= Len(entries) /\ \A i \in DOMAIN entries : entries[i].event \in SlaEvents => i <= LastSlaEntry
    BY LastSlaEntryIsLast DEF SlaInv
  <2>3. \A i \in DOMAIN entries : i \in Nat /\ (entries[i].event \in SlaEvents => entries[i].date <= now)
    BY SlaAssumption DEF SlaInv, SlaTypeOK, DatesArePast
  <2>4. ScanIsUpToDate(s)'
    BY <2>1, <2>2, <2>3 DEF ScanIsUpToDate
  <2> QED  BY <1>1, <2>1, <2>4
<1>3. ASSUME NEW t \in Tasks, ClassifyRow(s, t)
      PROVE  SlaEntriesGoForward' /\ ScanIsUpToDate(s)' /\ \A q \in Scanners \ {s} : ScanIsUpToDate(q)'
  <2>1. UNCHANGED entries /\ scan[s].at = "rows" /\ t \in scan[s].todo /\ ScanIsUpToDate(s)
    BY <1>3 DEF ClassifyRow, SlaOrder
  <2>2. \A i \in DOMAIN entries :
          ~(entries[i].event \in SlaEvents /\ i > scan[s].since /\ entries[i].by = s /\ entries[i].task \in scan[s].todo)
    BY <2>1 DEF ScanIsUpToDate
  <2>3. CASE LeaveRow(s, t)
    <3>1. ScanIsUpToDate(s)' /\ \A q \in Scanners \ {s} : scan'[q] = scan[q]
      BY <2>1, <2>2, <2>3, LeaveRowKeepsOrder DEF ScanIsUpToDate
    <3> QED  BY <1>1, <2>1, <3>1
  <2>4. CASE ~LeaveRow(s, t)
    <3>1. PICK event : /\ LatestSlaEvent(t) # event
                       /\ scan' = [scan EXCEPT ![s].at = "append", ![s].task = t, ![s].event = event]
      BY <1>3, <2>4 DEF ClassifyRow
    <3>2. /\ \A q \in Scanners \ {s} : scan'[q] = scan[q]
          /\ scan'[s].at = "append" /\ scan'[s].task = t /\ scan'[s].event = event /\ scan'[s].since = scan[s].since
          /\ scan'[s].date = scan[s].date /\ scan'[s].todo = scan[s].todo
      BY <3>1 DEF SlaInv, SlaTypeOK
    <3>3. LatestSlaEvent(t)' = LatestSlaEvent(t)
      BY <2>1 DEF LatestSlaEvent, SlaEntriesOf
    <3>4. ScanIsUpToDate(s)'
      BY <2>1, <2>2, <3>1, <3>2, <3>3 DEF ScanIsUpToDate
    <3> QED  BY <1>1, <2>1, <3>2, <3>4
  <2> QED  BY <2>3, <2>4
<1>4. ASSUME scan[s].at = "append", Append1(Transition(s))
      PROVE  /\ Len(entries') = Len(entries) + 1 /\ Len(entries) \in Nat /\ scan[s].since \in Nat /\ scan[s].since <= Len(entries')
             /\ \A i \in DOMAIN entries' : entries'[i].event \in SlaEvents /\ i <= scan[s].since => entries'[i].date <= scan[s].date
             /\ \A i \in DOMAIN entries' :
                  entries'[i].event \in SlaEvents /\ i > scan[s].since /\ entries'[i].by = s /\ entries'[i].task \in scan[s].todo =>
                    entries'[i] = Transition(s)
  <2>1. Len(entries') = Len(entries) + 1 /\ Len(entries) \in Nat /\ scan[s].since \in Nat
    BY <1>4 DEF Append1, SlaInv, SlaTypeOK
  <2>2. /\ DOMAIN entries' = DOMAIN entries \cup {Len(entries) + 1} /\ entries'[Len(entries) + 1] = Transition(s)
        /\ \A i \in DOMAIN entries : entries'[i] = entries[i]
    BY <1>4, TransitionIsEntry, AppendAdds DEF SlaInv
  <2>3. ScanIsUpToDate(s) /\ scan[s].since <= Len(entries)
    BY <1>4 DEF SlaOrder, ScanIsUpToDate
  <2> QED  BY <1>4, <2>1, <2>2, <2>3 DEF ScanIsUpToDate
<1>5. CASE AppendTransition(s)
  <2>1. scan[s].at = "append" /\ Append1(Transition(s)) /\ LeaveRow(s, scan[s].task)
    BY <1>5 DEF AppendTransition
  <2>2. Transition(s).task = scan[s].task
    BY DEF Transition
  <2>3. ScanIsUpToDate(s)' /\ \A q \in Scanners \ {s} : scan'[q] = scan[q]
    BY <1>4, <2>1, <2>2, LeaveRowKeepsOrder
  <2> QED  BY <2>1, <2>3, TransitionKeepsOrder
<1>6. CASE AppendUnanswered(s)
  <2>1. scan[s].at = "append" /\ Append1(Transition(s)) /\ scan' = [scan EXCEPT ![s].lost = @ + 1]
    BY <1>6 DEF AppendUnanswered
  <2>2. /\ \A q \in Scanners \ {s} : scan'[q] = scan[q]
        /\ scan'[s].at = "append" /\ scan'[s].task = scan[s].task /\ scan'[s].event = scan[s].event
        /\ scan'[s].since = scan[s].since /\ scan'[s].date = scan[s].date /\ scan'[s].todo = scan[s].todo
    BY <2>1 DEF SlaInv, SlaTypeOK
  <2>3. Transition(s)' = Transition(s)
    BY <2>2 DEF Transition
  <2>4. Len(entries) + 1 \in SlaEntriesOf(scan[s].task)' /\ scan[s].task \in scan[s].todo
    <3>1. Transition(s) \in Entry /\ Transition(s).event \in SlaEvents /\ Transition(s).task = scan[s].task
      BY <2>1, TransitionIsEntry DEF Transition
    <3>2. Len(entries) + 1 \in DOMAIN entries' /\ entries'[Len(entries) + 1] = Transition(s)
      BY <2>1, <3>1, AppendAdds DEF SlaInv
    <3> QED  BY <2>1, <3>1, <3>2 DEF SlaEntriesOf, SlaOrder, ScanIsUpToDate
  <2>5. Len(entries) \in Nat /\ scan[s].since \in Nat /\ scan[s].since <= Len(entries)
    BY <2>1 DEF SlaOrder, ScanIsUpToDate, SlaInv, SlaTypeOK
  <2>6. ScanIsUpToDate(s)'
    BY <1>4, <2>1, <2>2, <2>3, <2>4, <2>5 DEF ScanIsUpToDate
  <2> QED  BY <2>1, <2>2, <2>6, TransitionKeepsOrder
<1>7. CASE ScanFails(s)
  <2>1. UNCHANGED entries /\ scan'[s].at = "idle" /\ \A q \in Scanners \ {s} : scan'[q] = scan[q]
    BY <1>7 DEF ScanFails, NoScan, SlaInv, SlaTypeOK
  <2> QED  BY <1>1, <2>1 DEF ScanIsUpToDate
<1> QED  BY <1>2, <1>3, <1>5, <1>6, <1>7 DEF ScanStep

\* Uploads and the sweep leave the scans alone, and few of their steps append.
LEMMA UploadsLeaveScans ==
  ASSUME NEW u \in Uploads, UploadStep(u)
  PROVE  UNCHANGED scan /\ (UNCHANGED entries \/ AppendIngested(u) \/ AppendMismatch(u))
<1>1. ASSUME NEW t \in Tasks, NEW f \in Contents, NEW date \in {0, now}, NEW claimHolds \in BOOLEAN, Submit(u, t, f, date, claimHolds)
      PROVE  UNCHANGED <<scan, entries>>
  BY <1>1 DEF Submit, Uploading
<1>2. CASE LookUpDuplicate(u)
  BY <1>2 DEF LookUpDuplicate, Uploading
<1>3. CASE WriteArtifact(u)
  BY <1>3 DEF WriteArtifact, Uploading
<1>4. CASE AppendIngested(u)
  BY <1>4 DEF AppendIngested, Uploading
<1>5. CASE AppendMismatch(u)
  BY <1>5 DEF AppendMismatch, Uploading
<1>6. CASE UploadFails(u)
  BY <1>6 DEF UploadFails, Uploading
<1> QED  BY <1>1, <1>2, <1>3, <1>4, <1>5, <1>6 DEF UploadStep

LEMMA SweepLeavesScans ==
  ASSUME SweepStep \/ SweepFails
  PROVE  UNCHANGED scan /\ (UNCHANGED entries \/ BackfillArtifact)
<1>1. CASE ReadArtifacts
  BY <1>1 DEF ReadArtifacts, Sweeping
<1>2. ASSUME NEW a \in sweep.todo, CheckArtifact(a) PROVE UNCHANGED <<scan, entries>>
  BY <1>2 DEF CheckArtifact, Sweeping
<1>3. CASE BackfillArtifact
  BY <1>3 DEF BackfillArtifact, Sweeping
<1>4. CASE SweepFails
  BY <1>4 DEF SweepFails, Sweeping
<1> QED  BY <1>1, <1>2, <1>3, <1>4 DEF SweepStep

LEMMA OthersKeepOrder ==
  ASSUME SlaInv, SlaOrder, UNCHANGED scan,
         SlaTick \/ (\E u \in Uploads : UploadStep(u)) \/ SweepStep \/ SweepFails \/ UNCHANGED slaVars
  PROVE  SlaOrder'
<1>1. UNCHANGED entries \/ \E e \in Entry : e.event \notin SlaEvents /\ Append1(e)
  <2>1. CASE UNCHANGED entries
    BY <2>1
  <2>2. ASSUME NEW u \in Uploads, AppendIngested(u) PROVE \E e \in Entry : e.event \notin SlaEvents /\ Append1(e)
    <3> DEFINE e == IngestedEntry(upload[u].task, upload[u].artifact, u)
    <3>1. upload[u].task \in Tasks /\ Append1(e) /\ upload[u].artifact \in Uploads \cup {None}
      BY <2>2 DEF AppendIngested, SlaInv, UploadFacts, SlaTypeOK
    <3>2. e \in Entry /\ e.event \notin SlaEvents
      BY <3>1 DEF IngestedEntry, Entry, SlaEvents
    <3> QED  BY <3>1, <3>2
  <2>3. ASSUME NEW u \in Uploads, AppendMismatch(u) PROVE \E e \in Entry : e.event \notin SlaEvents /\ Append1(e)
    <3> DEFINE e == [event |-> "EVIDENCE_HASH_MISMATCH", task |-> upload[u].task, artifact |-> None, by |-> u, date |-> None, since |-> 0]
    <3>1. upload[u].task \in Tasks /\ Append1(e)
      BY <2>3 DEF AppendMismatch, SlaInv, UploadFacts
    <3>2. e \in Entry /\ e.event \notin SlaEvents
      BY <3>1 DEF Entry, SlaEvents
    <3> QED  BY <3>1, <3>2
  <2>4. CASE BackfillArtifact
    <3> DEFINE e == IngestedEntry(sweep.task, sweep.artifact, "sweep")
    <3>1. Append1(e) /\ sweep.artifact \in Uploads \cup {None} /\ sweep.task \in Tasks
      BY <2>4 DEF BackfillArtifact, SlaInv, SweepFacts, SlaTypeOK, Artifact
    <3>2. e \in Entry /\ e.event \notin SlaEvents
      BY <3>1 DEF IngestedEntry, Entry, SlaEvents
    <3> QED  BY <3>1, <3>2
  <2>5. CASE SlaTick \/ UNCHANGED slaVars
    BY <2>5 DEF SlaTick, slaVars
  <2> QED  BY <2>1, <2>2, <2>3, <2>4, <2>5, UploadsLeaveScans, SweepLeavesScans
<1> QED  BY <1>1, OtherEntriesKeepOrder, SMTT(30) DEF SlaInv, SlaOrder

LEMMA SlaNextKeepsOrder ==
  ASSUME SlaInv, SlaOrder, [SlaNext]_slaVars
  PROVE  SlaOrder'
<1>1. ASSUME NEW s \in Scanners, ScanStep(s) PROVE SlaOrder'
  BY <1>1, ScanKeepsOrder
<1>2. ASSUME NEW u \in Uploads, UploadStep(u) PROVE SlaOrder'
  <2>1. UNCHANGED scan
    BY <1>2, UploadsLeaveScans
  <2> QED  BY <1>2, <2>1, OthersKeepOrder, SMTT(30)
<1>3. CASE SlaTick \/ SweepStep \/ SweepFails \/ UNCHANGED slaVars
  <2>1. UNCHANGED scan
    BY <1>3, SweepLeavesScans DEF SlaTick, slaVars
  <2> QED  BY <1>3, <2>1, OthersKeepOrder
<1> QED  BY <1>1, <1>2, <1>3 DEF SlaNext

\* The graph and the ledger agree on the evidence: the ledger names what the
\* graph holds, an answer is kept, and a sweep that ends leaves no gap
\* (ingestEvidenceArtifact, reconcileLedgerGaps).
THEOREM EvidenceAlwaysRecorded == SlaSpec => []EvidenceIsRecorded
<1>1. SlaInv => SweepsLeaveNoGap
  BY DEF SlaInv, SweepFacts, SweepsLeaveNoGap, Recorded
<1>2. SlaInv => EvidenceIsRecorded
  BY <1>1 DEF SlaInv, EvidenceIsRecorded
<1> QED  BY <1>2, SlaInvAlways, PTL

\* The whole of what the monitor promises, for any tasks, deadlines, uploads and
\* hours and however many scans overlap: an SLA entry that does not lead forward
\* from the last one of its task is a repeated append, or another scan reported
\* the task since its own began (maybeAppendSlaTransitionEntry, scanForSlaGaps).
THEOREM MonitoringAlwaysTrue == SlaSpec => []MonitoringIsTrue
<1>1. SlaInit => SlaOrder
  BY DEF SlaInit, SlaOrder, SlaEntriesGoForward, SlaEntriesOf, ScanIsUpToDate, NoScan
<1>2. SlaInv /\ SlaOrder /\ [SlaNext]_slaVars => SlaOrder'
  BY SlaNextKeepsOrder
<1>3. SlaInv /\ SlaOrder => SlaEntriesAreTrue
  BY DEF SlaInv, SlaOrder, SlaEntriesAreTrue
<1>4. SlaSpec => []SlaEntriesAreTrue
  BY <1>1, <1>2, <1>3, SlaInvAlways, PTL DEF SlaSpec
<1> QED  BY <1>4, EvidenceAlwaysRecorded, PTL DEF MonitoringIsTrue

-----------------------------------------------------------------------------
(***************************************************************************)
(* The pipeline from a clause to the commit plan: the inductive invariant. *)
(***************************************************************************)
CriticState == [at: {"lookup", "generate", "done"}, candidates: SUBSET Obligations, skipped: BOOLEAN, tries: Nat]
MappingState ==
  [overwriteAt: {"explicit", "heuristic", "done"}, overwrites: BOOLEAN, matchPath: MatchPaths,
   overwritten: Obligations \cup {None}, degraded: BOOLEAN, firstSeenDone: BOOLEAN, firstSeen: BOOLEAN,
   firstSeenDegraded: BOOLEAN]

\* Related obligations are only known of a clause that like clauses were found for.
ContextFacts ==
  /\ stage \in {"start", "categories", "similar", "related"} => context.related = {}
  /\ stage = "related" \/ context.related # {} => context.similar

\* Above what the extraction model claimed, only with the graph's support.
DraftFacts ==
  stage \in {"branches", "done"} =>
    draft \in Drafts /\ (confidence > draft.certainty => ~context.degraded /\ context.similar)

\* What the critic found wrong is in the score, and what it could not look up
\* in the verdict.
VerificationFacts ==
  critic.at = "done" =>
    /\ verification \in GroundingVerificationOutput
    /\ critic.skipped => verification.verdict # "pass" /\ verification.conflicts = {}
    /\ (\E f \in Fields : verification.cases[f] = "dropped_condition") => verification.grounding_score <= 60
    /\ (\E f \in Fields : verification.cases[f] = "fabricated") => verification.grounding_score <= 40

\* An overwrite is of a named obligation, or assumed because the lookup failed;
\* before the lookups have answered nothing is known, and nothing seen.
MappingFacts ==
  /\ mapping.overwrites /\ ~mapping.degraded => mapping.matchPath # None
  /\ mapping.overwriteAt # "done" =>
       ~mapping.overwrites /\ ~mapping.degraded /\ mapping.matchPath = None /\ mapping.overwritten = None
  /\ ~mapping.firstSeenDone => mapping.firstSeen /\ ~mapping.firstSeenDegraded

RoutingInv ==
  /\ PipelineTypeOK /\ DOMAIN graph = Obligations
  /\ critic \in CriticState /\ mapping \in MappingState
  /\ ContextFacts /\ DraftFacts /\ VerificationFacts /\ MappingFacts
  /\ RoutingIsCautious

-----------------------------------------------------------------------------
\* Numbers: least and greatest of two.
LEMMA MinOfTwo == ASSUME NEW m \in Int, NEW n \in Int PROVE Min({m, n}) = IF m <= n THEN m ELSE n
<1> DEFINE least == IF m <= n THEN m ELSE n
<1>1. least \in {m, n} /\ \A k \in {m, n} : least <= k
  OBVIOUS
<1>2. Min({m, n}) \in {m, n} /\ \A k \in {m, n} : Min({m, n}) <= k
  BY <1>1 DEF Min
<1> QED  BY <1>1, <1>2

LEMMA MaxOfTwo == ASSUME NEW m \in Int, NEW n \in Int PROVE Max({m, n}) = IF m <= n THEN n ELSE m
<1> DEFINE most == IF m <= n THEN n ELSE m
<1>1. most \in {m, n} /\ \A k \in {m, n} : most >= k
  OBVIOUS
<1>2. Max({m, n}) \in {m, n} /\ \A k \in {m, n} : Max({m, n}) >= k
  BY <1>1 DEF Max
<1> QED  BY <1>1, <1>2

LEMMA MinOfThem ==
  ASSUME NEW m \in Nat, NEW S, S \subseteq {40, 60}
  PROVE  /\ Min({m} \cup S) \in {m} \cup S
         /\ \A n \in {m} \cup S : Min({m} \cup S) <= n
<1> DEFINE T == {m} \cup S
<1>1. \E n \in T : \A k \in T : n <= k
  <2>1. CASE S = {}
    BY <2>1
  <2>2. CASE 40 \in S
    <3>1. CASE m <= 40
      BY <3>1
    <3>2. CASE ~(m <= 40)
      BY <2>2, <3>2
    <3> QED  BY <3>1, <3>2
  <2>3. CASE 40 \notin S /\ 60 \in S
    <3>1. CASE m <= 60
      BY <2>3, <3>1
    <3>2. CASE ~(m <= 60)
      BY <2>3, <3>2
    <3> QED  BY <3>1, <3>2
  <2> QED  BY <2>1, <2>2, <2>3
<1> QED  BY <1>1 DEF Min

\* A field that is invented or loses a condition caps the score of them all.
LEMMA GroundingScoreIsCapped ==
  ASSUME NEW cases \in [Fields -> FIELD_CASES]
  PROVE  /\ GroundingScore(cases) \in 0..100
         /\ (\E f \in Fields : cases[f] = "dropped_condition") => GroundingScore(cases) <= 60
         /\ (\E f \in Fields : cases[f] = "fabricated") => GroundingScore(cases) <= 40
<1> DEFINE mean == (ScoreField(cases["requirement_text"]) + ScoreField(cases["trigger_event"])
                    + ScoreField(cases["deadline_rule"]) + ScoreField(cases["responsible_role"])
                    + ScoreField(cases["evidence_required"]) + ScoreField(cases["penalty_ref"])) \div 6
           Has(c) == \E f \in Fields : cases[f] = c
           caps == (IF Has("dropped_condition") THEN {60} ELSE {}) \cup (IF Has("fabricated") THEN {40} ELSE {})
<1>1. \A f \in Fields : ScoreField(cases[f]) \in 0..100
  BY DEF ScoreField, FIELD_CASES
<1>2. mean \in 0..100
  <2>1. ASSUME NEW i \in 0..100, NEW j \in 0..100, NEW k \in 0..100, NEW l \in 0..100, NEW m \in 0..100, NEW n \in 0..100
        PROVE  (i + j + k + l + m + n) \div 6 \in 0..100
    <3>1. i + j + k + l + m + n \in 0..600
      OBVIOUS
    <3>2. ASSUME NEW q \in 0..600 PROVE q \div 6 \in 0..100
      OBVIOUS
    <3> QED  BY <3>1, <3>2
  <2>2. /\ ScoreField(cases["requirement_text"]) \in 0..100
        /\ ScoreField(cases["trigger_event"]) \in 0..100
        /\ ScoreField(cases["deadline_rule"]) \in 0..100
        /\ ScoreField(cases["responsible_role"]) \in 0..100
        /\ ScoreField(cases["evidence_required"]) \in 0..100
        /\ ScoreField(cases["penalty_ref"]) \in 0..100
    BY <1>1, Zenon DEF Fields
  <2> QED  BY <2>1, <2>2, ZenonT(60)
<1>3. GroundingScore(cases) = Min({mean} \cup caps)
  <2>1. {mean} \cup caps = {mean} \cup (IF Has("dropped_condition") THEN {60} ELSE {}) \cup (IF Has("fabricated") THEN {40} ELSE {})
    OBVIOUS
  <2> QED  BY <2>1 DEF GroundingScore
<1>4. caps \subseteq {40, 60} /\ (Has("dropped_condition") => 60 \in caps) /\ (Has("fabricated") => 40 \in caps)
  OBVIOUS
<1> HIDE DEF mean, caps
<1>5. Min({mean} \cup caps) \in {mean} \cup caps /\ \A n \in {mean} \cup caps : Min({mean} \cup caps) <= n
  <2>1. mean \in Nat /\ caps \subseteq {40, 60}
    BY <1>2, <1>4
  <2> QED  BY <2>1, MinOfThem, Zenon
<1>6. GroundingScore(cases) \in 0..100
  <2>1. caps \subseteq 0..100
    BY <1>4
  <2> HIDE DEF Has
  <2> QED  BY <1>2, <1>3, <1>5, <2>1
<1> QED  BY <1>3, <1>4, <1>5, <1>6

\* The graph's support is the only thing that lifts a confidence.
LEMMA ConfidenceIsClaimed ==
  ASSUME NEW d \in Drafts, context \in GraphRagContext
  PROVE  /\ Confidence(d) \in 0..100
         /\ Confidence(d) > d.certainty => ~context.degraded /\ d.category \in context.related
<1> DEFINE c == CompletenessPenalty(d)
           a == AmbiguityPenalty(d)
           b == GraphRagBonus(d)
           s == d.certainty - c - a + b
<1>1. c \in 0..35
  <2> DEFINE raw == (IF d.role = "unspecified" THEN 10 ELSE 0) + (IF d.evidence = "unspecified" THEN 10 ELSE 0)
                    + (IF d.penalty = None /\ clause.penaltyLanguage THEN 15 ELSE 0)
                    + (IF d.names \cap KnownNames = {} /\ d.names # {} THEN 10 ELSE 0)
  <2>1. raw \in 0..45 /\ c = Min({raw, 35})
    BY DEF CompletenessPenalty
  <2> HIDE DEF raw
  <2> QED  BY <2>1, MinOfTwo
<1>2. a \in 0..25
  <2> DEFINE raw == (IF d.hedged THEN 10 ELSE 0) + (IF d.names \ KnownNames # {} THEN 15 ELSE 0)
  <2>1. raw \in 0..25 /\ a = Min({raw, 25})
    BY DEF AmbiguityPenalty
  <2> HIDE DEF raw
  <2> QED  BY <2>1, MinOfTwo
<1>3. b \in 0..15 /\ (b # 0 => ~context.degraded /\ d.category \in context.related)
  BY DEF GraphRagBonus, FirstSeenForCategory
<1>4. d.certainty \in 0..100
  BY PipelineAssumption
<1>5. Confidence(d) = Max({0, Min({100, s})})
  BY DEF Confidence
<1> HIDE DEF a, b, c
<1>6. s \in Int /\ (b = 0 => s <= d.certainty)
  <2>1. b \in Int /\ b \in 0..15
    BY <1>3
  <2> QED  BY <1>1, <1>2, <1>4, <2>1, SMTT(30)
<1> HIDE DEF s
<1>7. Confidence(d) = IF s <= 0 THEN 0 ELSE IF 100 <= s THEN 100 ELSE s
  BY <1>5, <1>6, MinOfTwo, MaxOfTwo
<1> QED  BY <1>3, <1>4, <1>6, <1>7

\* Days and hours are numbers.
LEMMA HoursAreNumbers == ASSUME NEW rule, \A p \in rule : DeadlinePhrase(p) PROVE DeadlineHours(rule) \in Int
<1> DEFINE One(kind) == CHOOSE p \in Phrase(rule, kind) : TRUE
           Has(kind) == Phrase(rule, kind) # {}
           HoursTo(day) == IF day = None THEN 720 ELSE Max({0, 24 * (day - ReferenceDay)})
<1>1. \A kind : Has(kind) => One(kind) \in rule /\ One(kind).kind = kind
  BY DEF Phrase
<1>2. CASE Has("T+")
  <2>1. One("T+").n \in Nat
    BY <1>1, <1>2 DEF DeadlinePhrase
  <2> QED  BY <1>2, <2>1 DEF DeadlineHours
<1>3. CASE ~Has("T+") /\ Has("period")
  <2>1. One("period").n \in {"annual", "quarterly", "monthly", "weekly"}
    BY <1>1, <1>3 DEF DeadlinePhrase, PeriodDays
  <2>2. PeriodDays[One("period").n] \in Int
    BY <2>1 DEF PeriodDays
  <2> QED  BY <1>3, <2>2 DEF DeadlineHours
<1>4. CASE ~Has("T+") /\ ~Has("period") /\ Has("by")
  <2>1. One("by").n = None \/ One("by").n \in Int
    BY <1>1, <1>4 DEF DeadlinePhrase
  <2>2. ASSUME NEW day \in Int PROVE Max({0, 24 * (day - ReferenceDay)}) \in Int
    <3>1. 24 * (day - ReferenceDay) \in Int
      BY PipelineAssumption
    <3> HIDE DEF One, Has, HoursTo
    <3> QED  BY <3>1, MaxOfTwo
  <2>3. HoursTo(One("by").n) \in Int
    BY <2>1, <2>2
  <2> QED  BY <1>4, <2>3 DEF DeadlineHours
<1>5. CASE ~Has("T+") /\ ~Has("period") /\ ~Has("by")
  BY <1>5 DEF DeadlineHours
<1> QED  BY <1>2, <1>3, <1>4, <1>5

LEMMA DaysAreNumbers == ASSUME NEW rule, \A p \in rule : DeadlinePhrase(p) PROVE ProximityDays(rule) \in Int
<1>1. DeadlineHours(rule) \in Int
  BY HoursAreNumbers
<1>2. (DeadlineHours(rule) + 23) \div 24 \in Int
  BY <1>1
<1> QED  BY <1>2 DEF ProximityDays

LEMMA SeverityIsANumber == ASSUME NEW p PROVE PenaltySeverity(p) \in 0..100
<1> DEFINE amount == IF p.currency # None THEN p.currency ELSE p.bare
<1>1. (CASE amount = None -> 50
         [] amount # None -> IF amount >= 100 * LAKH THEN 90 ELSE IF amount >= 10 * LAKH THEN 70
                             ELSE IF amount >= LAKH THEN 50 ELSE 35) \in 0..100
  <2> HIDE DEF amount
  <2>1. CASE amount = None
    BY <2>1
  <2>2. CASE amount # None
    BY <2>2
  <2> QED  BY <2>1, <2>2
<1> HIDE DEF amount
<1> QED  BY <1>1 DEF PenaltySeverity, amount

\* The risk is a number that an overwrite does not lower: the score with that
\* much more for one.
Risks == 0..1000

RiskWith(severity, days, extra) == Min({1000, 5 * severity + 10 * Max({0, 30 - days}) + extra})

LEMMA RiskGrowsWithOverwrites ==
  ASSUME NEW severity \in 0..100, NEW days \in Int, NEW i \in Nat, NEW j \in Nat, i <= j
  PROVE  RiskWith(severity, days, i) \in Risks /\ RiskWith(severity, days, i) <= RiskWith(severity, days, j)
<1> DEFINE near == Max({0, 30 - days})
           low == 5 * severity + 10 * near + i
           high == 5 * severity + 10 * near + j
<1>1. near \in Nat
  BY MaxOfTwo
<1>2. RiskWith(severity, days, i) = Min({1000, low}) /\ RiskWith(severity, days, j) = Min({1000, high})
  BY DEF RiskWith
<1> HIDE DEF near
<1>3. low \in Nat /\ high \in Nat /\ low <= high
  BY <1>1
<1> HIDE DEF low, high
<1>4. Min({1000, low}) = (IF 1000 <= low THEN 1000 ELSE low) /\ Min({1000, high}) = (IF 1000 <= high THEN 1000 ELSE high)
  BY <1>3, MinOfTwo
<1> QED  BY <1>2, <1>3, <1>4 DEF Risks

LEMMA TierGrowsWithRisk ==
  ASSUME NEW r \in Int, NEW s \in Int, r <= s, NEW x, NEW conf, NEW g, NEW seen
  PROVE  /\ BaseTier(s, x, conf, g, seen) \in Tiers
         /\ Rank[BaseTier(r, x, conf, g, seen)] <= Rank[BaseTier(s, x, conf, g, seen)]
<1>1. CASE x \/ g < 50
  BY <1>1 DEF BaseTier, Rank, Tiers
<1>2. CASE ~(x \/ g < 50)
  BY <1>2 DEF BaseTier, Rank, Tiers
<1> QED  BY <1>1, <1>2

-----------------------------------------------------------------------------
LEMMA RoutingInvAtFirst == PipelineInit => RoutingInv
<1> SUFFICES ASSUME PipelineInit PROVE RoutingInv
  OBVIOUS
<1>1. context \in GraphRagContext
  BY DEF PipelineInit, NoContext, GraphRagContext
<1>2. critic \in CriticState /\ critic.at = "lookup"
  BY DEF PipelineInit, NoCritic, CriticState
<1>3. mapping \in MappingState /\ MappingFacts /\ OverwriteCheckResult(mapping) /\ FirstSeenCheckResult(mapping)
  BY DEF PipelineInit, NoMapping, MappingState, MappingFacts, OverwriteCheckResult, FirstSeenCheckResult, MatchPaths
<1>4. /\ \A o \in Obligations : graph[o] \in StatesOf[o]
      /\ DOMAIN graph = Obligations
  BY DEF PipelineInit
<1>5. PipelineTypeOK
  BY <1>1, <1>2, <1>3, <1>4, PipelineAssumption DEF PipelineTypeOK, PipelineInit, CriticState, MappingState, READ_RETRIES
<1>6. ContextFacts /\ DraftFacts /\ VerificationFacts /\ RoutingIsCautious
  BY <1>2 DEF PipelineInit, NoContext, ContextFacts, DraftFacts, VerificationFacts, RoutingIsCautious
<1> QED  BY <1>2, <1>3, <1>4, <1>5, <1>6 DEF RoutingInv

\* A failure is counted.
LEMMA CallFailsCounts == ASSUME RoutingInv, CallFails \/ UNCHANGED faults PROVE faults' \in 0..MaxCallFailures
BY PipelineAssumption DEF RoutingInv, PipelineTypeOK, CallFails

\* Another run changes the graph: the run at hand has what it read.
LEMMA ChangeKeepsInv ==
  ASSUME RoutingInv, NEW o \in Obligations, NEW v \in StatesOf[o], Change(o, v)
  PROVE  RoutingInv'
<1>1. /\ \A q \in Obligations : graph'[q] \in StatesOf[q]
      /\ DOMAIN graph' = Obligations
  BY DEF RoutingInv, PipelineTypeOK, Change
<1>2. rivals' \in 0..MaxRivals
  BY PipelineAssumption DEF RoutingInv, PipelineTypeOK, Change
<1>3. PipelineTypeOK'
  BY <1>1, <1>2 DEF RoutingInv, PipelineTypeOK, Change, OverwriteCheckResult, FirstSeenCheckResult, TierDecision
<1>4. RoutingIsCautious'
  BY DEF Change, RoutingIsCautious
<1> QED
  BY <1>1, <1>3, <1>4 DEF RoutingInv, Change, ContextFacts, DraftFacts, VerificationFacts, MappingFacts

\* The extraction, up to the proposal.
LEMMA ExtractionKeepsInv ==
  ASSUME RoutingInv, ExtractOnly, stage \notin {"branches", "done"}, stage' \notin {"branches", "done"},
         stage' \in {"categories", "similar", "related", "generate", "informational", "failed"},
         tries' \in 0..READ_RETRIES, context' \in GraphRagContext, draft' = draft, CallFails \/ UNCHANGED faults, ContextFacts'
  PROVE  RoutingInv'
<1>1. PipelineTypeOK'
  BY CallFailsCounts DEF RoutingInv, PipelineTypeOK, ExtractOnly, OverwriteCheckResult, FirstSeenCheckResult, TierDecision
<1>2. DraftFacts' /\ VerificationFacts' /\ MappingFacts' /\ RoutingIsCautious'
  BY DEF RoutingInv, ExtractOnly, DraftFacts, VerificationFacts, MappingFacts, RoutingIsCautious
<1> QED  BY <1>1, <1>2, SMTT(30) DEF RoutingInv, ExtractOnly

\* What a lookup of the context finds.
LEMMA ReadKeepsInv ==
  ASSUME RoutingInv, NEW point \in {"categories", "similar", "related"}, NEW found \in GraphRagContext,
         NEW without \in GraphRagContext, NEW next \in {"similar", "related", "generate"},
         Read(point, found, next, without),
         next # "generate" => point # "related" /\ found.related = {},
         next = "related" => found.similar,
         found.related # {} => found.similar,
         without.related = {}
  PROVE  RoutingInv'
<1>1. tries' \in 0..READ_RETRIES
  BY DEF Read, RoutingInv, PipelineTypeOK, READ_RETRIES
<1>2. context' \in GraphRagContext /\ stage' \in {"categories", "similar", "related", "generate"}
  BY DEF Read, RoutingInv, PipelineTypeOK
<1>3. ContextFacts'
  BY DEF Read, RoutingInv, ContextFacts
<1> QED  BY <1>1, <1>2, <1>3, ExtractionKeepsInv DEF Read

LEMMA ExtractionStepKeepsInv ==
  ASSUME RoutingInv, CheckClause \/ ListCategories \/ NoEmbedding \/ FindSimilar \/ FindRelated
  PROVE  RoutingInv'
<1>1. context \in GraphRagContext /\ clause \in Clauses
  BY DEF RoutingInv, PipelineTypeOK
<1>2. Degraded \in GraphRagContext /\ Degraded.related = context.related
  BY <1>1 DEF Degraded, GraphRagContext
<1>3. CASE CheckClause
  <2>1. stage' \in {"informational", "failed", "categories"}
    BY <1>1, <1>3, PipelineAssumption DEF CheckClause
  <2>2. ContextFacts' /\ UNCHANGED <<tries, context, draft, faults>> /\ stage = "start" /\ ExtractOnly
    BY <1>3, <2>1 DEF CheckClause, ContextFacts, RoutingInv
  <2> QED  BY <1>1, <2>1, <2>2, ExtractionKeepsInv DEF RoutingInv, PipelineTypeOK
<1>4. CASE ListCategories
  <2> DEFINE found == [context EXCEPT !.known = clause.categories]
  <2>1. found \in GraphRagContext /\ found.related = context.related /\ found.similar = context.similar
    BY <1>1 DEF GraphRagContext
  <2>2. stage = "categories" /\ context.related = {}
    BY <1>4 DEF ListCategories, Read, RoutingInv, ContextFacts
  <2>3. Read("categories", found, "similar", context)
    BY <1>4 DEF ListCategories
  <2> HIDE DEF found
  <2> QED  BY <1>1, <2>1, <2>2, <2>3, ReadKeepsInv
<1>5. CASE NoEmbedding
  <2>1. context'.related = {} /\ stage' = "generate" /\ context' = Degraded
    BY <1>2, <1>5 DEF NoEmbedding, RoutingInv, ContextFacts
  <2>2. ContextFacts' /\ UNCHANGED <<tries, draft, faults>> /\ stage = "similar" /\ ExtractOnly
    BY <1>5, <2>1 DEF NoEmbedding, ContextFacts
  <2> QED  BY <1>2, <2>1, <2>2, ExtractionKeepsInv DEF RoutingInv, PipelineTypeOK
<1>6. CASE FindSimilar
  <2> DEFINE found == [context EXCEPT !.similar = clause.neighbours # {}, !.top = clause.top]
             next == IF clause.neighbours = {} THEN "generate" ELSE "related"
  <2>1. found \in GraphRagContext /\ found.related = context.related /\ found.similar = (clause.neighbours # {})
    BY <1>1, PipelineAssumption DEF GraphRagContext
  <2>2. stage = "similar" /\ context.related = {}
    BY <1>6 DEF FindSimilar, Read, RoutingInv, ContextFacts
  <2>3. Read("similar", found, next, Degraded)
    BY <1>6 DEF FindSimilar
  <2>4. next \in {"related", "generate"} /\ (next = "related" => found.similar)
    BY <2>1
  <2> HIDE DEF found, next
  <2> QED  BY <1>2, <2>1, <2>2, <2>3, <2>4, ReadKeepsInv, SMTT(30)
<1>7. CASE FindRelated
  <2> DEFINE names == {graph[o].category : o \in RelatedObligations}
             found == [context EXCEPT !.related = names]
  <2>1. names \subseteq {v.category : v \in (UNION {StatesOf[o] : o \in Obligations}) \ {None}}
    BY DEF RelatedObligations, There, RoutingInv, PipelineTypeOK
  <2>2. found \in GraphRagContext /\ found.similar = context.similar
    BY <1>1, <2>1 DEF GraphRagContext
  <2>3. stage = "related" /\ context.related = {} /\ context.similar
    BY <1>7 DEF FindRelated, Read, RoutingInv, ContextFacts
  <2>4. Read("related", found, "generate", Degraded)
    BY <1>7 DEF FindRelated
  <2> HIDE DEF found
  <2> QED  BY <1>2, <2>2, <2>3, <2>4, ReadKeepsInv
<1> QED  BY <1>3, <1>4, <1>5, <1>6, <1>7

LEMMA ProposeKeepsInv == ASSUME RoutingInv, Propose PROVE RoutingInv'
<1>1. context \in GraphRagContext
  BY DEF RoutingInv, PipelineTypeOK
<1>2. confidence' \in 0..100 /\ draft' \in Drafts \cup {None} /\ tries' \in 0..READ_RETRIES /\ stage' \in {"branches", "informational", "failed", "generate"}
  BY <1>1, ConfidenceIsClaimed DEF Propose, RoutingInv, PipelineTypeOK, READ_RETRIES, MODEL_RETRIES
<1>3. faults' \in 0..MaxCallFailures
  BY CallFailsCounts DEF Propose
<1>4. PipelineTypeOK'
  BY <1>2, <1>3 DEF Propose, RoutingInv, PipelineTypeOK, OverwriteCheckResult, FirstSeenCheckResult, TierDecision
<1>5. DraftFacts'
  <2>1. CASE stage' # "branches"
    BY <1>2, <2>1 DEF DraftFacts
  <2>2. CASE stage' = "branches"
    <3>1. PICK d \in Drafts : draft' = d /\ confidence' = Confidence(d)
      BY <2>2 DEF Propose
    <3>2. Confidence(d) > d.certainty => ~context.degraded /\ context.related # {}
      BY <1>1, ConfidenceIsClaimed
    <3>3. context' = context /\ (context.related # {} => context.similar)
      BY DEF Propose, RoutingInv, ContextFacts
    <3> QED  BY <3>1, <3>2, <3>3 DEF DraftFacts
  <2> QED  BY <2>1, <2>2
<1>6. ContextFacts'
  BY <1>2 DEF Propose, RoutingInv, ContextFacts
<1>7. VerificationFacts' /\ MappingFacts' /\ RoutingIsCautious'
  BY <1>2 DEF Propose, RoutingInv, VerificationFacts, MappingFacts, RoutingIsCautious
<1> QED  BY <1>4, <1>5, <1>6, <1>7 DEF RoutingInv, Propose

\* The critic's steps.
LEMMA CriticStepKeepsInv ==
  ASSUME RoutingInv, CriticOnly, stage = "branches", stage' \in {"branches", "failed"}, CallFails \/ UNCHANGED faults,
         critic' \in CriticState, verification' \in GroundingVerificationOutput \cup {None}, VerificationFacts'
  PROVE  RoutingInv'
<1>1. PipelineTypeOK'
  BY CallFailsCounts DEF RoutingInv, PipelineTypeOK, CriticOnly, CriticState, OverwriteCheckResult, FirstSeenCheckResult, TierDecision
<1>2. ContextFacts' /\ DraftFacts' /\ MappingFacts' /\ RoutingIsCautious'
  BY DEF RoutingInv, CriticOnly, ContextFacts, DraftFacts, MappingFacts, RoutingIsCautious
<1> QED  BY <1>1, <1>2, SMTT(30) DEF RoutingInv, CriticOnly

LEMMA VerifyIsTrue ==
  ASSUME RoutingInv, NEW cases \in Assessments, NEW claimed \in SUBSET Obligations
  PROVE  LET v == Verify(cases, claimed)
         IN /\ v \in GroundingVerificationOutput
            /\ critic.skipped => v.verdict # "pass" /\ v.conflicts = {}
            /\ (\E f \in Fields : v.cases[f] = "dropped_condition") => v.grounding_score <= 60
            /\ (\E f \in Fields : v.cases[f] = "fabricated") => v.grounding_score <= 40
<1> DEFINE score == GroundingScore(cases)
           conflicts == IF critic.skipped THEN {} ELSE claimed \cap critic.candidates
           verdict == IF critic.skipped /\ Verdict(score) = "pass" THEN "borderline" ELSE Verdict(score)
<1>1. cases \in [Fields -> FIELD_CASES]
  BY PipelineAssumption
<1>2. Verify(cases, claimed) = [grounding_score |-> score, cases |-> cases, conflicts |-> conflicts, verdict |-> verdict]
  BY DEF Verify
<1>3. verdict \in Verdicts /\ (critic.skipped => verdict # "pass")
  BY DEF Verdict, Verdicts
<1>4. conflicts \in SUBSET Obligations /\ (critic.skipped => conflicts = {})
  OBVIOUS
<1>5. /\ score \in 0..100
      /\ (\E f \in Fields : cases[f] = "dropped_condition") => score <= 60
      /\ (\E f \in Fields : cases[f] = "fabricated") => score <= 40
  BY <1>1, GroundingScoreIsCapped
<1> HIDE DEF score, conflicts, verdict
<1>6. Verify(cases, claimed) \in GroundingVerificationOutput
  BY <1>1, <1>2, <1>3, <1>4, <1>5 DEF GroundingVerificationOutput
<1> QED  BY <1>2, <1>3, <1>4, <1>5, <1>6

LEMMA CriticKeepsInv == ASSUME RoutingInv, LookupCandidates \/ Judge \/ CriticTimeout PROVE RoutingInv'
<1>1. critic \in CriticState /\ verification \in GroundingVerificationOutput \cup {None}
  BY DEF RoutingInv, PipelineTypeOK
<1>2. CASE LookupCandidates
  <2>1. ContradictionCandidates \subseteq Obligations
    BY DEF ContradictionCandidates, There
  <2>2. critic' \in CriticState /\ critic'.at # "done"
    BY <1>1, <1>2, <2>1 DEF LookupCandidates, CriticState
  <2>3. VerificationFacts'
    BY <2>2 DEF VerificationFacts
  <2> QED  BY <1>1, <1>2, <2>2, <2>3, CriticStepKeepsInv DEF LookupCandidates
<1>3. CASE Judge
  <2>1. ASSUME NEW cases \in Assessments, NEW claimed \in SUBSET Obligations, verification' = Verify(cases, claimed),
               critic' = [critic EXCEPT !.at = "done"], UNCHANGED <<stage, faults>>
        PROVE  RoutingInv'
    <3>1. critic' \in CriticState /\ critic'.skipped = critic.skipped
      BY <1>1, <2>1 DEF CriticState
    <3>2. VerificationFacts' /\ verification' \in GroundingVerificationOutput
      BY <2>1, <3>1, VerifyIsTrue DEF VerificationFacts
    <3>3. stage = "branches" /\ CriticOnly
      BY <1>3 DEF Judge
    <3> QED  BY <2>1, <3>1, <3>2, <3>3, CriticStepKeepsInv
  <2>2. ASSUME CallFails, UNCHANGED verification,
               \/ critic' = [critic EXCEPT !.tries = @ + 1] /\ UNCHANGED stage
               \/ stage' = "failed" /\ UNCHANGED critic
        PROVE  RoutingInv'
    <3>1. critic' \in CriticState /\ critic'.at = "generate"
      BY <1>1, <1>3, <2>2 DEF CriticState, Judge
    <3>2. VerificationFacts'
      BY <3>1 DEF VerificationFacts
    <3>3. stage = "branches" /\ CriticOnly /\ stage' \in {"branches", "failed"}
      BY <1>3, <2>2 DEF Judge
    <3> QED  BY <1>1, <2>2, <3>1, <3>2, <3>3, CriticStepKeepsInv
  <2> QED  BY <1>3, <2>1, <2>2 DEF Judge
<1>4. CASE CriticTimeout
  <2>1. VerificationFacts'
    BY <1>4 DEF CriticTimeout, VerificationFacts
  <2> QED  BY <1>1, <1>4, <2>1, CriticStepKeepsInv DEF CriticTimeout
<1> QED  BY <1>2, <1>3, <1>4

\* The lookups of the mapping.
LEMMA MappingStepKeepsInv ==
  ASSUME RoutingInv, MappingOnly, stage = "branches", CallFails \/ UNCHANGED faults, mapping' \in MappingState, MappingFacts',
         OverwriteCheckResult(mapping'), FirstSeenCheckResult(mapping')
  PROVE  RoutingInv'
<1>1. PipelineTypeOK'
  BY CallFailsCounts DEF RoutingInv, PipelineTypeOK, MappingOnly, MappingState, TierDecision
<1>2. ContextFacts' /\ DraftFacts' /\ VerificationFacts' /\ RoutingIsCautious'
  BY DEF RoutingInv, MappingOnly, ContextFacts, DraftFacts, VerificationFacts, RoutingIsCautious
<1> QED  BY <1>1, <1>2, SMTT(30) DEF RoutingInv, MappingOnly

LEMMA MappingAnswers ==
  ASSUME RoutingInv, mapping.overwriteAt # "done", NEW m,
         \/ m = [mapping EXCEPT !.overwriteAt = "heuristic"]
         \/ m = [mapping EXCEPT !.overwriteAt = "done"]
         \/ m = OverwriteDegraded
         \/ \E path \in {"explicit", "heuristic"} : \E o \in Obligations : m = Overwrites(path, o)
  PROVE  /\ m \in MappingState
         /\ OverwriteCheckResult(m) /\ FirstSeenCheckResult(m)
         /\ m.overwrites /\ ~m.degraded => m.matchPath # None
         /\ m.overwriteAt # "done" => ~m.overwrites /\ ~m.degraded /\ m.matchPath = None /\ m.overwritten = None
         /\ ~m.firstSeenDone => m.firstSeen /\ ~m.firstSeenDegraded
<1>1. mapping \in MappingState /\ MappingFacts /\ OverwriteCheckResult(mapping) /\ FirstSeenCheckResult(mapping)
  BY DEF RoutingInv, PipelineTypeOK
<1>2. CASE m = [mapping EXCEPT !.overwriteAt = "heuristic"]
  BY <1>1, <1>2 DEF MappingState, MappingFacts, OverwriteCheckResult, FirstSeenCheckResult
<1>3. CASE m = [mapping EXCEPT !.overwriteAt = "done"]
  BY <1>1, <1>3 DEF MappingState, MappingFacts, OverwriteCheckResult, FirstSeenCheckResult
<1>4. CASE m = OverwriteDegraded
  BY <1>1, <1>4 DEF OverwriteDegraded, MappingState, MappingFacts, OverwriteCheckResult, FirstSeenCheckResult
<1>5. ASSUME NEW path \in {"explicit", "heuristic"}, NEW o \in Obligations, m = Overwrites(path, o)
      PROVE  /\ m \in MappingState
             /\ OverwriteCheckResult(m) /\ FirstSeenCheckResult(m)
             /\ m.matchPath # None /\ m.overwriteAt = "done"
             /\ ~m.firstSeenDone => m.firstSeen /\ ~m.firstSeenDegraded
  <2>1. path \in MatchPaths /\ path # None /\ o # None
    BY PipelineAssumption DEF MatchPaths
  <2> QED  BY <1>1, <1>5, <2>1 DEF Overwrites, MappingState, MappingFacts, OverwriteCheckResult, FirstSeenCheckResult
<1> QED  BY <1>2, <1>3, <1>4, <1>5

LEMMA MappingKeepsInv == ASSUME RoutingInv, FindExplicit \/ FindHeuristic \/ FindFirstSeen PROVE RoutingInv'
<1>1. mapping \in MappingState /\ MappingFacts /\ OverwriteCheckResult(mapping) /\ FirstSeenCheckResult(mapping) /\ clause \in Clauses
  BY DEF RoutingInv, PipelineTypeOK
<1>2. CASE FindExplicit \/ FindHeuristic
  <2>1. ExplicitRows \subseteq Obligations /\ HeuristicRows \subseteq Obligations
    BY <1>1, PipelineAssumption DEF ExplicitRows, HeuristicRows
  <2>2. /\ mapping.overwriteAt # "done" /\ stage = "branches" /\ MappingOnly /\ (CallFails \/ UNCHANGED faults)
        /\ \/ mapping' = [mapping EXCEPT !.overwriteAt = "heuristic"]
           \/ mapping' = [mapping EXCEPT !.overwriteAt = "done"]
           \/ mapping' = OverwriteDegraded
           \/ \E path \in {"explicit", "heuristic"} : \E o \in Obligations : mapping' = Overwrites(path, o)
    BY <1>2, <2>1 DEF FindExplicit, FindHeuristic
  <2>3. mapping' \in MappingState /\ MappingFacts' /\ OverwriteCheckResult(mapping') /\ FirstSeenCheckResult(mapping')
    BY <2>2, MappingAnswers DEF MappingFacts
  <2> QED  BY <2>2, <2>3, MappingStepKeepsInv
<1>3. CASE FindFirstSeen
  <2>1. TypeSeen \in BOOLEAN
    BY DEF TypeSeen
  <2>2. \/ mapping' = [mapping EXCEPT !.firstSeenDone = TRUE, !.firstSeen = ~TypeSeen]
        \/ mapping' = [mapping EXCEPT !.firstSeenDone = TRUE, !.firstSeenDegraded = TRUE]
    BY <1>3 DEF FindFirstSeen
  <2>3. ~mapping.firstSeenDone /\ stage = "branches" /\ MappingOnly /\ (CallFails \/ UNCHANGED faults)
    BY <1>3 DEF FindFirstSeen
  <2>4. mapping' \in MappingState /\ MappingFacts' /\ OverwriteCheckResult(mapping') /\ FirstSeenCheckResult(mapping')
    <3>1. mapping' \in MappingState
      BY <1>1, <2>1, <2>2 DEF MappingState
    <3>2. UNCHANGED <<mapping.overwriteAt, mapping.overwrites, mapping.matchPath, mapping.overwritten, mapping.degraded>>
      BY <1>1, <2>2 DEF MappingState
    <3>3. mapping'.firstSeenDone /\ FirstSeenCheckResult(mapping')
      <4>1. mapping.firstSeen /\ ~mapping.firstSeenDegraded
        BY <1>1, <2>3 DEF MappingFacts
      <4>2. CASE mapping' = [mapping EXCEPT !.firstSeenDone = TRUE, !.firstSeen = ~TypeSeen]
        BY <1>1, <4>1, <4>2 DEF MappingState, FirstSeenCheckResult
      <4>3. CASE mapping' = [mapping EXCEPT !.firstSeenDone = TRUE, !.firstSeenDegraded = TRUE]
        BY <1>1, <4>1, <4>3 DEF MappingState, FirstSeenCheckResult
      <4> QED  BY <2>2, <4>2, <4>3
    <3>4. OverwriteCheckResult(mapping')
      BY <1>1, <3>2 DEF OverwriteCheckResult
    <3> QED  BY <1>1, <3>1, <3>2, <3>3, <3>4 DEF MappingFacts
  <2> QED  BY <2>3, <2>4, MappingStepKeepsInv
<1> QED  BY <1>2, <1>3

-----------------------------------------------------------------------------
LEMMA ScoreGrowsWithOverwrites ==
  ASSUME NEW severity \in 0..100, NEW days \in Int, NEW m, NEW n, m.overwrites => n.overwrites
  PROVE  /\ RiskScore(severity, days, m.overwrites) \in Risks
         /\ RiskScore(severity, days, m.overwrites) <= RiskScore(severity, days, n.overwrites)
<1> DEFINE Extra(x) == IF x.overwrites THEN 300 ELSE 0
<1>1. \A x : RiskScore(severity, days, x.overwrites) = RiskWith(severity, days, Extra(x))
  BY DEF RiskScore, RiskWith
<1>2. PICK i \in Nat, j \in Nat : i = Extra(m) /\ j = Extra(n) /\ i <= j
  OBVIOUS
<1>3. RiskWith(severity, days, i) \in Risks /\ RiskWith(severity, days, i) <= RiskWith(severity, days, j)
  <2>1. i \in Nat /\ j \in Nat /\ i <= j
    BY <1>2
  <2> QED  BY <2>1, RiskGrowsWithOverwrites, Zenon
<1>4. RiskScore(severity, days, m.overwrites) = RiskWith(severity, days, i) /\ RiskScore(severity, days, n.overwrites) = RiskWith(severity, days, j)
  BY <1>1, <1>2
<1> QED  BY <1>3, <1>4

\* What the tier rests on, when both branches have answered: the risk of the
\* mapping, and of one without the overwrite.
LEMMA RiskIsANumber ==
  ASSUME RoutingInv, stage = "branches", NEW m, m.overwrites => mapping.overwrites
  PROVE  Risk(m) \in Risks /\ Risk(m) <= Risk(mapping)
<1>1. draft \in Drafts
  BY DEF RoutingInv, DraftFacts
<1>2. ProximityDays(draft.deadline) \in Int
  BY <1>1, DaysAreNumbers, PipelineAssumption
<1>3. PenaltySeverity(draft.penalty) \in 0..100
  BY SeverityIsANumber
<1> QED  BY <1>2, <1>3, ScoreGrowsWithOverwrites, Zenon DEF Risk

LEMMA RouteKeepsInv == ASSUME RoutingInv, Route PROVE RoutingInv'
<1> DEFINE doubtful == verification.conflicts # {} \/ verification.verdict = "fail"
           score == verification.grounding_score
           base == BaseTier(Risk(mapping), doubtful, confidence, score, mapping.firstSeen)
<1>1. /\ stage = "branches" /\ critic.at = "done" /\ mapping.overwriteAt = "done" /\ mapping.firstSeenDone
      /\ stage' = "done"
      /\ decision' = [tier |-> Tier, risk |-> Risk(mapping), plan |-> PreReviewPlan(Tier)]
      /\ UNCHANGED <<graph, clause, tries, context, draft, confidence, critic, verification, mapping, faults, rivals>>
  BY DEF Route
<1>2. Risk(mapping) \in 0..1000
  BY <1>1, RiskIsANumber DEF Risks
<1>3. base \in Tiers
  <2>1. Risk(mapping) \in Int
    BY <1>2
  <2> QED  BY <2>1, TierGrowsWithRisk
<1>4. /\ Tier \in Tiers /\ (Tier # base => base = "A" /\ Tier = "B")
      /\ Tier = "A" => base = "A" /\ verification.verdict # "borderline" /\ mapping.matchPath # "heuristic"
  BY <1>3 DEF Tier, Floored, Tiers
<1>5. base = "A" => ~doubtful /\ score >= 85 /\ ~mapping.firstSeen
  BY DEF BaseTier
<1>6. /\ verification \in GroundingVerificationOutput
      /\ critic.skipped => verification.verdict # "pass" /\ verification.conflicts = {}
      /\ (\E f \in Fields : verification.cases[f] = "dropped_condition") => score <= 60
      /\ (\E f \in Fields : verification.cases[f] = "fabricated") => score <= 40
  BY <1>1 DEF RoutingInv, VerificationFacts
<1>7. score \in 0..100 /\ verification.verdict \in Verdicts
  BY <1>6 DEF GroundingVerificationOutput
<1>8. decision'.tier = Tier /\ decision'.plan = PreReviewPlan(Tier) /\ decision'.risk = Risk(mapping)
  BY <1>1
<1>9. TierAIsEarned'
  <2> SUFFICES ASSUME Tier = "A" PROVE TierAIsEarned'
    BY <1>8 DEF TierAIsEarned
  <2>1. ~doubtful /\ score >= 85 /\ ~mapping.firstSeen /\ verification.verdict # "borderline" /\ mapping.matchPath # "heuristic"
    BY <1>4, <1>5
  <2>2. verification.conflicts = {} /\ verification.verdict = "pass" /\ ~critic.skipped
    BY <1>6, <1>7, <2>1 DEF Verdicts
  <2>3. \A f \in Fields : verification.cases[f] \notin {"fabricated", "dropped_condition"}
    BY <1>6, <1>7, <2>1
  <2>4. ~mapping.firstSeenDegraded
    BY <2>1 DEF RoutingInv, PipelineTypeOK, FirstSeenCheckResult
  <2>5. mapping.overwrites => mapping.matchPath = "explicit" \/ mapping.degraded
    BY <2>1 DEF RoutingInv, MappingFacts, MappingState, MatchPaths
  <2>6. mapping.matchPath = "explicit" <=> decision'.plan.supersedes # None
    <3>1. decision'.plan.supersedes = IF mapping.matchPath = "explicit" THEN mapping.overwritten ELSE None
      BY <1>8 DEF PreReviewPlan
    <3>2. mapping.matchPath = "explicit" => mapping.overwritten # None
      BY PipelineAssumption DEF RoutingInv, PipelineTypeOK, OverwriteCheckResult
    <3> QED  BY <3>1, <3>2
  <2>7. confidence > draft.certainty => ~context.degraded /\ context.similar
    BY <1>1 DEF RoutingInv, DraftFacts
  <2> QED  BY <1>1, <2>2, <2>3, <2>4, <2>5, <2>6, <2>7 DEF TierAIsEarned
<1>10. DoubtEscalates'
  <2>1. (verification.conflicts # {} \/ \E f \in Fields : verification.cases[f] = "fabricated") => base = "ESCALATE"
    BY <1>6, <1>7 DEF BaseTier
  <2>2. base = "ESCALATE" => Tier = "ESCALATE"
    BY <1>4
  <2> QED  BY <1>1, <1>8, <2>1, <2>2 DEF DoubtEscalates
<1>11. FailureIsNotTrusted'
  <2> DEFINE clean == [mapping EXCEPT !.overwrites = mapping.overwrites /\ ~mapping.degraded]
             tier == BaseTier(Risk(clean), doubtful, confidence, score, mapping.firstSeen)
  <2>1. clean.overwrites => mapping.overwrites
    BY DEF RoutingInv, MappingState
  <2>2. Risk(clean) \in 0..1000 /\ Risk(clean) <= Risk(mapping)
    <3> HIDE DEF clean
    <3> QED  BY <1>1, <2>1, RiskIsANumber, SMTT(30) DEF Risks
  <2>3. Rank[tier] <= Rank[base] /\ tier \in Tiers
    BY <1>2, <2>2, TierGrowsWithRisk, SMTT(30)
  <2>4. Rank[base] <= Rank[Tier]
    BY <1>3, <1>4 DEF Rank, Tiers
  <2>5. Rank[decision'.tier] >= Rank[tier]
    BY <1>3, <1>4, <1>8, <2>3, <2>4 DEF Rank, Tiers
  <2> HIDE DEF tier
  <2>6. tier' = tier
    BY <1>1 DEF tier, Risk
  <2> QED  BY <2>5, <2>6 DEF FailureIsNotTrusted, tier
<1>12. PipelineTypeOK'
  BY <1>1, <1>2, <1>4, <1>8 DEF RoutingInv, PipelineTypeOK, TierDecision, OverwriteCheckResult, FirstSeenCheckResult
<1>13. ContextFacts' /\ DraftFacts' /\ VerificationFacts' /\ MappingFacts'
  BY <1>1 DEF RoutingInv, ContextFacts, DraftFacts, VerificationFacts, MappingFacts
<1> QED  BY <1>1, <1>9, <1>10, <1>11, <1>12, <1>13 DEF RoutingInv, RoutingIsCautious

LEMMA PipelineNextKeepsInv == ASSUME RoutingInv, [PipelineNext]_pipelineVars PROVE RoutingInv'
<1>1. CASE UNCHANGED pipelineVars
  BY <1>1 DEF pipelineVars, RoutingInv, PipelineTypeOK, OverwriteCheckResult, FirstSeenCheckResult, TierDecision,
    ContextFacts, DraftFacts, VerificationFacts, MappingFacts, RoutingIsCautious, TierAIsEarned, DoubtEscalates,
    FailureIsNotTrusted, Risk
<1> QED
  BY <1>1, ExtractionStepKeepsInv, ProposeKeepsInv, CriticKeepsInv, MappingKeepsInv, RouteKeepsInv, ChangeKeepsInv DEF PipelineNext

\* The routing's inductive invariant: what each step of the pipeline leaves of
\* the context, the draft, the verification and the mapping
\* (obligation-extraction, grounding-verification and mapping agents).
THEOREM RoutingInvAlways == PipelineSpec => []RoutingInv
<1>1. RoutingInv /\ [PipelineNext]_pipelineVars => RoutingInv'
  BY PipelineNextKeepsInv
<1> QED  BY RoutingInvAtFirst, <1>1, PTL DEF PipelineSpec

\* Whatever the models answer, whichever lookups fail and whatever other runs
\* commit: tier A is earned, doubt escalates and no failure lowers a tier
\* (routeTier, routeAndPreCommit), for any clauses, drafts and assessments.
THEOREM RoutingAlwaysCautious == PipelineSpec => []RoutingIsCautious
<1>1. RoutingInv => RoutingIsCautious
  BY DEF RoutingInv
<1> QED  BY <1>1, RoutingInvAlways, PTL

=============================================================================
