-------------------------- MODULE RegulatoryWatch --------------------------
(***************************************************************************)
(* The regulatory watch (regulatory-watch.agent.ts): a poll cycle fetches  *)
(* the listing pages one after the other and the circulars of a listing in *)
(* batches, tells new and amended circulars from known ones, and starts a  *)
(* run of the orchestrator for each.  Every await ends an action: fetches  *)
(* and lookups fail, circulars change and get committed in between, and    *)
(* another cycle may be due while one is in progress.                      *)
(*                                                                         *)
(* A page is its content; likeness of titles is a number in hundredths.    *)
(***************************************************************************)
EXTENDS Naturals, Sequences, FiniteSets, SequencesExt, NoValue

CONSTANTS
  Pages,          \* contents of circular pages, by what their hash is
  Listings,       \* of each listing page, the sequences of circulars it may hold
  Short,          \* pages whose body is below minBodyChars
  AmendingPages,  \* pages with the language of an amendment
  TitleLikeness(_, _),   \* titleSimilarity of two pages' titles
  PhraseLikeness(_, _),  \* that of the title a page refers to
  maxRetries,
  detailFetchConcurrency,
  Cycles,
  MaxFailures,    \* fetches, lookups and deliveries that fail
  MaxChanges      \* listings that change, circulars that are committed

ASSUME WatchAssumption ==
  /\ Listings \in Seq(SUBSET Seq(Pages))
  /\ \A p, q \in Pages : TitleLikeness(p, q) \in 0..100 /\ PhraseLikeness(p, q) \in 0..100
  /\ maxRetries \in Nat /\ detailFetchConcurrency \in Nat \ {0}
  /\ MaxFailures \in Nat /\ MaxChanges \in Nat
  /\ None \notin Pages \cup {"new", "amendment"}

VARIABLES
  site,            \* what each listing holds
  ingested,        \* graph: circulars, by the source_hash that is theirs alone
  live,            \* graph: those with valid_to = NULL
  pollInProgress,
  poll,            \* the state of each cycle
  rowCountHistory, \* rows of the last poll that saw any, by listing
  triggers,        \* events delivered to the orchestrator
  failures, changes

watchVars == <<site, ingested, live, pollInProgress, poll, rowCountHistory, triggers, failures, changes>>

FULL_DOCUMENT_SIMILARITY_THRESHOLD == 85
AMENDMENT_TARGET_SIMILARITY_THRESHOLD == 70
LIKENESS_FLOOR == 30

UrlIds == DOMAIN Listings
Places == UrlIds \X Nat  \* an entry of a listing; number 0 is the listing itself
ChangeTypes == {"new", "amendment"}
Stages == {"listing_fetch", "detail_fetch", "change_detect", "trigger_emit"}
NoWork == [at |-> "none", page |-> None, tries |-> 0, type |-> None, other |-> None]
NoPoll == [at |-> "none", url |-> 1, tries |-> 0, rows |-> <<>>, base |-> 0, work |-> <<>>,
           seen |-> {}, unchanged |-> {}, errors |-> {}, alerts |-> {}, emptied |-> {}, triggersEmitted |-> 0, known |-> {}]

PollError == [stage: Stages, place: Places]
RegulatoryWatchTriggerEvent ==
  [cycle: Cycles, place: Places, page: Pages, type: ChangeTypes, supersedes: Pages \cup {None}, target: Pages \cup {None}]
AlertKinds == {"selector_mismatch", "upstream_unavailable", "concurrent_run_skipped"}

Work ==
  {w \in [at: {"fetch", "hash", "fuzzy", "context", "emit", "false", "true"}, page: Pages, tries: 0..maxRetries,
          type: ChangeTypes \cup {None}, other: Pages \cup {None}] :
     w.at \in {"context", "emit"} => w.type # None}
Poll == [at: {"none", "listing", "batch", "end", "skipped"}, url: 1..(Len(Listings) + 1), tries: 0..maxRetries,
         rows: Seq(Pages), base: Nat, work: Seq(Work), seen: SUBSET Places, unchanged: SUBSET Places,
         errors: SUBSET PollError, alerts: SUBSET AlertKinds, emptied: SUBSET Places, triggersEmitted: Nat,
         known: SUBSET Pages]

WatchTypeOK ==
  /\ site \in [UrlIds -> Seq(Pages)] /\ \A u \in UrlIds : site[u] \in Listings[u]
  /\ ingested \subseteq Pages /\ live \subseteq ingested
  /\ pollInProgress \in BOOLEAN
  /\ poll \in [Cycles -> Poll]
  /\ rowCountHistory \in [UrlIds -> Nat]
  /\ triggers \subseteq RegulatoryWatchTriggerEvent
  /\ failures \in 0..MaxFailures /\ changes \in 0..MaxChanges

WatchInit ==
  /\ site \in {f \in [UrlIds -> UNION {Listings[u] : u \in UrlIds}] : \A u \in UrlIds : f[u] \in Listings[u]}
  /\ ingested \in SUBSET (Pages \ Short) /\ live \in SUBSET ingested
  /\ pollInProgress = FALSE
  /\ poll = [c \in Cycles |-> NoPoll]
  /\ rowCountHistory = [u \in UrlIds |-> 0]
  /\ triggers = {}
  /\ failures = 0 /\ changes = 0

(***************************************************************************)
(* The world: the site changes, runs of the workflow commit circulars.     *)
(***************************************************************************)
EditListing(u, rows) ==
  /\ changes < MaxChanges /\ rows # site[u]
  /\ changes' = changes + 1
  /\ site' = [site EXCEPT ![u] = rows]
  /\ UNCHANGED <<ingested, live, pollInProgress, poll, rowCountHistory, triggers, failures>>

\* A run commits its circular.  One whose source_hash is there takes nothing in
\* (the node that is there keeps its circular_id, so the edges of the new one find
\* no end and the transaction rolls back), and neither does one whose predecessor
\* is closed already.
Ingest(e) ==
  /\ changes < MaxChanges
  /\ e.page \notin ingested /\ e.supersedes \in live \cup {None}
  /\ changes' = changes + 1
  /\ ingested' = ingested \cup {e.page}
  /\ live' = (live \ {e.supersedes}) \cup {e.page}
  /\ UNCHANGED <<site, pollInProgress, poll, rowCountHistory, triggers, failures>>

(***************************************************************************)
(* runPollCycle: a cycle that finds another in progress is skipped.        *)
(***************************************************************************)
StartCycle(c) ==
  /\ poll[c].at = "none"
  /\ IF pollInProgress
     THEN /\ poll' = [poll EXCEPT ![c].at = "skipped", ![c].alerts = {"concurrent_run_skipped"}]
          /\ UNCHANGED pollInProgress
     ELSE /\ poll' = [poll EXCEPT ![c].at = "listing", ![c].known = ingested]
          /\ pollInProgress' = TRUE
  /\ UNCHANGED <<site, ingested, live, rowCountHistory, triggers, failures, changes>>

Set(c, p) == poll' = [poll EXCEPT ![c] = p]

\* withRetry: an attempt fails; after the last one the whole call does.
Fails == failures < MaxFailures /\ failures' = failures + 1

\* The next listing, or the end of the cycle.
NextUrl(p) == [p EXCEPT !.url = @ + 1, !.tries = 0, !.rows = <<>>, !.base = 0, !.work = <<>>, !.at = "listing"]

StopOnError(p) == [NextUrl(p) EXCEPT !.url = Len(Listings) + 1]  \* mutation: break where the loop continues

Continue(p) == NextUrl(p)

ListingError(p, kind) ==
  Continue([p EXCEPT !.errors = @ \cup {[stage |-> "listing_fetch", place |-> <<p.url, 0>>]}, !.alerts = @ \cup {kind}])

StartBatch(p) ==
  LET last == IF p.base + detailFetchConcurrency < Len(p.rows) THEN p.base + detailFetchConcurrency ELSE Len(p.rows)
  IN IF p.base >= Len(p.rows) THEN NextUrl(p)
     ELSE [p EXCEPT !.at = "batch",
             !.work = [k \in 1..(last - p.base) |-> [NoWork EXCEPT !.at = "fetch", !.page = p.rows[p.base + k]]]]

FetchListing(c) ==
  LET p == poll[c]
      rows == site[p.url]
  IN /\ p.at = "listing" /\ p.url \in UrlIds
     /\ IF rows = <<>> /\ rowCountHistory[p.url] >= 1
        THEN /\ Set(c, [ListingError(p, "selector_mismatch") EXCEPT !.emptied = @ \cup {<<p.url, 0>>}])
             /\ UNCHANGED rowCountHistory
        ELSE /\ Set(c, StartBatch([p EXCEPT !.rows = rows, !.seen = @ \cup {<<p.url, i>> : i \in DOMAIN rows}]))
             /\ rowCountHistory' = IF rows = <<>> THEN rowCountHistory
                                   ELSE [rowCountHistory EXCEPT ![p.url] = Len(rows)]
     /\ UNCHANGED <<site, ingested, live, pollInProgress, triggers, failures, changes>>

ListingFails(c) ==
  LET p == poll[c]
  IN /\ p.at = "listing" /\ p.url \in UrlIds
     /\ Fails
     /\ IF p.tries < maxRetries
        THEN Set(c, [p EXCEPT !.tries = @ + 1])
        ELSE Set(c, ListingError(p, "upstream_unavailable"))
     /\ UNCHANGED <<site, ingested, live, pollInProgress, rowCountHistory, triggers, changes>>

(***************************************************************************)
(* processEntry, for the k-th entry of the batch.                          *)
(***************************************************************************)
Place(p, k) == <<p.url, p.base + k>>

Go(c, k, w) == Set(c, [poll[c] EXCEPT !.work[k] = w])

\* An error ends the entry and is recorded; the others go on.
EntryError(c, k, stage, alerts) ==
  Set(c, [poll[c] EXCEPT !.work[k].at = "false", !.alerts = @ \cup alerts,
                         !.errors = @ \cup {[stage |-> stage, place |-> Place(poll[c], k)]}])

At(c, k, point) == poll[c].at = "batch" /\ k \in DOMAIN poll[c].work /\ poll[c].work[k].at = point

FetchDetail(c, k) ==
  LET w == poll[c].work[k]
  IN /\ At(c, k, "fetch")
     /\ \/ /\ w.page \notin Short
           /\ Go(c, k, [w EXCEPT !.at = "hash"])
           /\ UNCHANGED failures
        \/ /\ w.page \in Short
           /\ EntryError(c, k, "detail_fetch", {"selector_mismatch"})
           /\ UNCHANGED failures
        \/ /\ Fails
           /\ IF w.tries < maxRetries
              THEN Go(c, k, [w EXCEPT !.tries = @ + 1])
              ELSE EntryError(c, k, "detail_fetch", {})
     /\ UNCHANGED <<site, ingested, live, pollInProgress, rowCountHistory, triggers, changes>>

\* detectChangeType: a circular whose hash is known is unchanged, also one that
\* has been superseded and is still listed.
CompareHash(c, k) ==
  LET w == poll[c].work[k]
  IN /\ At(c, k, "hash")
     /\ \/ /\ IF w.page \in ingested
              THEN Set(c, [poll[c] EXCEPT !.work[k].at = "false", !.unchanged = @ \cup {Place(poll[c], k)}])
              ELSE Go(c, k, [w EXCEPT !.at = "fuzzy"])
           /\ UNCHANGED failures
        \/ Fails /\ EntryError(c, k, "change_detect", {})
     /\ UNCHANGED <<site, ingested, live, pollInProgress, rowCountHistory, triggers, changes>>

\* findCircularsByTitleFuzzy, among those that are live, the most alike first.
Candidates(page) == {q \in live : TitleLikeness(page, q) >= LIKENESS_FLOOR}

Best(page, candidates) == CHOOSE q \in candidates : \A r \in candidates : TitleLikeness(page, q) >= TitleLikeness(page, r)

CompareTitles(c, k) ==
  LET w == poll[c].work[k]
      candidates == Candidates(w.page)
      best == IF candidates = {} THEN None ELSE Best(w.page, candidates)
  IN /\ At(c, k, "fuzzy")
     /\ \/ /\ IF best # None /\ TitleLikeness(w.page, best) >= FULL_DOCUMENT_SIMILARITY_THRESHOLD
              THEN Go(c, k, [w EXCEPT !.at = "emit", !.type = "amendment", !.other = best])
              ELSE Go(c, k, [w EXCEPT !.at = "context", !.type = "new"])
           /\ UNCHANGED failures
        \/ Fails /\ EntryError(c, k, "change_detect", {})
     /\ UNCHANGED <<site, ingested, live, pollInProgress, rowCountHistory, triggers, changes>>

\* extractAmendmentContext: the candidate the text refers to, if alike enough.
Target(page, candidates) ==
  LET alike == {q \in candidates : PhraseLikeness(page, q) >= AMENDMENT_TARGET_SIMILARITY_THRESHOLD}
  IN IF page \notin AmendingPages \/ alike = {} THEN None
     ELSE CHOOSE q \in alike : \A r \in alike : PhraseLikeness(page, q) >= PhraseLikeness(page, r)

\* The candidates are looked up again; without them the circular is just new.
FindTarget(c, k) ==
  LET w == poll[c].work[k]
  IN /\ At(c, k, "context")
     /\ \/ Go(c, k, [w EXCEPT !.at = "emit", !.other = Target(w.page, Candidates(w.page))]) /\ UNCHANGED failures
        \/ Fails /\ Go(c, k, [w EXCEPT !.at = "emit"])
     /\ UNCHANGED <<site, ingested, live, pollInProgress, rowCountHistory, triggers, changes>>

TriggerOf(c, k) ==
  LET w == poll[c].work[k]
  IN [cycle |-> c, place |-> Place(poll[c], k), page |-> w.page, type |-> w.type,
      supersedes |-> IF w.type = "amendment" THEN w.other ELSE None,
      target |-> IF w.type = "new" THEN w.other ELSE None]

\* emitTrigger hands the event to invokeOrchestrator, which may have started a run
\* though the call fails.  (The workflow of the default dependencies has no
\* createRun: there the event is logged, and counts as delivered all the same.)
EmitTrigger(c, k) ==
  /\ At(c, k, "emit")
  /\ \/ /\ triggers' = triggers \cup {TriggerOf(c, k)}
        /\ Go(c, k, [poll[c].work[k] EXCEPT !.at = "true"])
        /\ UNCHANGED failures
     \/ /\ Fails
        /\ triggers' \in {triggers, triggers \cup {TriggerOf(c, k)}}
        /\ EntryError(c, k, "trigger_emit", {})
  /\ UNCHANGED <<site, ingested, live, pollInProgress, rowCountHistory, changes>>

\* Promise.all: the batch is over when every entry of it is.
EndBatch(c) ==
  LET p == poll[c]
      emitted == {k \in DOMAIN p.work : p.work[k].at = "true"}
  IN /\ p.at = "batch"
     /\ \A k \in DOMAIN p.work : p.work[k].at \in {"true", "false"}
     /\ Set(c, StartBatch([p EXCEPT !.triggersEmitted = @ + Cardinality(emitted),
                                    !.base = @ + detailFetchConcurrency, !.work = <<>>]))
     /\ UNCHANGED <<site, ingested, live, pollInProgress, rowCountHistory, triggers, failures, changes>>

EndCycle(c) ==
  /\ poll[c].at = "listing" /\ poll[c].url \notin UrlIds
  /\ poll' = [poll EXCEPT ![c].at = "end"]
  /\ pollInProgress' = FALSE
  /\ UNCHANGED <<site, ingested, live, rowCountHistory, triggers, failures, changes>>

WatchNext ==
  \/ \E u \in UrlIds : \E rows \in Listings[u] : EditListing(u, rows)
  \/ \E e \in triggers : Ingest(e)
  \/ \E c \in Cycles :
       \/ StartCycle(c) \/ FetchListing(c) \/ ListingFails(c) \/ EndBatch(c) \/ EndCycle(c)
       \/ \E k \in 1..detailFetchConcurrency :
            FetchDetail(c, k) \/ CompareHash(c, k) \/ CompareTitles(c, k) \/ FindTarget(c, k) \/ EmitTrigger(c, k)

WatchSpec == WatchInit /\ [][WatchNext]_watchVars

(***************************************************************************)
(* Properties.                                                             *)
(***************************************************************************)
Emitted(c) == {e.place : e \in {x \in triggers : x.cycle = c}}
Errors(c) == {e.place : e \in poll[c].errors}

\* However the fetches and lookups of the others fail, a cycle that has ended
\* has an answer for each listing (entries, or an error, also when a listing
\* that had entries is empty) and one for each entry it saw: an event, an error,
\* or that the circular was known.  What it counts was delivered, and an event
\* it delivered uncounted is among the errors.
EntriesAreAccounted ==
  \A c \in Cycles : poll[c].at = "end" =>
    /\ changes = 0 => \A u \in UrlIds : site[u] # <<>> => \E p \in Errors(c) \cup poll[c].seen : p[1] = u
    /\ poll[c].emptied \subseteq Errors(c)
    /\ poll[c].seen = Emitted(c) \cup {p \in Errors(c) : p[2] # 0} \cup poll[c].unchanged
    /\ poll[c].unchanged \cap (Emitted(c) \cup Errors(c)) = {}
    /\ poll[c].triggersEmitted = Cardinality(Emitted(c) \ Errors(c))

\* A circular whose content was in the graph when a cycle began is no news to that
\* cycle, whatever is committed and superseded and listed again while it runs.
KnownIsNotNews == \A e \in triggers : e.page \notin poll[e.cycle].known

NewsIsAccounted == EntriesAreAccounted /\ KnownIsNotNews

=============================================================================
