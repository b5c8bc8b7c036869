---------------------------- MODULE ConsoleProofs ---------------------------
(***************************************************************************)
(* Theorems about what the web console and the server behind it promise.   *)
(* What the console tells a reviewer is true, for any number of            *)
(* obligations, tabs, decisions and lost messages, also where several tabs *)
(* are one reviewer's: its answers are about the very request, a retry     *)
(* after a recorded review adds none, and no page shows a colleague's      *)
(* decision too early.  And the records of the export jobs and the files   *)
(* beside them agree, for any number of jobs, panels and crashes, any cap, *)
(* stale age and retention.  And the assistant answers from what it may,   *)
(* for any number of questions, and its limiter is fair for any limit and  *)
(* window.  And a walk through the queue shows every item it is for, but   *)
(* for what left or entered the queue on the way.                          *)
(***************************************************************************)
EXTENDS ConsoleGateway, ExportJobs, Assistant, ReviewQueue, FiniteSetTheorems, TLAPS

Pages == [o: Obligations \cup {None}, view: Views, unavailable: BOOLEAN, open: BOOLEAN]
Calls == [at: CallPoints, decision: PanelDecisions \cup {None}, rationale: BOOLEAN,
          n: 0..MaxRequests, answer: Answers]
Handlers == [at: Awaiting \cup {"none", "sent", "answered"}, o: Obligations \cup {None},
             step: Steps, first: BOOLEAN, answer: Answers]

(***************************************************************************)
(* The handlers and what they leave.                                       *)
(***************************************************************************)
Review(e) == [event |-> e, reviewer |-> Reviewer(e)]

Took(e) == handling[e].at = "answered" /\ handling[e].answer = "ok"

\* The engine has taken the decision.
Passed(e) == handling[e].at \in {"resuspend", "commit", "clear"} \/ Took(e)

\* What the handler has written where it stands, and what it came upon.
HandlerOK(e) ==
  LET o == Ob(e)
      at == handling[e].at
      step == handling[e].step
  IN /\ at # "none" => o \in Obligations /\ step \in {"awaitHumanReview", "awaitSecondHumanReview"}
     /\ at \in {"append", "resume"} \/ Passed(e) => Review(e) \in recorded[o]
     /\ at = "resume" \/ Passed(e) => e \in entries
     /\ at # "none" /\ step = "awaitSecondHumanReview" => recorded[o] # {}
     /\ handling[e].first => step = "awaitHumanReview"
     /\ Passed(e) => engine[o] \notin {step, "awaitHumanReview"}
     /\ at = "resuspend" =>
          /\ step = "awaitHumanReview" /\ engine[o] = "none"
          /\ \A f \in Requests : f # e /\ Ob(f) = o => ~Passed(f)
     /\ e \in repeated =>
          /\ ReviewedBy(o, Reviewer(e))
          /\ at \in {"check_step", "check_slot", "read_reviews", "answered"}

\* A review in the graph was written by its handler, which did not start after
\* another of its reviewer.
ReviewOK(o, review) ==
  LET e == review.event
  IN /\ review = Review(e) /\ Ob(e) = o /\ e \notin repeated
     /\ handling[e].at \in {"append", "resume", "resuspend", "commit", "clear", "answered"}
     /\ handling[e].at = "answered" => handling[e].answer \in {"ok", "INTERNAL_ERROR"}

RunOK(o) ==
  /\ \A review \in recorded[o] : ReviewOK(o, review)
  /\ engine[o] = "awaitSecondHumanReview" \/ indexStep[o] = "awaitSecondHumanReview" => recorded[o] # {}

(***************************************************************************)
(* The tabs.                                                               *)
(***************************************************************************)
\* A request under way is about the item of the page; one for a decision is the
\* latest of its tab, and new to the server until the run is asked.
CallOK(t) ==
  /\ call[t].at # "none" => page[t].o \in Obligations
  /\ call[t].at \in {"decision", "run_ref", "resume"} => call[t].n \in 1..MaxRequests /\ told[t].n # call[t].n
  /\ call[t].at \in {"decision", "run_ref"} => handling[<<t, call[t].n>>].at = "none"
  /\ \A n \in 1..MaxRequests : n > call[t].n => handling[<<t, n>>].at = "none"

Refused(e) == handling[e].at = "none" \/ (handling[e].at = "answered" /\ handling[e].answer \in Refusals)

\* The tab tells the truth about its latest answered request.
ToldOK(t) ==
  /\ told[t].n <= call[t].n
  /\ told[t].says \in {"recorded", "refused"} => told[t].n \in 1..MaxRequests
  /\ told[t].says = "recorded" => Took(<<t, told[t].n>>)
  /\ told[t].says = "refused" => Refused(<<t, told[t].n>>)

\* Without an item a page shows nothing; with one it shows the decisions only to
\* a reviewer who has made one of them.
PageOK(t) ==
  /\ page[t].o = None => page[t].view = NoView /\ ~page[t].open
  /\ page[t].view.shows # {} =>
       /\ ReviewerOf[t] \in page[t].view.shows
       /\ ReviewedBy(page[t].o, ReviewerOf[t])

TabOK(t) == CallOK(t) /\ ToldOK(t) /\ PageOK(t)

ServerOK == (\A e \in Requests : HandlerOK(e)) /\ \A o \in Obligations : RunOK(o)

ConsoleInv ==
  /\ ConsoleTypeOK
  /\ ServerOK
  /\ \A t \in Tabs : TabOK(t)

LEMMA InitConsole == ASSUME ConsoleInit PROVE ConsoleInv
<1>1. ConsoleTypeOK
  BY ConsoleAssumption DEF ConsoleInit, ConsoleTypeOK, NoneTaken, NoPage, NoView, NoCall, NoHandler,
     Views, Kinds, GateStatus, CallPoints, Steps, Answers, Told
<1>2. \A e \in Requests : handling[e] = NoHandler
  BY DEF ConsoleInit
<1>3. \A o \in Obligations : recorded[o] = {} /\ engine[o] = "awaitHumanReview" /\ indexStep[o] = "awaitHumanReview"
  BY DEF ConsoleInit
<1>4. ServerOK
  <2>1. ASSUME NEW e \in Requests PROVE HandlerOK(e)
    <3>1. handling[e].at = "none" /\ handling[e].first = FALSE /\ e \notin repeated
      BY <1>2 DEF NoHandler, ConsoleInit
    <3> QED  BY <3>1 DEF HandlerOK, Passed, Took
  <2>2. \A o \in Obligations : RunOK(o)
    BY <1>3 DEF RunOK
  <2> QED  BY <2>1, <2>2 DEF ServerOK
<1>5. ASSUME NEW t \in Tabs PROVE TabOK(t)
  <2>1. call[t].at = "none" /\ call[t].n = 0 /\ told[t] = [n |-> 0, says |-> None] /\ page[t] = NoPage
    BY DEF ConsoleInit, NoCall
  <2>2. CallOK(t)
    <3>1. \A n \in 1..MaxRequests : handling[<<t, n>>].at = "none"
      BY <1>2 DEF Requests, NoHandler
    <3> QED  BY <2>1, <3>1 DEF CallOK
  <2>3. ToldOK(t)  BY <2>1, ConsoleAssumption DEF ToldOK
  <2>4. PageOK(t)  BY <2>1 DEF PageOK, NoPage, NoView
  <2> QED  BY <2>2, <2>3, <2>4 DEF TabOK
<1> QED  BY <1>1, <1>4, <1>5 DEF ConsoleInv

(***************************************************************************)
(* A step of one tab.                                                      *)
(***************************************************************************)
OthersStandStill(t) ==
  \A q \in Tabs : q # t => page'[q] = page[q] /\ call'[q] = call[q] /\ told'[q] = told[q]

\* The server stands still.
LEMMA TabStep ==
  ASSUME ConsoleInv, NEW t \in Tabs, ConsoleTypeOK',
         UNCHANGED <<recorded, entries, engine, indexStep, handling, repeated>>,
         OthersStandStill(t), TabOK(t)'
  PROVE  ConsoleInv'
<1>1. ASSUME NEW q \in Tabs, q # t PROVE TabOK(q)'
  <2>1. TabOK(q) /\ page'[q] = page[q] /\ call'[q] = call[q] /\ told'[q] = told[q]
    BY <1>1 DEF ConsoleInv, OthersStandStill
  <2> QED  BY <2>1 DEF TabOK, CallOK, ToldOK, PageOK, Took, Refused, ReviewedBy
<1>2. ServerOK'
  BY DEF ConsoleInv, ServerOK, HandlerOK, RunOK, ReviewOK, Passed, Took, Review, Reviewer, Ob, ReviewedBy
<1> QED  BY <1>1, <1>2 DEF ConsoleInv

(***************************************************************************)
(* The shapes of a tab's steps.                                            *)
(***************************************************************************)
\* Busy and Rest change one call.
LEMMA BusyEffect ==
  ASSUME ConsoleTypeOK, NEW t \in Tabs, NEW at \in CallPoints, Busy(t, at)
  PROVE  /\ call' \in [Tabs -> Calls] /\ \A q \in Tabs : q # t => call'[q] = call[q]
         /\ call'[t].at = at /\ call'[t].n = call[t].n
<1>1. call \in [Tabs -> Calls]  BY DEF ConsoleTypeOK, Calls
<1> QED  BY <1>1 DEF Busy, Calls

LEMMA RestEffect ==
  ASSUME ConsoleTypeOK, NEW t \in Tabs, Rest(t)
  PROVE  /\ call' \in [Tabs -> Calls] /\ \A q \in Tabs : q # t => call'[q] = call[q]
         /\ call'[t].at = "none" /\ call'[t].n = call[t].n
<1>1. call \in [Tabs -> Calls] /\ call[t].n \in 0..MaxRequests  BY DEF ConsoleTypeOK, Calls
<1>2. NoCall \in Calls
  BY ConsoleAssumption DEF NoCall, Calls, CallPoints, PanelDecisions, Answers
<1>3. [NoCall EXCEPT !.n = call[t].n] \in Calls  BY <1>1, <1>2 DEF Calls
<1>4. [NoCall EXCEPT !.n = call[t].n].at = "none" /\ [NoCall EXCEPT !.n = call[t].n].n = call[t].n
  BY <1>2 DEF NoCall
<1> QED  BY <1>1, <1>3, <1>4 DEF Rest

LEMMA TellEffect ==
  ASSUME ConsoleTypeOK, NEW t \in Tabs, NEW says \in {"recorded", "refused", "failed", "retry"}, Tell(t, says)
  PROVE  /\ told' \in [Tabs -> [n: 0..MaxRequests, says: Told]]
         /\ told'[t].n = call[t].n /\ told'[t].says = says
         /\ \A q \in Tabs : q # t => told'[q] = told[q]
<1>1. told \in [Tabs -> [n: 0..MaxRequests, says: Told]] /\ call[t].n \in 0..MaxRequests
  BY DEF ConsoleTypeOK
<1>2. [n |-> call[t].n, says |-> says] \in [n: 0..MaxRequests, says: Told]  BY <1>1 DEF Told
<1> QED  BY <1>1, <1>2 DEF Tell

(***************************************************************************)
(* The page and the panel.                                                 *)
(***************************************************************************)
LEMMA LoadStep ==
  ASSUME ConsoleInv, NEW t \in Tabs, NEW o \in Obligations, Load(t, o)
  PROVE  ConsoleInv'
<1> DEFINE fresh == [NoPage EXCEPT !.o = o]
<1>1. fresh \in Pages /\ fresh.o = o /\ fresh.view = NoView
  BY DEF NoPage, NoView, Pages, Views, Kinds, GateStatus
<1>2. /\ call' \in [Tabs -> Calls] /\ \A q \in Tabs : q # t => call'[q] = call[q]
      /\ call'[t].at = "detail" /\ call'[t].n = call[t].n
  BY BusyEffect DEF ConsoleInv, Load, CallPoints
<1> HIDE DEF fresh
<1>3. page \in [Tabs -> Pages] /\ page' = [page EXCEPT ![t] = fresh]
  BY DEF ConsoleInv, ConsoleTypeOK, Load, Pages, fresh
<1>4. ConsoleTypeOK'
  <2>1. page' \in [Tabs -> Pages]  BY <1>1, <1>3
  <2> QED  BY <1>2, <2>1 DEF ConsoleInv, ConsoleTypeOK, Load, serverVars, runVars, Pages, Calls
<1>5. TabOK(t)'
  <2>1. page'[t] = fresh /\ NoView.shows = {} /\ o # None  BY <1>3, ConsoleAssumption DEF NoView
  <2>2. CallOK(t)'
    BY <1>1, <1>2, <2>1 DEF ConsoleInv, TabOK, CallOK, Load, serverVars, runVars
  <2>3. ToldOK(t)'  BY <1>2 DEF ConsoleInv, TabOK, ToldOK, Took, Refused, Load, serverVars, runVars
  <2>4. PageOK(t)'  BY <1>1, <2>1 DEF PageOK
  <2> QED  BY <2>2, <2>3, <2>4 DEF TabOK
<1>6. OthersStandStill(t)  BY <1>2, <1>3 DEF OthersStandStill, Load
<1> QED  BY <1>4, <1>5, <1>6, TabStep DEF Load, serverVars, runVars

\* A step of a tab that only goes on, or ends its request, without an answer.
LEMMA TabGoesOn ==
  ASSUME ConsoleInv, NEW t \in Tabs, UNCHANGED <<serverVars, page, told>>,
         losses' \in 0..MaxLost,
         NEW at \in CallPoints, Busy(t, at) \/ (at = "none" /\ Rest(t)),
         at \in {"none", "detail", "gate", "claim", "claim_call"} \/ (at = "run_ref" /\ call[t].at = "decision"),
         at # "none" => page[t].o \in Obligations
  PROVE  ConsoleInv'
<1>1. /\ call' \in [Tabs -> Calls] /\ \A q \in Tabs : q # t => call'[q] = call[q]
      /\ call'[t].at = at /\ call'[t].n = call[t].n
  BY BusyEffect, RestEffect DEF ConsoleInv
<1>2. ConsoleTypeOK'  BY <1>1 DEF ConsoleInv, ConsoleTypeOK, serverVars, runVars, Calls
<1>3. TabOK(t)'
  <2>1. CallOK(t)'  BY <1>1 DEF ConsoleInv, TabOK, CallOK, serverVars, runVars
  <2>2. ToldOK(t)'  BY <1>1 DEF ConsoleInv, TabOK, ToldOK, Took, Refused, serverVars, runVars
  <2>3. PageOK(t)'  BY DEF ConsoleInv, TabOK, PageOK, ReviewedBy, serverVars, runVars
  <2> QED  BY <2>1, <2>2, <2>3 DEF TabOK
<1>4. OthersStandStill(t)  BY <1>1 DEF OthersStandStill
<1> QED  BY <1>2, <1>3, <1>4, TabStep DEF serverVars, runVars

\* A step that ends the request of a tab with a new page.
LEMMA PageStep ==
  ASSUME ConsoleInv, NEW t \in Tabs, NEW next \in Pages,
         page' = [page EXCEPT ![t] = next], PageOK(t)',
         UNCHANGED <<serverVars, told>>, losses' \in 0..MaxLost,
         Rest(t) \/ (UNCHANGED call /\ next.o = page[t].o)
  PROVE  ConsoleInv'
<1>1. page' \in [Tabs -> Pages] /\ page'[t] = next /\ \A q \in Tabs : q # t => page'[q] = page[q]
  BY DEF ConsoleInv, ConsoleTypeOK, Pages
<1>2. /\ call' \in [Tabs -> Calls] /\ \A q \in Tabs : q # t => call'[q] = call[q]
      /\ call'[t].n = call[t].n /\ (call'[t].at = "none" \/ (call'[t] = call[t] /\ page'[t].o = page[t].o))
  <2>1. CASE Rest(t)  BY <2>1, RestEffect DEF ConsoleInv
  <2>2. CASE UNCHANGED call /\ next.o = page[t].o  BY <1>1, <2>2 DEF ConsoleInv, ConsoleTypeOK, Calls
  <2> QED  BY <2>1, <2>2
<1>3. ConsoleTypeOK'  BY <1>1, <1>2 DEF ConsoleInv, ConsoleTypeOK, serverVars, runVars, Pages, Calls
<1>4. TabOK(t)'
  <2>1. CallOK(t)'  BY <1>2, ZenonT(60) DEF ConsoleInv, TabOK, CallOK, serverVars, runVars
  <2>2. ToldOK(t)'  BY <1>2 DEF ConsoleInv, TabOK, ToldOK, Took, Refused, serverVars, runVars
  <2> QED  BY <2>1, <2>2 DEF TabOK
<1>5. OthersStandStill(t)  BY <1>1, <1>2 DEF OthersStandStill
<1> QED  BY <1>3, <1>4, <1>5, TabStep DEF serverVars, runVars

LEMMA ReadDetailStep ==
  ASSUME ConsoleInv, NEW t \in Tabs, ReadDetail(t)
  PROVE  ConsoleInv'
<1>1. losses' \in 0..MaxLost /\ page[t].o \in Obligations
  BY DEF ConsoleInv, ConsoleTypeOK, TabOK, CallOK, ReadDetail
<1>2. CASE page[t].o \in ended
  <2>1. NoPage \in Pages /\ NoPage.view.shows = {} /\ NoPage.view = NoView /\ ~NoPage.open
    BY DEF NoPage, NoView, Pages, Views, Kinds, GateStatus
  <2>2. page' = [page EXCEPT ![t] = NoPage]  BY <1>2 DEF ReadDetail
  <2>3. page'[t] = NoPage  BY <2>2 DEF ConsoleInv, ConsoleTypeOK
  <2>4. PageOK(t)'  BY <2>1, <2>3 DEF PageOK
  <2> QED  BY <1>1, <1>2, <2>1, <2>2, <2>4, PageStep DEF ReadDetail
<1>3. CASE page[t].o \notin ended
  BY <1>1, <1>3, TabGoesOn DEF ReadDetail, CallPoints
<1> QED  BY <1>2, <1>3

(***************************************************************************)
(* What is shown.                                                          *)
(***************************************************************************)
LEMMA VisibleIsOwn ==
  ASSUME ConsoleTypeOK, NEW o \in Obligations, NEW r \in SignedIn
  PROVE  LET authors == {review.reviewer : review \in VisibleReviews(o, r)}
         IN authors \subseteq SignedIn /\ (VisibleReviews(o, r) # {} => r \in authors /\ ReviewedBy(o, r))
<1>1. \A review \in recorded[o] : review.reviewer \in SignedIn  BY DEF ConsoleTypeOK, Recorded
<1> QED  BY <1>1 DEF VisibleReviews, ReviewedBy

\* The view of a reviewer who has not decided shows no decision.
LEMMA WireViewShows ==
  ASSUME ConsoleTypeOK, NEW o \in Obligations, NEW r \in SignedIn
  PROVE  /\ WireView(o, r) \in Views
         /\ WireView(o, r).shows # {} => r \in WireView(o, r).shows /\ ReviewedBy(o, r)
<1> DEFINE visible == VisibleReviews(o, r)
           authors == {review.reviewer : review \in visible}
<1>1. authors \subseteq SignedIn /\ (visible # {} => r \in authors /\ ReviewedBy(o, r))
  BY VisibleIsOwn
<1>7. authors # {} => visible # {}  OBVIOUS
<1>2. Cardinality(visible) >= 2 => visible # {}  BY FS_EmptySet
<1>3. TierCStatus(o, r) \in GateStatus /\ (TierCStatus(o, r) = "resolved" => Cardinality(visible) >= 2)
  BY DEF TierCStatus, GateStatus
<1>4. CASE itemTier[o] = "B"
  <2>1. WireView(o, r) = [kind |-> "tier_b", status |-> "none", shows |-> authors \cap {r}]
    BY <1>4 DEF WireView
  <2> HIDE DEF authors, visible
  <2> QED  BY <1>1, <1>7, <2>1 DEF Views, Kinds, GateStatus
<1>5. CASE itemTier[o] # "B" /\ itemTier[o] = "ESCALATE"
  <2> DEFINE shown == IF Cardinality(visible) >= 2 THEN authors \cap {r} ELSE {}
  <2>1. WireView(o, r) = [kind |-> "escalate", status |-> "none", shows |-> shown]
    BY <1>5 DEF WireView
  <2>2. shown \subseteq authors \cap {r}  OBVIOUS
  <2> HIDE DEF authors, visible, shown
  <2> QED  BY <1>1, <1>7, <2>1, <2>2 DEF Views, Kinds, GateStatus
<1>6. CASE itemTier[o] # "B" /\ itemTier[o] # "ESCALATE"
  <2> DEFINE shown == IF TierCStatus(o, r) = "resolved" THEN authors ELSE {}
  <2>1. WireView(o, r) = [kind |-> "tier_c", status |-> TierCStatus(o, r), shows |-> shown]
    BY <1>6 DEF WireView
  <2>2. shown = authors \/ shown = {}  OBVIOUS
  <2> HIDE DEF authors, visible, shown
  <2> QED  BY <1>1, <1>3, <1>7, <2>1, <2>2 DEF Views, Kinds
<1> QED  BY <1>4, <1>5, <1>6

\* The page gets the view of its item.
LEMMA ViewStep ==
  ASSUME ConsoleInv, NEW t \in Tabs, NEW v \in Views, NEW u \in BOOLEAN,
         page' = [page EXCEPT ![t].view = v, ![t].unavailable = u],
         page[t].o \in Obligations,
         v.shows # {} => ReviewerOf[t] \in v.shows /\ ReviewedBy(page[t].o, ReviewerOf[t]),
         UNCHANGED <<serverVars, told>>, losses' \in 0..MaxLost, Rest(t)
  PROVE  ConsoleInv'
<1> DEFINE one == [page[t] EXCEPT !.view = v]
           next == [one EXCEPT !.unavailable = u]
<1>1. page \in [Tabs -> Pages] /\ page[t] \in Pages  BY DEF ConsoleInv, ConsoleTypeOK, Pages
<1>2. one \in Pages /\ one.o = page[t].o /\ one.view = v  BY <1>1 DEF Pages
<1>3. next \in Pages /\ next.o = page[t].o /\ next.view = v  BY <1>2 DEF Pages
<1>4. [page EXCEPT ![t].view = v] = [page EXCEPT ![t] = one]  OBVIOUS
<1>5. [[page EXCEPT ![t] = one] EXCEPT ![t].unavailable = u] = [page EXCEPT ![t] = next]  BY <1>1
<1>6. page' = [page EXCEPT ![t] = next]  BY <1>4, <1>5
<1> HIDE DEF next
<1>7. page'[t] = next  BY <1>1, <1>6
<1>8. PageOK(t)'
  BY <1>3, <1>7, ConsoleAssumption DEF PageOK, ReviewedBy, serverVars, runVars
<1> QED  BY <1>3, <1>6, <1>8, PageStep

LEMMA ReadGateStep ==
  ASSUME ConsoleInv, NEW t \in Tabs, ReadGateView(t)
  PROVE  ConsoleInv'
<1>1. page[t].o \in Obligations /\ ReviewerOf[t] \in SignedIn
  BY DEF ConsoleInv, TabOK, CallOK, ReadGateView, SignedIn
<1>2. PICK v \in Views : /\ v = WireView(page[t].o, ReviewerOf[t])
                         /\ v.shows # {} => ReviewerOf[t] \in v.shows /\ ReviewedBy(page[t].o, ReviewerOf[t])
  BY <1>1, WireViewShows DEF ConsoleInv
<1>3. page' = [page EXCEPT ![t].view = v, ![t].unavailable = FALSE] /\ losses' \in 0..MaxLost
  BY <1>2 DEF ConsoleInv, ConsoleTypeOK, ReadGateView
<1> QED  BY <1>1, <1>2, <1>3, ViewStep DEF ReadGateView

LEMMA GateUnavailableStep ==
  ASSUME ConsoleInv, NEW t \in Tabs, GateUnavailable(t)
  PROVE  ConsoleInv'
<1>1. page[t].o \in Obligations  BY DEF ConsoleInv, TabOK, CallOK, GateUnavailable
<1>2. PICK v \in Views : v = UnavailableView(page[t].o) /\ v.shows = {}
  <2> DEFINE kind == CASE itemTier[page[t].o] = "B" -> "tier_b" [] itemTier[page[t].o] = "C" -> "tier_c"
                       [] OTHER -> "escalate"
             claimed == IF itemTier[page[t].o] = "C" THEN "unclaimed" ELSE "none"
  <2>1. kind \in Kinds /\ claimed \in GateStatus  BY DEF Kinds, GateStatus
  <2>2. UnavailableView(page[t].o) = [kind |-> kind, status |-> claimed, shows |-> {}]  BY DEF UnavailableView
  <2> HIDE DEF kind, claimed
  <2> QED  BY <2>1, <2>2 DEF Views
<1>3. page' = [page EXCEPT ![t].view = v, ![t].unavailable = TRUE] /\ losses' \in 0..MaxLost
  BY <1>2, ConsoleAssumption DEF ConsoleInv, ConsoleTypeOK, GateUnavailable
<1> QED  BY <1>1, <1>2, <1>3, ViewStep DEF GateUnavailable

\* There is a form only on a page with an item.
LEMMA FormHasItem ==
  ASSUME ConsoleInv, NEW t \in Tabs, OffersForm(page[t].view)
  PROVE  page[t].o \in Obligations
  BY DEF ConsoleInv, ConsoleTypeOK, TabOK, PageOK, OffersForm, NoView

\* Opening and closing the panel leaves the rest of the page as it is.
LEMMA OpenedPage ==
  ASSUME ConsoleInv, NEW t \in Tabs, NEW open \in BOOLEAN, page' = [page EXCEPT ![t].open = open]
  PROVE  /\ [page[t] EXCEPT !.open = open] \in Pages /\ [page[t] EXCEPT !.open = open].o = page[t].o
         /\ page' = [page EXCEPT ![t] = [page[t] EXCEPT !.open = open]]
         /\ page'[t].o = page[t].o /\ page'[t].view = page[t].view /\ page'[t].open = open
<1>1. page \in [Tabs -> Pages] /\ page[t] \in Pages  BY DEF ConsoleInv, ConsoleTypeOK, Pages
<1> QED  BY <1>1 DEF Pages

LEMMA OpenPanelStep ==
  ASSUME ConsoleInv, NEW t \in Tabs, OpenPanel(t)
  PROVE  ConsoleInv'
<1>1. page[t].o \in Obligations  BY FormHasItem DEF OpenPanel
<1>2. /\ [page[t] EXCEPT !.open = TRUE] \in Pages /\ [page[t] EXCEPT !.open = TRUE].o = page[t].o
      /\ page' = [page EXCEPT ![t] = [page[t] EXCEPT !.open = TRUE]]
      /\ page'[t].o = page[t].o /\ page'[t].view = page[t].view
  BY OpenedPage DEF OpenPanel
<1>3. PageOK(t)'
  BY <1>1, <1>2, ConsoleAssumption DEF ConsoleInv, TabOK, PageOK, ReviewedBy, OpenPanel, serverVars, runVars
<1> QED  BY <1>2, <1>3, PageStep DEF OpenPanel, ConsoleInv, ConsoleTypeOK

LEMMA ClaimThenOpenStep ==
  ASSUME ConsoleInv, NEW t \in Tabs, ClaimThenOpen(t)
  PROVE  ConsoleInv'
<1>1. page[t].o \in Obligations  BY FormHasItem DEF ClaimThenOpen
<1> QED  BY <1>1, TabGoesOn DEF ClaimThenOpen, ConsoleInv, ConsoleTypeOK, CallPoints

\* A new request has a number of its own.
LEMMA SubmitStep ==
  ASSUME ConsoleInv, NEW t \in Tabs, NEW d \in PanelDecisions, NEW rationale \in BOOLEAN,
         SubmitDecision(t, d, rationale)
  PROVE  ConsoleInv'
<1> DEFINE next == [NoCall EXCEPT !.at = "decision", !.decision = d, !.rationale = rationale, !.n = call[t].n + 1]
<1>1. call \in [Tabs -> Calls] /\ call[t].n \in 0..MaxRequests /\ call[t].n + 1 \in 1..MaxRequests
  BY ConsoleAssumption DEF ConsoleInv, ConsoleTypeOK, Calls, SubmitDecision
<1>2. next \in Calls /\ next.at = "decision" /\ next.decision = d /\ next.n = call[t].n + 1
  <2> DEFINE at == [NoCall EXCEPT !.at = "decision"]
             decided == [at EXCEPT !.decision = d]
             worded == [decided EXCEPT !.rationale = rationale]
             numbered == [worded EXCEPT !.n = call[t].n + 1]
  <2>1. NoCall \in Calls
    BY <1>1, ConsoleAssumption DEF NoCall, Calls, CallPoints, PanelDecisions, Answers
  <2>2. at \in Calls /\ at.at = "decision"  BY <2>1 DEF Calls, CallPoints
  <2> HIDE DEF at
  <2>3. decided \in Calls /\ decided.at = "decision" /\ decided.decision = d  BY <2>2 DEF Calls
  <2> HIDE DEF decided
  <2>4. worded \in Calls /\ worded.at = "decision" /\ worded.decision = d  BY <2>3 DEF Calls
  <2> HIDE DEF worded
  <2>5. numbered \in Calls /\ numbered.at = "decision" /\ numbered.decision = d /\ numbered.n = call[t].n + 1
    BY <1>1, <2>4 DEF Calls
  <2>6. next = numbered  BY DEF at, decided, worded
  <2> QED  BY <2>5, <2>6
<1>3. call' = [call EXCEPT ![t] = next]  BY DEF SubmitDecision
<1> HIDE DEF next
<1>4. call' \in [Tabs -> Calls] /\ call'[t] = next /\ \A q \in Tabs : q # t => call'[q] = call[q]
  BY <1>1, <1>2, <1>3
<1>5. ConsoleTypeOK'  BY <1>4 DEF ConsoleInv, ConsoleTypeOK, SubmitDecision, serverVars, runVars, Calls
<1>6. TabOK(t)'
  <2>1. page[t].o \in Obligations /\ told[t].n \in 0..MaxRequests
    BY DEF ConsoleInv, ConsoleTypeOK, TabOK, PageOK, SubmitDecision
  <2>2. \A n \in 1..MaxRequests : n > call[t].n => handling[<<t, n>>].at = "none"
    BY DEF ConsoleInv, TabOK, CallOK
  <2>3. told[t].n <= call[t].n  BY DEF ConsoleInv, TabOK, ToldOK
  <2>4. CallOK(t)'
    BY <1>1, <1>2, <1>4, <2>1, <2>2, <2>3, ConsoleAssumption DEF CallOK, SubmitDecision, serverVars, runVars
  <2>5. ToldOK(t)'
    <3>1. handling' = handling  BY DEF SubmitDecision, serverVars
    <3>2. told' = told /\ call'[t].n = call[t].n + 1 /\ told[t].n <= call'[t].n
      BY <1>1, <1>2, <1>4, <2>1, <2>3, ConsoleAssumption DEF SubmitDecision
    <3> QED  BY <3>1, <3>2 DEF ConsoleInv, TabOK, ToldOK, Took, Refused
  <2>6. PageOK(t)'  BY DEF ConsoleInv, TabOK, PageOK, ReviewedBy, SubmitDecision, serverVars, runVars
  <2> QED  BY <2>4, <2>5, <2>6 DEF TabOK
<1>7. OthersStandStill(t)  BY <1>4 DEF OthersStandStill, SubmitDecision
<1> QED  BY <1>5, <1>6, <1>7, TabStep DEF SubmitDecision, serverVars, runVars

(***************************************************************************)
(* The claim.                                                              *)
(***************************************************************************)
LEMMA CheckClaimStep ==
  ASSUME ConsoleInv, NEW t \in Tabs, CheckClaim(t)
  PROVE  ConsoleInv'
<1>1. page[t].o \in Obligations /\ losses' \in 0..MaxLost
  BY DEF ConsoleInv, ConsoleTypeOK, TabOK, CallOK, CheckClaim
<1> QED  BY <1>1, TabGoesOn DEF CheckClaim, CallPoints

\* An answer comes back to the tab that asked.
LEMMA AnswerEffect ==
  ASSUME ConsoleTypeOK, NEW t \in Tabs, NEW at \in {"claim_answer"}, NEW a \in Answers,
         call' = [call EXCEPT ![t].at = at, ![t].answer = a]
  PROVE  /\ call' \in [Tabs -> Calls] /\ \A q \in Tabs : q # t => call'[q] = call[q]
         /\ call'[t].at = at /\ call'[t].n = call[t].n /\ call'[t].answer = a
<1> DEFINE one == [call[t] EXCEPT !.at = at]
           both == [one EXCEPT !.answer = a]
<1>1. call \in [Tabs -> Calls] /\ call[t] \in Calls  BY DEF ConsoleTypeOK, Calls
<1>2. one \in Calls /\ one.at = at /\ one.n = call[t].n
  BY <1>1 DEF Calls, CallPoints
<1>3. both \in Calls /\ both.at = at /\ both.n = call[t].n /\ both.answer = a
  BY <1>2 DEF Calls
<1>4. [call EXCEPT ![t].at = at] = [call EXCEPT ![t] = one]  OBVIOUS
<1>5. [[call EXCEPT ![t] = one] EXCEPT ![t].answer = a] = [call EXCEPT ![t] = both]  BY <1>1
<1>6. call' = [call EXCEPT ![t] = both]  BY <1>4, <1>5
<1> HIDE DEF both
<1> QED  BY <1>1, <1>3, <1>6

LEMMA HandleClaimStep ==
  ASSUME ConsoleInv, NEW t \in Tabs, HandleClaim(t)
  PROVE  ConsoleInv'
<1> DEFINE o == page[t].o
           r == ReviewerOf[t]
<1>1. o \in Obligations /\ r \in SignedIn  BY DEF ConsoleInv, TabOK, CallOK, HandleClaim, SignedIn
<1>2. /\ call' \in [Tabs -> Calls] /\ \A q \in Tabs : q # t => call'[q] = call[q]
      /\ call'[t].at = "claim_answer" /\ call'[t].n = call[t].n
  <2>1. CASE FreeSlot(o, r) = None  BY <2>1, AnswerEffect DEF ConsoleInv, HandleClaim, Answers, Refusals
  <2>2. CASE FreeSlot(o, r) # None  BY <2>2, AnswerEffect DEF ConsoleInv, HandleClaim, Answers, Refusals
  <2> QED  BY <2>1, <2>2
<1>3. taken' \in [Obligations -> [maker: SignedIn \cup {None}, checker: SignedIn \cup {None}]]
  <2>1. taken \in [Obligations -> [maker: SignedIn \cup {None}, checker: SignedIn \cup {None}]]
    BY DEF ConsoleInv, ConsoleTypeOK
  <2>2. FreeSlot(o, r) \in {"maker", "checker", None}  BY DEF FreeSlot
  <2>3. CASE FreeSlot(o, r) = None  BY <2>1, <2>3 DEF HandleClaim
  <2>4. CASE FreeSlot(o, r) = "maker" /\ FreeSlot(o, r) # None
    BY <1>1, <2>1, <2>4 DEF HandleClaim
  <2>5. CASE FreeSlot(o, r) = "checker" /\ FreeSlot(o, r) # None
    BY <1>1, <2>1, <2>5 DEF HandleClaim
  <2> QED  BY <2>2, <2>3, <2>4, <2>5
<1>4. ConsoleTypeOK'  BY <1>2, <1>3 DEF ConsoleInv, ConsoleTypeOK, HandleClaim, Calls
<1>5. TabOK(t)'
  <2>1. CallOK(t)'
    BY <1>1, <1>2 DEF ConsoleInv, TabOK, CallOK, HandleClaim
  <2>2. ToldOK(t)'  BY <1>2, ZenonT(60) DEF ConsoleInv, TabOK, ToldOK, Took, Refused, HandleClaim
  <2>3. PageOK(t)'  BY DEF ConsoleInv, TabOK, PageOK, ReviewedBy, HandleClaim
  <2> QED  BY <2>1, <2>2, <2>3 DEF TabOK
<1>6. OthersStandStill(t)  BY <1>2 DEF OthersStandStill, HandleClaim
<1> QED  BY <1>4, <1>5, <1>6, TabStep DEF HandleClaim

LEMMA ClaimAnsweredStep ==
  ASSUME ConsoleInv, NEW t \in Tabs, ClaimAnswered(t)
  PROVE  ConsoleInv'
<1>1. page[t].o \in Obligations  BY DEF ConsoleInv, TabOK, CallOK, ClaimAnswered
<1>2. PICK open \in BOOLEAN : open = Opens(call[t].answer)  BY DEF Opens
<1>3. /\ [page[t] EXCEPT !.open = open] \in Pages /\ [page[t] EXCEPT !.open = open].o = page[t].o
      /\ page' = [page EXCEPT ![t] = [page[t] EXCEPT !.open = open]]
      /\ page'[t].o = page[t].o /\ page'[t].view = page[t].view
  BY <1>2, OpenedPage DEF ClaimAnswered
<1>4. PageOK(t)'
  BY <1>1, <1>3, ConsoleAssumption DEF ConsoleInv, TabOK, PageOK, ReviewedBy, ClaimAnswered, serverVars, runVars
<1> QED  BY <1>3, <1>4, PageStep DEF ClaimAnswered, ConsoleInv, ConsoleTypeOK

(***************************************************************************)
(* The decision.                                                           *)
(***************************************************************************)
\* A request for a decision ends with an answer that does not say it is
\* recorded; one that says it is refused is given only where it was.
LEMMA TellStep ==
  ASSUME ConsoleInv, NEW t \in Tabs,
         call[t].at \in {"decision", "run_ref", "resume"},
         NEW says \in {"refused", "failed", "retry"}, Tell(t, says), Rest(t),
         says = "refused" => Refused(<<t, call[t].n>>),
         UNCHANGED <<serverVars, page>>, losses' \in 0..MaxLost
  PROVE  ConsoleInv'
<1>1. /\ call' \in [Tabs -> Calls] /\ \A q \in Tabs : q # t => call'[q] = call[q]
      /\ call'[t].at = "none" /\ call'[t].n = call[t].n
  BY RestEffect DEF ConsoleInv
<1>2. /\ told' \in [Tabs -> [n: 0..MaxRequests, says: Told]]
      /\ told'[t].n = call[t].n /\ told'[t].says = says /\ \A q \in Tabs : q # t => told'[q] = told[q]
  BY TellEffect DEF ConsoleInv
<1>3. ConsoleTypeOK'  BY <1>1, <1>2 DEF ConsoleInv, ConsoleTypeOK, serverVars, runVars, Calls
<1>4. call[t].n \in 1..MaxRequests  BY DEF ConsoleInv, TabOK, CallOK
<1>5. TabOK(t)'
  <2>1. CallOK(t)'  BY <1>1 DEF ConsoleInv, TabOK, CallOK, serverVars
  <2>2. ToldOK(t)'  BY <1>1, <1>2, <1>4, ConsoleAssumption DEF ToldOK, Refused, serverVars
  <2>3. PageOK(t)'  BY DEF ConsoleInv, TabOK, PageOK, ReviewedBy, serverVars, runVars
  <2> QED  BY <2>1, <2>2, <2>3 DEF TabOK
<1>6. OthersStandStill(t)  BY <1>1, <1>2 DEF OthersStandStill
<1> QED  BY <1>3, <1>5, <1>6, TabStep DEF serverVars, runVars

LEMMA CheckDecisionStep ==
  ASSUME ConsoleInv, NEW t \in Tabs, CheckDecision(t)
  PROVE  ConsoleInv'
<1>1. /\ call[t].at = "decision" /\ page[t].o \in Obligations
      /\ Refused(<<t, call[t].n>>)
  BY DEF ConsoleInv, TabOK, CallOK, CheckDecision, Refused
<1>2. losses' \in 0..MaxLost  BY DEF ConsoleInv, ConsoleTypeOK, CheckDecision
<1>3. CASE Rest(t) /\ Tell(t, "refused")
  BY <1>1, <1>2, <1>3, TellStep DEF CheckDecision
<1>4. CASE Busy(t, "run_ref") /\ UNCHANGED told
  BY <1>1, <1>2, <1>4, TabGoesOn DEF CheckDecision, CallPoints
<1> QED  BY <1>3, <1>4 DEF CheckDecision

\* The server gets a request it has not seen, for the step the index names.
LEMMA SentStep ==
  ASSUME ConsoleInv, NEW t \in Tabs, HandleRunRef(t), indexStep[page[t].o] # "none"
  PROVE  ConsoleInv'
<1>17. PICK e \in Requests : e = <<t, call[t].n>>
  BY DEF ConsoleInv, TabOK, CallOK, HandleRunRef, Requests
<1>18. PICK o \in Obligations : o = page[t].o  BY DEF ConsoleInv, TabOK, CallOK, HandleRunRef
<1> DEFINE sent == [NoHandler EXCEPT !.at = "sent", !.o = o, !.step = indexStep[o]]
           next == [NoCall EXCEPT !.at = "resume", !.n = call[t].n]
<1>1. /\ call[t].at = "run_ref" /\ call[t].n \in 1..MaxRequests /\ told[t].n # call[t].n
      /\ handling[e].at = "none"
  BY <1>17 DEF ConsoleInv, TabOK, CallOK, HandleRunRef
<1>2. e \in Requests /\ e[1] = t /\ e[2] = call[t].n  BY <1>17
<1>3. indexStep[o] \in {"awaitHumanReview", "awaitSecondHumanReview"}
  BY <1>18 DEF ConsoleInv, ConsoleTypeOK, Steps
<1>4. /\ sent \in Handlers /\ sent.at = "sent" /\ sent.o = o /\ sent.step = indexStep[o]
      /\ sent.first = FALSE
  BY <1>1, <1>3 DEF NoHandler, Handlers, Steps, Answers
<1>5. /\ handling' = [handling EXCEPT ![e] = sent] /\ call' = [call EXCEPT ![t] = next]
      /\ UNCHANGED <<runVars, repeated, page, losses, told>>
  BY <1>17, <1>18 DEF HandleRunRef
<1> HIDE DEF sent
<1>6. /\ handling' \in [Requests -> Handlers] /\ handling'[e] = sent
      /\ \A f \in Requests : f # e => handling'[f] = handling[f]
  BY <1>2, <1>4, <1>5 DEF ConsoleInv, ConsoleTypeOK, Handlers
<1>7. next \in Calls /\ next.at = "resume" /\ next.n = call[t].n
  <2> DEFINE at == [NoCall EXCEPT !.at = "resume"]
  <2>1. NoCall \in Calls
    BY <1>1, ConsoleAssumption DEF NoCall, Calls, CallPoints, PanelDecisions, Answers
  <2>2. at \in Calls /\ at.at = "resume"  BY <2>1 DEF Calls, CallPoints
  <2>3. next = [at EXCEPT !.n = call[t].n]  OBVIOUS
  <2> HIDE DEF at, next
  <2> QED  BY <1>1, <2>2, <2>3, ConsoleAssumption DEF Calls
<1> HIDE DEF next
<1>8. call' \in [Tabs -> Calls] /\ call'[t] = next /\ \A q \in Tabs : q # t => call'[q] = call[q]
  BY <1>5, <1>7 DEF ConsoleInv, ConsoleTypeOK, Calls
<1>9. ConsoleTypeOK'
  BY <1>5, <1>6, <1>8, SMTT(30) DEF ConsoleInv, ConsoleTypeOK, runVars, Calls, Handlers
<1>10. \A f \in Requests : handling'[f].at # "none" /\ f # e => handling[f].at # "none"
  BY <1>6
<1>11. ASSUME NEW f \in Requests PROVE Passed(f)' <=> Passed(f)
  BY <1>1, <1>2, <1>4, <1>6 DEF Passed, Took
<1>12. \A f \in Requests : HandlerOK(f)  BY DEF ConsoleInv, ServerOK
<1>13. HandlerOK(e)'
  <2>1. e \notin repeated  BY <1>1, <1>2, <1>12 DEF HandlerOK
  <2>2. ~Passed(e)'  BY <1>4, <1>6 DEF Passed, Took
  <2>3. indexStep[o] = "awaitSecondHumanReview" => recorded[o] # {}
    BY DEF ConsoleInv, ServerOK, RunOK
  <2>4. UNCHANGED <<recorded, engine, repeated>>  BY <1>5 DEF runVars
  <2> QED  BY <1>1, <1>3, <1>4, <1>6, <2>1, <2>2, <2>3, <2>4 DEF HandlerOK, Ob
<1>14. ASSUME NEW f \in Requests, f # e PROVE HandlerOK(f)'
  <2>1. handling'[f] = handling[f] /\ UNCHANGED <<recorded, engine, repeated, entries>>
    BY <1>5, <1>6, <1>14 DEF runVars
  <2>2. \A g \in Requests : Ob(g)' = Ob(f)' /\ Passed(g)' => Ob(g) = Ob(f) /\ Passed(g)
    <3> TAKE g \in Requests
    <3>1. CASE g = e  BY <1>1, <1>2, <1>11, <3>1 DEF Passed, Took
    <3>2. CASE g # e  BY <1>6, <1>11, <2>1, <3>2 DEF Ob
    <3> QED  BY <3>1, <3>2
  <2> QED  BY <1>11, <1>12, <2>1, <2>2 DEF HandlerOK, Ob, Review, Reviewer, ReviewedBy
<1>15. ASSUME NEW p \in Obligations PROVE RunOK(p)'
  <2>1. UNCHANGED <<recorded, engine, indexStep, repeated>>  BY <1>5 DEF runVars
  <2>2. ASSUME NEW review \in recorded[p] PROVE ReviewOK(p, review)'
    <3>1. ReviewOK(p, review) /\ review.event \in Requests
      BY DEF ConsoleInv, ServerOK, RunOK, ConsoleTypeOK, Recorded
    <3>2. review.event # e  BY <1>1, <3>1 DEF ReviewOK
    <3> QED  BY <1>6, <2>1, <3>1, <3>2 DEF ReviewOK, Review, Reviewer, Ob
  <2> QED  BY <2>1, <2>2 DEF ConsoleInv, ServerOK, RunOK
<1>16. ASSUME NEW q \in Tabs PROVE TabOK(q)'
  <2>1. TabOK(q) /\ page'[q] = page[q] /\ told'[q] = told[q] /\ UNCHANGED recorded
    BY <1>5 DEF ConsoleInv, runVars
  <2>2. call[t].n \in Nat /\ told[q].n \in Nat  BY ConsoleAssumption DEF ConsoleInv, ConsoleTypeOK
  <2>3. call'[q].n = call[q].n  BY <1>7, <1>8
  <2>4. \A n \in 1..MaxRequests : <<q, n>> \in Requests /\ (q # t \/ n # call[t].n => handling'[<<q, n>>] = handling[<<q, n>>])
    BY <1>6, <1>17 DEF Requests
  <2>5. CallOK(q)'
    <3>1. CASE q = t
      <4>1. call'[t].at = "resume" /\ call'[t].n = call[t].n /\ told'[t].n # call'[t].n  BY <1>1, <1>5, <1>7, <1>8
      <4>2. ASSUME NEW n \in 1..MaxRequests, n > call'[t].n PROVE handling'[<<t, n>>].at = "none"
        <5>1. n # call[t].n /\ n > call[t].n  BY <2>2, <4>1, <4>2
        <5> QED  BY <2>1, <2>4, <3>1, <5>1 DEF TabOK, CallOK
      <4>3. page'[t].o \in Obligations  BY <1>5, <1>18
      <4> QED  BY <1>1, <3>1, <4>1, <4>2, <4>3 DEF CallOK
    <3>2. CASE q # t  BY <1>8, <2>1, <2>4, <3>2 DEF TabOK, CallOK
    <3> QED  BY <3>1, <3>2
  <2>6. ToldOK(q)'
    <3>1. told[q].says \in {"recorded", "refused"} => handling'[<<q, told[q].n>>] = handling[<<q, told[q].n>>]
      BY <1>1, <2>1, <2>4 DEF TabOK, ToldOK
    <3> QED  BY <2>1, <2>3, <3>1 DEF TabOK, ToldOK, Took, Refused
  <2>7. PageOK(q)'  BY <2>1 DEF TabOK, PageOK, ReviewedBy
  <2> QED  BY <2>5, <2>6, <2>7 DEF TabOK
<1> QED  BY <1>9, <1>13, <1>14, <1>15, <1>16 DEF ConsoleInv, ServerOK

LEMMA HandleRunRefStep ==
  ASSUME ConsoleInv, NEW t \in Tabs, HandleRunRef(t)
  PROVE  ConsoleInv'
<1>1. call[t].at = "run_ref" /\ Refused(<<t, call[t].n>>)
  BY DEF ConsoleInv, TabOK, CallOK, HandleRunRef, Refused
<1>2. losses' \in 0..MaxLost  BY DEF ConsoleInv, ConsoleTypeOK, HandleRunRef
<1>3. CASE indexStep[page[t].o] = "none"
  BY <1>1, <1>2, <1>3, TellStep DEF HandleRunRef, serverVars
<1>4. CASE indexStep[page[t].o] # "none"  BY <1>4, SentStep
<1> QED  BY <1>3, <1>4

LEMMA LostStep ==
  ASSUME ConsoleInv, NEW t \in Tabs, Lost(t)
  PROVE  ConsoleInv'
<1>1. losses' \in 0..MaxLost  BY ConsoleAssumption DEF ConsoleInv, ConsoleTypeOK, Lost
<1>2. CASE call[t].at \in {"run_ref", "resume"}
  BY <1>1, <1>2, TellStep DEF Lost
<1>3. CASE call[t].at \notin {"run_ref", "resume"}
  BY <1>1, <1>3, TabGoesOn DEF Lost, CallPoints
<1> QED  BY <1>2, <1>3

LEMMA DecisionAnsweredStep ==
  ASSUME ConsoleInv, NEW t \in Tabs, DecisionAnswered(t)
  PROVE  ConsoleInv'
<1>5. PICK e \in Requests : e = <<t, call[t].n>>
  BY DEF ConsoleInv, TabOK, CallOK, DecisionAnswered, Requests
<1> DEFINE answer == handling[e].answer
<1>1. page[t].o \in Obligations /\ call[t].at = "resume" /\ call[t].n \in 1..MaxRequests /\ handling[e].at = "answered"
  BY <1>5 DEF ConsoleInv, TabOK, CallOK, DecisionAnswered
<1>2. losses' \in 0..MaxLost  BY DEF ConsoleInv, ConsoleTypeOK, DecisionAnswered
<1>3. CASE answer # "ok"
  <2>1. PICK says \in {"refused", "failed"} : says = Says(answer) /\ (says = "refused" => answer \in Refusals)
    BY <1>3 DEF Says
  <2>2. says = "refused" => Refused(e)  BY <1>1, <2>1 DEF Refused
  <2>3. Rest(t) /\ Tell(t, says) /\ UNCHANGED <<serverVars, page>>
    BY <1>3, <1>5, <2>1 DEF DecisionAnswered
  <2> QED  BY <1>1, <1>2, <1>5, <2>2, <2>3, TellStep
<1>4. CASE answer = "ok"
  <2>1. Tell(t, "recorded") /\ Busy(t, "detail") /\ page' = [page EXCEPT ![t].open = FALSE]
    BY <1>4, <1>5 DEF DecisionAnswered, Says, Refusals
  <2>2. /\ told' \in [Tabs -> [n: 0..MaxRequests, says: Told]]
        /\ told'[t].n = call[t].n /\ told'[t].says = "recorded" /\ \A q \in Tabs : q # t => told'[q] = told[q]
    BY <2>1, TellEffect DEF ConsoleInv
  <2>3. /\ call' \in [Tabs -> Calls] /\ \A q \in Tabs : q # t => call'[q] = call[q]
        /\ call'[t].at = "detail" /\ call'[t].n = call[t].n
    BY <2>1, BusyEffect DEF ConsoleInv, CallPoints
  <2>4. /\ [page[t] EXCEPT !.open = FALSE] \in Pages
        /\ page' = [page EXCEPT ![t] = [page[t] EXCEPT !.open = FALSE]]
        /\ page'[t].o = page[t].o /\ page'[t].view = page[t].view
    BY <2>1, OpenedPage
  <2>5. page' \in [Tabs -> Pages] /\ \A q \in Tabs : q # t => page'[q] = page[q]
    BY <2>4 DEF ConsoleInv, ConsoleTypeOK, Pages
  <2>6. ConsoleTypeOK'
    BY <2>2, <2>3, <2>5 DEF ConsoleInv, ConsoleTypeOK, DecisionAnswered, serverVars, runVars, Calls, Pages
  <2>7. TabOK(t)'
    <3>1. CallOK(t)'  BY <1>1, <2>3, <2>4 DEF ConsoleInv, TabOK, CallOK, DecisionAnswered, serverVars
    <3>2. Took(e)' /\ call[t].n \in Nat
      BY <1>1, <1>4, ConsoleAssumption DEF Took, DecisionAnswered, serverVars
    <3>3. ToldOK(t)'  BY <1>1, <1>5, <2>2, <2>3, <3>2 DEF ToldOK
    <3>4. PageOK(t)'
      BY <1>1, <2>4, ConsoleAssumption DEF ConsoleInv, TabOK, PageOK, ReviewedBy, DecisionAnswered, serverVars, runVars
    <3> QED  BY <3>1, <3>3, <3>4 DEF TabOK
  <2>8. OthersStandStill(t)  BY <2>2, <2>3, <2>5 DEF OthersStandStill
  <2> QED  BY <2>6, <2>7, <2>8, TabStep DEF DecisionAnswered, serverVars, runVars
<1> QED  BY <1>3, <1>4

(***************************************************************************)
(* A step of one handler.                                                  *)
(***************************************************************************)
\* Only this handler changes; it stays with its obligation and its step.
Moves(e) ==
  /\ handling[e].at \notin {"none", "answered"}
  /\ handling' \in [Requests -> Handlers]
  /\ \A f \in Requests : f # e => handling'[f] = handling[f]
  /\ handling'[e].o = handling[e].o /\ handling'[e].step = handling[e].step
  /\ handling'[e].at # "none"

LEMMA ProceedsEffect ==
  ASSUME ConsoleTypeOK, NEW e \in Requests, handling[e].at \notin {"none", "answered"},
         NEW at \in Awaiting, Proceeds(e, at)
  PROVE  Moves(e) /\ handling'[e].at = at /\ handling'[e].first = handling[e].first
<1> DEFINE next == [handling[e] EXCEPT !.at = at]
<1>1. handling \in [Requests -> Handlers] /\ handling[e] \in Handlers  BY DEF ConsoleTypeOK, Handlers
<1>2. /\ next \in Handlers /\ next.at = at /\ next.o = handling[e].o /\ next.step = handling[e].step
      /\ next.first = handling[e].first
  BY <1>1 DEF Handlers
<1>3. handling' = [handling EXCEPT ![e] = next]  BY DEF Proceeds
<1> HIDE DEF next
<1>4. handling'[e] = next /\ handling' \in [Requests -> Handlers] /\ \A f \in Requests : f # e => handling'[f] = handling[f]
  BY <1>1, <1>2, <1>3
<1> QED  BY <1>2, <1>4 DEF Moves, Awaiting

LEMMA RespondsEffect ==
  ASSUME ConsoleTypeOK, NEW e \in Requests, handling[e].at \notin {"none", "answered"},
         NEW a \in Answers, Responds(e, a)
  PROVE  Moves(e) /\ handling'[e].at = "answered" /\ handling'[e].answer = a /\ handling'[e].first = handling[e].first
<1> DEFINE one == [handling[e] EXCEPT !.at = "answered"]
           both == [one EXCEPT !.answer = a]
<1>1. handling \in [Requests -> Handlers] /\ handling[e] \in Handlers  BY DEF ConsoleTypeOK, Handlers
<1>2. /\ one \in Handlers /\ one.at = "answered" /\ one.o = handling[e].o /\ one.step = handling[e].step
      /\ one.first = handling[e].first
  BY <1>1 DEF Handlers
<1>3. /\ both \in Handlers /\ both.at = "answered" /\ both.o = handling[e].o /\ both.step = handling[e].step
      /\ both.first = handling[e].first /\ both.answer = a
  BY <1>2 DEF Handlers
<1>4. [handling EXCEPT ![e].at = "answered"] = [handling EXCEPT ![e] = one]  OBVIOUS
<1>5. [[handling EXCEPT ![e] = one] EXCEPT ![e].answer = a] = [handling EXCEPT ![e] = both]  BY <1>1
<1>6. handling' = [handling EXCEPT ![e] = both]  BY <1>4, <1>5 DEF Responds
<1> HIDE DEF both
<1>7. handling'[e] = both /\ handling' \in [Requests -> Handlers] /\ \A f \in Requests : f # e => handling'[f] = handling[f]
  BY <1>1, <1>3, <1>6
<1> QED  BY <1>3, <1>7 DEF Moves

LEMMA GoesOnEffect ==
  ASSUME ConsoleTypeOK, NEW e \in Requests, handling[e].at \notin {"none", "answered"},
         NEW at \in Awaiting, GoesOn(e, at)
  PROVE  /\ Moves(e) /\ losses' \in 0..MaxLost /\ handling'[e].first = handling[e].first
         /\ handling'[e].at = at \/ (handling'[e].at = "answered" /\ handling'[e].answer = "INTERNAL_ERROR")
<1>1. losses' \in 0..MaxLost  BY ConsoleAssumption DEF ConsoleTypeOK, GoesOn
<1>2. CASE Proceeds(e, at)  BY <1>1, <1>2, ProceedsEffect
<1>3. CASE Responds(e, "INTERNAL_ERROR")  BY <1>1, <1>3, RespondsEffect DEF Answers
<1> QED  BY <1>2, <1>3 DEF GoesOn

\* A handler changes nothing of a tab, and writes no review but its own.
Leaves(e) ==
  /\ Moves(e)
  /\ \A o \in Obligations : recorded[o] \subseteq recorded'[o]
  /\ \A o \in Obligations : \A review \in recorded'[o] :
       review \in recorded[o] \/ (o = Ob(e) /\ review = Review(e))
  /\ entries \subseteq entries'
  /\ \A f \in Requests : f # e => (f \in repeated' <=> f \in repeated)
  /\ UNCHANGED <<page, call, told>>

\* What may stand of a handler whose review is in the graph.
Written(e) ==
  /\ e \notin repeated
  /\ handling[e].at \in {"append", "resume", "resuspend", "commit", "clear", "answered"}
  /\ handling[e].at = "answered" => handling[e].answer \in {"ok", "INTERNAL_ERROR"}

LEMMA TabsKept ==
  ASSUME ConsoleInv, NEW e \in Requests, Leaves(e)
  PROVE  \A t \in Tabs : TabOK(t)'
<1> TAKE t \in Tabs
<1>1. TabOK(t) /\ page'[t] = page[t] /\ call'[t] = call[t] /\ told'[t] = told[t]
  BY DEF ConsoleInv, Leaves
<1>2. \A f \in Requests : handling[f].at \in {"none", "answered"} => handling'[f] = handling[f]
  BY DEF Leaves, Moves
<1>3. \A n \in 1..MaxRequests : <<t, n>> \in Requests  BY DEF Requests
<1>4. CallOK(t)'  BY <1>1, <1>2, <1>3 DEF TabOK, CallOK
<1>5. ToldOK(t)'  BY <1>1, <1>2, <1>3 DEF TabOK, ToldOK, Took, Refused
<1>6. PageOK(t)'
  <2>1. page[t].o \in Obligations \cup {None}  BY DEF ConsoleInv, ConsoleTypeOK
  <2>2. page[t].o = None => page[t].view.shows = {}  BY <1>1 DEF TabOK, PageOK, NoView
  <2>3. page[t].o \in Obligations => recorded[page[t].o] \subseteq recorded'[page[t].o]  BY DEF Leaves
  <2> QED  BY <1>1, <2>1, <2>2, <2>3 DEF TabOK, PageOK, ReviewedBy
<1> QED  BY <1>4, <1>5, <1>6 DEF TabOK

LEMMA ReviewsKept ==
  ASSUME ConsoleInv, NEW e \in Requests, Leaves(e), Review(e) \in recorded'[Ob(e)] => Written(e)'
  PROVE  \A o \in Obligations : \A review \in recorded'[o] : ReviewOK(o, review)'
<1> TAKE o \in Obligations
<1> TAKE review \in recorded'[o]
<1>1. CASE review \in recorded[o] /\ review.event # e
  <2>1. ReviewOK(o, review) /\ review.event \in Requests
    BY <1>1 DEF ConsoleInv, ServerOK, RunOK, ConsoleTypeOK, Recorded
  <2> QED  BY <1>1, <2>1 DEF ReviewOK, Review, Reviewer, Ob, Leaves, Moves
<1>2. CASE review \notin recorded[o] \/ review.event = e
  <2>1. o = Ob(e) /\ review = Review(e)
    BY <1>2 DEF Leaves, ConsoleInv, ServerOK, RunOK, ReviewOK
  <2>2. Review(e).event = e /\ Review(e)' = Review(e) /\ Ob(e)' = Ob(e)
    BY DEF Review, Reviewer, Ob, Leaves, Moves
  <2> QED  BY <2>1, <2>2 DEF ReviewOK, Written
<1> QED  BY <1>1, <1>2

\* The engine stands still, and the handler does not pass it.
LEMMA HandlerStep ==
  ASSUME ConsoleInv, NEW e \in Requests, Leaves(e), ConsoleTypeOK', UNCHANGED engine,
         Review(e) \in recorded'[Ob(e)] => Written(e)',
         Passed(e)' => Passed(e),
         HandlerOK(e)',
         \A o \in Obligations : indexStep'[o] = "awaitSecondHumanReview" => indexStep[o] = "awaitSecondHumanReview"
  PROVE  ConsoleInv'
<1>1. \A t \in Tabs : TabOK(t)'  BY TabsKept
<1>2. ASSUME NEW o \in Obligations PROVE RunOK(o)'
  <2>1. recorded[o] # {} => recorded'[o] # {}  BY DEF Leaves
  <2>2. \A review \in recorded'[o] : ReviewOK(o, review)'  BY ReviewsKept
  <2> QED  BY <2>1, <2>2 DEF ConsoleInv, ServerOK, RunOK
<1>3. ASSUME NEW f \in Requests, f # e PROVE HandlerOK(f)'
  <2>1. HandlerOK(f) /\ handling'[f] = handling[f] /\ (f \in repeated' <=> f \in repeated)
    BY <1>3 DEF ConsoleInv, ServerOK, Leaves, Moves
  <2>2. \A g \in Requests : Ob(g)' = Ob(g) /\ (Passed(g)' => Passed(g))
    BY DEF Leaves, Moves, Ob, Passed, Took
  <2>3. Passed(f)' <=> Passed(f)  BY <2>1 DEF Passed, Took
  <2>4. handling[f].at = "none" \/ recorded[Ob(f)] \subseteq recorded'[Ob(f)]
    BY <2>1 DEF HandlerOK, Leaves
  <2>5. entries \subseteq entries' /\ Review(f)' = Review(f) /\ Reviewer(f)' = Reviewer(f)
    BY DEF Leaves, Review, Reviewer
  <2> QED  BY <2>1, <2>2, <2>3, <2>4, <2>5 DEF HandlerOK, ReviewedBy, Passed, Took
<1> QED  BY <1>1, <1>2, <1>3 DEF ConsoleInv, ServerOK

\* Before its review, and when it fails, a handler writes nothing.
LEMMA QuietStep ==
  ASSUME ConsoleInv, NEW e \in Requests, Moves(e),
         handling'[e].at \in {"check_step", "check_slot", "read_reviews", "write_review", "answered"},
         handling'[e].at = "answered" => handling'[e].answer # "ok",
         \/ handling[e].at \in {"sent", "check_step", "check_slot", "read_reviews"}
         \/ handling'[e].at = "answered" /\ handling'[e].answer = "INTERNAL_ERROR" /\ UNCHANGED repeated,
         handling'[e].first => handling[e].step = "awaitHumanReview",
         e \in repeated' => ReviewedBy(Ob(e), Reviewer(e)) /\ handling'[e].at # "write_review",
         repeated' \in {repeated, repeated \cup {e}},
         UNCHANGED <<runVars, page, call, told>>, losses' \in 0..MaxLost
  PROVE  ConsoleInv'
<1>1. HandlerOK(e)  BY DEF ConsoleInv, ServerOK
<1>2. UNCHANGED <<recorded, entries, engine, indexStep>>  BY DEF runVars
<1>3. Leaves(e)  BY <1>2 DEF Leaves
<1>4. ConsoleTypeOK'
  BY SMTT(30) DEF ConsoleInv, ConsoleTypeOK, runVars, Moves, Handlers
<1>5. ~Passed(e)'  BY DEF Passed, Took
<1>6. HandlerOK(e)'
  BY <1>1, <1>2, <1>5 DEF HandlerOK, Moves, Ob, Reviewer, ReviewedBy
<1>7. ASSUME Review(e) \in recorded'[Ob(e)] PROVE Written(e)'
  <2>1. Ob(e) \in Obligations  BY <1>1 DEF HandlerOK, Moves
  <2>2. ReviewOK(Ob(e), Review(e)) /\ Review(e).event = e
    BY <1>2, <1>7, <2>1 DEF ConsoleInv, ServerOK, RunOK, Review
  <2>3. e \notin repeated /\ handling[e].at \notin {"sent", "check_step", "check_slot", "read_reviews"}
    BY <2>2 DEF ReviewOK
  <2> QED  BY <2>3 DEF Written
<1> QED  BY <1>2, <1>3, <1>4, <1>5, <1>6, <1>7, HandlerStep

LEMMA HandleResumeStep ==
  ASSUME ConsoleInv, NEW e \in Requests, HandleResume(e)
  PROVE  ConsoleInv'
<1>1. /\ Moves(e) /\ handling'[e].first = handling[e].first
      /\ \/ handling'[e].at = "check_step"
         \/ handling'[e].at = "answered" /\ handling'[e].answer = "SUSPENDED_STEP_NOT_FOUND"
  <2>1. CASE Proceeds(e, "check_step")  BY <2>1, ProceedsEffect DEF HandleResume, ConsoleInv, Awaiting
  <2>2. CASE Responds(e, "SUSPENDED_STEP_NOT_FOUND")
    BY <2>2, RespondsEffect DEF HandleResume, ConsoleInv, Answers, Refusals
  <2> QED  BY <2>1, <2>2 DEF HandleResume
<1>2. HandlerOK(e) /\ handling[e].at = "sent"  BY DEF ConsoleInv, ServerOK, HandleResume
<1>3. e \notin repeated /\ (handling[e].first => handling[e].step = "awaitHumanReview")  BY <1>2 DEF HandlerOK
<1>4. repeated' \in {repeated, repeated \cup {e}} /\ (e \in repeated' => ReviewedBy(Ob(e), Reviewer(e)))
  BY <1>3 DEF HandleResume
<1> QED  BY <1>1, <1>2, <1>3, <1>4, QuietStep DEF HandleResume, ConsoleInv, ConsoleTypeOK

LEMMA CheckStepStep ==
  ASSUME ConsoleInv, NEW e \in Requests, CheckStep(e)
  PROVE  ConsoleInv'
<1>1. /\ Moves(e) /\ handling'[e].first = handling[e].first
      /\ \/ handling'[e].at = "check_slot"
         \/ handling'[e].at = "answered" /\ handling'[e].answer = "ALREADY_DECIDED"
  <2>1. CASE Proceeds(e, "check_slot")  BY <2>1, ProceedsEffect DEF CheckStep, ConsoleInv, Awaiting
  <2>2. CASE Responds(e, "ALREADY_DECIDED")
    BY <2>2, RespondsEffect DEF CheckStep, ConsoleInv, Answers, Refusals
  <2> QED  BY <2>1, <2>2 DEF CheckStep
<1>2. HandlerOK(e) /\ handling[e].at = "check_step"  BY DEF ConsoleInv, ServerOK, CheckStep
<1>3. /\ handling[e].first => handling[e].step = "awaitHumanReview"
      /\ e \in repeated => ReviewedBy(Ob(e), Reviewer(e))
  BY <1>2 DEF HandlerOK
<1> QED  BY <1>1, <1>2, <1>3, QuietStep DEF CheckStep, ConsoleInv, ConsoleTypeOK

LEMMA CheckAssignmentStep ==
  ASSUME ConsoleInv, NEW e \in Requests, CheckAssignment(e)
  PROVE  ConsoleInv'
<1>1. /\ Moves(e) /\ handling'[e].first = handling[e].first
      /\ \/ handling'[e].at = "read_reviews"
         \/ handling'[e].at = "answered" /\ handling'[e].answer \in {"SELF_REVIEW_FORBIDDEN", "NOT_ASSIGNED"}
  <2>1. CASE Proceeds(e, "read_reviews")  BY <2>1, ProceedsEffect DEF CheckAssignment, ConsoleInv, Awaiting
  <2>2. CASE Responds(e, "SELF_REVIEW_FORBIDDEN")
    BY <2>2, RespondsEffect DEF CheckAssignment, ConsoleInv, Answers, Refusals
  <2>3. CASE Responds(e, "NOT_ASSIGNED")
    BY <2>3, RespondsEffect DEF CheckAssignment, ConsoleInv, Answers, Refusals
  <2> QED  BY <2>1, <2>2, <2>3 DEF CheckAssignment
<1>2. HandlerOK(e) /\ handling[e].at = "check_slot"  BY DEF ConsoleInv, ServerOK, CheckAssignment
<1>3. /\ handling[e].first => handling[e].step = "awaitHumanReview"
      /\ e \in repeated => ReviewedBy(Ob(e), Reviewer(e))
  BY <1>2 DEF HandlerOK
<1> QED  BY <1>1, <1>2, <1>3, QuietStep DEF CheckAssignment, ConsoleInv, ConsoleTypeOK

\* Whoever came when a review of theirs was there reads it here.
LEMMA ReadReviewsStep ==
  ASSUME ConsoleInv, NEW e \in Requests, ReadReviews(e)
  PROVE  ConsoleInv'
<1>1. HandlerOK(e) /\ handling[e].at = "read_reviews" /\ Ob(e) \in Obligations
  BY DEF ConsoleInv, ServerOK, ReadReviews, HandlerOK
<1>2. /\ handling[e].first => handling[e].step = "awaitHumanReview"
      /\ handling[e].step = "awaitSecondHumanReview" => recorded[Ob(e)] # {}
      /\ handling[e].step \in {"awaitHumanReview", "awaitSecondHumanReview"}
      /\ e \in repeated => ReviewedBy(Ob(e), Reviewer(e))
  BY <1>1 DEF HandlerOK
<1>3. CASE MayReview(Ob(e), Reviewer(e))
  <2> DEFINE one == [handling[e] EXCEPT !.at = "write_review"]
             both == [one EXCEPT !.first = (recorded[Ob(e)] = {})]
  <2>1. handling \in [Requests -> Handlers] /\ handling[e] \in Handlers
    BY DEF ConsoleInv, ConsoleTypeOK, Handlers
  <2>2. one \in Handlers /\ one.at = "write_review" /\ one.o = handling[e].o /\ one.step = handling[e].step
    BY <2>1 DEF Handlers, Awaiting
  <2>3. /\ both \in Handlers /\ both.at = "write_review" /\ both.o = handling[e].o /\ both.step = handling[e].step
        /\ both.first => recorded[Ob(e)] = {}
    BY <2>2 DEF Handlers
  <2>4. [handling EXCEPT ![e].at = "write_review"] = [handling EXCEPT ![e] = one]  OBVIOUS
  <2>5. [[handling EXCEPT ![e] = one] EXCEPT ![e].first = (recorded[Ob(e)] = {})] = [handling EXCEPT ![e] = both]
    BY <2>1
  <2>6. handling' = [handling EXCEPT ![e] = both]  BY <1>3, <2>4, <2>5 DEF ReadReviews
  <2> HIDE DEF both
  <2>7. Moves(e) /\ handling'[e] = both  BY <1>1, <2>1, <2>3, <2>6 DEF Moves
  <2>8. e \notin repeated  BY <1>2, <1>3 DEF MayReview
  <2> QED  BY <1>1, <1>2, <2>3, <2>7, <2>8, QuietStep DEF ReadReviews, ConsoleInv, ConsoleTypeOK
<1>4. CASE ~MayReview(Ob(e), Reviewer(e))
  <2>1. Responds(e, "INTERNAL_ERROR")  BY <1>4 DEF ReadReviews
  <2>2. /\ Moves(e) /\ handling'[e].first = handling[e].first
        /\ handling'[e].at = "answered" /\ handling'[e].answer = "INTERNAL_ERROR"
    BY <1>1, <2>1, RespondsEffect DEF ConsoleInv, Answers
  <2> QED  BY <1>1, <1>2, <2>2, QuietStep DEF ReadReviews, ConsoleInv, ConsoleTypeOK
<1> QED  BY <1>3, <1>4

LEMMA HandlerFailsStep ==
  ASSUME ConsoleInv, NEW e \in Requests, HandlerFails(e)
  PROVE  ConsoleInv'
<1>1. /\ Moves(e) /\ handling'[e].first = handling[e].first
      /\ handling'[e].at = "answered" /\ handling'[e].answer = "INTERNAL_ERROR"
  BY RespondsEffect DEF HandlerFails, ConsoleInv, Answers, Awaiting
<1>2. HandlerOK(e) /\ handling[e].at # "none"  BY DEF ConsoleInv, ServerOK, HandlerFails, Awaiting
<1>3. /\ handling[e].first => handling[e].step = "awaitHumanReview"
      /\ e \in repeated => ReviewedBy(Ob(e), Reviewer(e))
  BY <1>2 DEF HandlerOK
<1>4. losses' \in 0..MaxLost  BY ConsoleAssumption DEF HandlerFails, ConsoleInv, ConsoleTypeOK
<1> QED  BY <1>1, <1>3, <1>4, QuietStep DEF HandlerFails

LEMMA WriteReviewStep ==
  ASSUME ConsoleInv, NEW e \in Requests, WriteReview(e)
  PROVE  ConsoleInv'
<1> DEFINE o == Ob(e)
<1>1. HandlerOK(e) /\ handling[e].at = "write_review" /\ o \in Obligations
  BY DEF ConsoleInv, ServerOK, WriteReview, HandlerOK
<1>2. /\ Moves(e) /\ losses' \in 0..MaxLost /\ handling'[e].first = handling[e].first
      /\ handling'[e].at = "append" \/ (handling'[e].at = "answered" /\ handling'[e].answer = "INTERNAL_ERROR")
  BY <1>1, GoesOnEffect DEF WriteReview, ConsoleInv, Awaiting
<1>3. recorded' = [recorded EXCEPT ![o] = @ \cup {Review(e)}] /\ recorded \in [Obligations -> SUBSET Recorded]
  BY DEF WriteReview, Review, ConsoleInv, ConsoleTypeOK
<1>4. Review(e) \in Recorded  BY DEF Review, Recorded, Reviewer, SignedIn, Requests
<1>5. /\ recorded' \in [Obligations -> SUBSET Recorded] /\ recorded'[o] = recorded[o] \cup {Review(e)}
      /\ \A p \in Obligations : p # o => recorded'[p] = recorded[p]
  BY <1>1, <1>3, <1>4
<1>6. Leaves(e)  BY <1>2, <1>5 DEF Leaves, WriteReview
<1>7. ConsoleTypeOK'
  BY <1>2, <1>5, SMTT(30) DEF ConsoleInv, ConsoleTypeOK, WriteReview, Moves, Handlers
<1>8. ~Passed(e)' /\ e \notin repeated  BY <1>1, <1>2 DEF Passed, Took, HandlerOK
<1>9. Written(e)'  BY <1>2, <1>8 DEF Written, WriteReview
<1>10. HandlerOK(e)'
  <2>1. Review(e)' \in recorded'[o] /\ Ob(e)' = o  BY <1>2, <1>5 DEF Review, Reviewer, Moves, Ob
  <2>2. e \notin repeated'  BY <1>8 DEF WriteReview
  <2> QED  BY <1>1, <1>2, <1>8, <2>1, <2>2 DEF HandlerOK, Moves, Ob
<1> QED  BY <1>6, <1>7, <1>8, <1>9, <1>10, HandlerStep DEF WriteReview

LEMMA AppendLedgerEntryStep ==
  ASSUME ConsoleInv, NEW e \in Requests, AppendLedgerEntry(e)
  PROVE  ConsoleInv'
<1>1. HandlerOK(e) /\ handling[e].at = "append" /\ Ob(e) \in Obligations
  BY DEF ConsoleInv, ServerOK, AppendLedgerEntry, HandlerOK
<1>2. /\ Moves(e) /\ losses' \in 0..MaxLost /\ handling'[e].first = handling[e].first
      /\ handling'[e].at = "resume" \/ (handling'[e].at = "answered" /\ handling'[e].answer = "INTERNAL_ERROR")
  BY <1>1, GoesOnEffect DEF AppendLedgerEntry, ConsoleInv, Awaiting
<1>3. Leaves(e)  BY <1>2 DEF Leaves, AppendLedgerEntry
<1>4. ConsoleTypeOK'
  BY <1>2, SMTT(30) DEF ConsoleInv, ConsoleTypeOK, AppendLedgerEntry, Moves, Handlers
<1>5. ~Passed(e)' /\ e \notin repeated  BY <1>1, <1>2 DEF Passed, Took, HandlerOK
<1>6. Written(e)'  BY <1>2, <1>5 DEF Written, AppendLedgerEntry
<1>7. HandlerOK(e)'
  <2>1. Review(e)' = Review(e) /\ Ob(e)' = Ob(e) /\ e \in entries' /\ UNCHANGED <<recorded, engine, repeated>>
    BY <1>2 DEF Review, Reviewer, Moves, Ob, AppendLedgerEntry
  <2> QED  BY <1>1, <1>2, <1>5, <2>1 DEF HandlerOK, Moves, Ob
<1> QED  BY <1>3, <1>4, <1>5, <1>6, <1>7, HandlerStep DEF AppendLedgerEntry

LEMMA CommitDecisionStep ==
  ASSUME ConsoleInv, NEW e \in Requests, CommitDecision(e)
  PROVE  ConsoleInv'
<1>1. HandlerOK(e) /\ handling[e].at = "commit" /\ Passed(e) /\ Ob(e) \in Obligations
  BY DEF ConsoleInv, ServerOK, CommitDecision, HandlerOK, Passed
<1>2. /\ Moves(e) /\ losses' \in 0..MaxLost /\ handling'[e].first = handling[e].first
      /\ handling'[e].at = "clear" \/ (handling'[e].at = "answered" /\ handling'[e].answer = "INTERNAL_ERROR")
  BY <1>1, GoesOnEffect DEF CommitDecision, ConsoleInv, Awaiting
<1>3. Leaves(e)  BY <1>2 DEF Leaves, CommitDecision
<1>4. ConsoleTypeOK'
  BY <1>1, <1>2, SMTT(30) DEF ConsoleInv, ConsoleTypeOK, CommitDecision, Moves, Handlers
<1>5. e \notin repeated  BY <1>1 DEF HandlerOK
<1>6. Written(e)'  BY <1>2, <1>5 DEF Written, CommitDecision
<1>7. HandlerOK(e)'
  <2>1. /\ Review(e)' = Review(e) /\ Ob(e)' = Ob(e)
        /\ UNCHANGED <<recorded, entries, engine, repeated>>
    BY <1>2 DEF Review, Reviewer, Moves, Ob, CommitDecision
  <2> QED  BY <1>1, <1>2, <1>5, <2>1 DEF HandlerOK, Moves, Ob, Passed, Took
<1> QED  BY <1>1, <1>3, <1>4, <1>6, <1>7, HandlerStep DEF CommitDecision

LEMMA ClearIndexStep ==
  ASSUME ConsoleInv, NEW e \in Requests, ClearIndex(e)
  PROVE  ConsoleInv'
<1>1. HandlerOK(e) /\ handling[e].at = "clear" /\ Passed(e) /\ Ob(e) \in Obligations
  BY DEF ConsoleInv, ServerOK, ClearIndex, HandlerOK, Passed
<1>2. /\ Moves(e) /\ handling'[e].first = handling[e].first
      /\ handling'[e].at = "answered" /\ handling'[e].answer = "ok"
  BY <1>1, RespondsEffect DEF ClearIndex, ConsoleInv, Answers
<1>3. Leaves(e)  BY <1>2 DEF Leaves, ClearIndex
<1>4. indexStep' \in [Obligations -> Steps] /\ \A o \in Obligations : indexStep'[o] \in {indexStep[o], "none"}
  BY <1>1 DEF ClearIndex, ConsoleInv, ConsoleTypeOK, Steps
<1>5. taken' \in [Obligations -> [maker: SignedIn \cup {None}, checker: SignedIn \cup {None}]]
  BY <1>1 DEF ClearIndex, ConsoleInv, ConsoleTypeOK, NoneTaken
<1>6. ConsoleTypeOK'
  BY <1>2, <1>4, <1>5, SMTT(30) DEF ConsoleInv, ConsoleTypeOK, ClearIndex, Moves, Handlers
<1>7. e \notin repeated  BY <1>1 DEF HandlerOK
<1>8. Written(e)'  BY <1>2, <1>7 DEF Written, ClearIndex
<1>9. HandlerOK(e)'
  <2>1. /\ Review(e)' = Review(e) /\ Ob(e)' = Ob(e)
        /\ UNCHANGED <<recorded, entries, engine, repeated>>
    BY <1>2 DEF Review, Reviewer, Moves, Ob, ClearIndex
  <2> QED  BY <1>1, <1>2, <1>7, <2>1 DEF HandlerOK, Moves, Ob, Passed, Took
<1> QED  BY <1>1, <1>3, <1>4, <1>6, <1>8, <1>9, HandlerStep DEF ClearIndex

(***************************************************************************)
(* The steps of the engine.                                                *)
(***************************************************************************)
\* The engine takes a decision at the step it waits at, and no other handler of
\* the run is on its way back to a step.
LEMMA TakenStep ==
  ASSUME ConsoleInv, NEW e \in Requests, ResumeEngine(e), engine[Ob(e)] = handling[e].step
  PROVE  ConsoleInv'
<1> DEFINE o == Ob(e)
<1>1. HandlerOK(e) /\ handling[e].at = "resume" /\ o \in Obligations
  BY DEF ConsoleInv, ServerOK, ResumeEngine, HandlerOK
<1>2. engine \in [Obligations -> Steps] /\ engine' = [engine EXCEPT ![o] = "none"]
  BY DEF ResumeEngine, ConsoleInv, ConsoleTypeOK
<1>3. engine' \in [Obligations -> Steps] /\ engine'[o] = "none" /\ \A p \in Obligations : p # o => engine'[p] = engine[p]
  BY <1>1, <1>2 DEF Steps
<1>4. /\ Moves(e) /\ handling'[e].first = handling[e].first
      /\ \/ handling'[e].at = "commit" /\ UNCHANGED <<makerOf, indexStep>>
         \/ /\ handling'[e].at = "resuspend" /\ handling[e].first
            /\ makerOf' = [makerOf EXCEPT ![o] = Reviewer(e)]
            /\ indexStep' = [indexStep EXCEPT ![o] = "awaitSecondHumanReview"]
  <2>1. CASE Proceeds(e, "commit") /\ UNCHANGED <<makerOf, indexStep>>
    BY <1>1, <2>1, ProceedsEffect DEF ConsoleInv, Awaiting
  <2>2. CASE /\ Proceeds(e, "resuspend") /\ handling[e].first
             /\ makerOf' = [makerOf EXCEPT ![o] = Reviewer(e)]
             /\ indexStep' = [indexStep EXCEPT ![o] = "awaitSecondHumanReview"]
    BY <1>1, <2>2, ProceedsEffect DEF ConsoleInv, Awaiting
  <2> QED  BY <2>1, <2>2 DEF ResumeEngine
<1>5. Leaves(e)  BY <1>4 DEF Leaves, ResumeEngine
<1>6. /\ indexStep' \in [Obligations -> Steps] /\ makerOf' \in [Obligations -> SignedIn \cup {None}]
      /\ \A p \in Obligations : p # o => indexStep'[p] = indexStep[p]
  <2>1. Reviewer(e) \in SignedIn \cup {None}  BY DEF Reviewer, SignedIn, Requests
  <2>2. indexStep \in [Obligations -> Steps] /\ makerOf \in [Obligations -> SignedIn \cup {None}]
    BY DEF ConsoleInv, ConsoleTypeOK
  <2> HIDE DEF o
  <2> QED  BY <1>1, <1>4, <2>1, <2>2 DEF Steps
<1>7. ConsoleTypeOK'
  BY <1>3, <1>4, <1>6, SMTT(30) DEF ConsoleInv, ConsoleTypeOK, ResumeEngine, Moves, Handlers
<1>8. e \notin repeated /\ Review(e) \in recorded[o] /\ e \in entries /\ UNCHANGED <<recorded, entries, repeated>>
  BY <1>1 DEF HandlerOK, ResumeEngine
<1>9. Review(e)' = Review(e) /\ \A f \in Requests : Ob(f)' = Ob(f) /\ (f # e => (Passed(f)' <=> Passed(f)))
  BY <1>4 DEF Review, Reviewer, Moves, Ob, Passed, Took
<1>10. \A f \in Requests : HandlerOK(f)  BY DEF ConsoleInv, ServerOK
<1>11. HandlerOK(e)'
  <2>1. handling[e].step \in {"awaitHumanReview", "awaitSecondHumanReview"} /\ (handling[e].first => handling[e].step = "awaitHumanReview")
    BY <1>1 DEF HandlerOK
  <2>2. ASSUME handling[e].first, NEW f \in Requests, f # e, Ob(f) = o PROVE ~Passed(f)
    BY <1>10, <2>1, <2>2 DEF HandlerOK
  <2>3. handling'[e].at = "resuspend" => \A f \in Requests : f # e /\ Ob(f)' = Ob(e)' => ~Passed(f)'
    BY <1>4, <1>9, <2>2
  <2> QED  BY <1>1, <1>3, <1>4, <1>8, <1>9, <2>1, <2>3 DEF HandlerOK, Moves, Ob, Passed, Took
<1>12. ASSUME NEW f \in Requests, f # e PROVE HandlerOK(f)'
  <2>1. HandlerOK(f) /\ handling'[f] = handling[f]  BY <1>4, <1>10, <1>12 DEF Moves
  <2>2. Ob(f) = o => handling[f].at # "resuspend"
    BY <1>1, <2>1 DEF HandlerOK
  <2>3. CASE Ob(f) = o
    BY <1>3, <1>8, <1>9, <1>12, <2>1, <2>2, <2>3 DEF HandlerOK, ReviewedBy, Review, Reviewer, Passed, Took
  <2>4. CASE Ob(f) # o
    <3>1. handling[f].at # "none" => engine'[Ob(f)] = engine[Ob(f)]  BY <1>3, <2>1, <2>4 DEF HandlerOK
    <3> QED
      BY <1>8, <1>9, <1>12, <2>1, <2>4, <3>1 DEF HandlerOK, ReviewedBy, Review, Reviewer, Passed, Took
  <2> QED  BY <2>3, <2>4
<1>13. ASSUME NEW p \in Obligations PROVE RunOK(p)'
  <2>1. Written(e)'  BY <1>4, <1>8 DEF Written
  <2>2. \A review \in recorded'[p] : ReviewOK(p, review)'  BY <1>5, <2>1, ReviewsKept
  <2>3. recorded[o] # {} /\ RunOK(p)  BY <1>8 DEF ConsoleInv, ServerOK
  <2> QED  BY <1>3, <1>6, <1>8, <2>2, <2>3 DEF RunOK
<1>14. \A t \in Tabs : TabOK(t)'  BY <1>5, TabsKept
<1> QED  BY <1>7, <1>11, <1>12, <1>13, <1>14 DEF ConsoleInv, ServerOK

LEMMA ResumeEngineStep ==
  ASSUME ConsoleInv, NEW e \in Requests, ResumeEngine(e)
  PROVE  ConsoleInv'
<1>1. CASE engine[Ob(e)] = handling[e].step  BY <1>1, TakenStep
<1>2. CASE engine[Ob(e)] # handling[e].step
  <2>1. HandlerOK(e) /\ handling[e].at = "resume"  BY DEF ConsoleInv, ServerOK, ResumeEngine
  <2>2. /\ Moves(e) /\ handling'[e].first = handling[e].first
        /\ handling'[e].at = "answered" /\ handling'[e].answer = "INTERNAL_ERROR"
    BY <1>2, <2>1, RespondsEffect DEF ResumeEngine, ConsoleInv, Answers
  <2>3. /\ handling[e].first => handling[e].step = "awaitHumanReview"
        /\ e \in repeated => ReviewedBy(Ob(e), Reviewer(e))
    BY <2>1 DEF HandlerOK
  <2>4. UNCHANGED <<runVars, repeated, page, call, told, losses>>  BY <1>2 DEF ResumeEngine, runVars
  <2> QED  BY <2>2, <2>3, <2>4, QuietStep DEF ConsoleInv, ConsoleTypeOK
<1> QED  BY <1>1, <1>2

\* The engine waits again, at the second step.
LEMMA ResuspendStep ==
  ASSUME ConsoleInv, NEW e \in Requests, Resuspend(e)
  PROVE  ConsoleInv'
<1> DEFINE o == Ob(e)
<1>1. HandlerOK(e) /\ handling[e].at = "resuspend" /\ Passed(e) /\ o \in Obligations
  BY DEF ConsoleInv, ServerOK, Resuspend, HandlerOK, Passed
<1>2. /\ engine' \in [Obligations -> Steps] /\ engine'[o] = "awaitSecondHumanReview"
      /\ \A p \in Obligations : p # o => engine'[p] = engine[p]
  BY <1>1 DEF Resuspend, ConsoleInv, ConsoleTypeOK, Steps
<1>3. /\ Moves(e) /\ handling'[e].first = handling[e].first
      /\ handling'[e].at = "answered" /\ handling'[e].answer = "ok"
  BY <1>1, RespondsEffect DEF Resuspend, ConsoleInv, Answers
<1>4. Leaves(e)  BY <1>3 DEF Leaves, Resuspend
<1>5. ConsoleTypeOK'
  BY <1>2, <1>3, SMTT(30) DEF ConsoleInv, ConsoleTypeOK, Resuspend, Moves, Handlers
<1>6. /\ e \notin repeated /\ Review(e) \in recorded[o] /\ e \in entries
      /\ UNCHANGED <<recorded, entries, indexStep, repeated>>
  BY <1>1 DEF HandlerOK, Resuspend
<1>7. Review(e)' = Review(e) /\ \A f \in Requests : Ob(f)' = Ob(f) /\ (Passed(f)' <=> Passed(f))
  BY <1>1, <1>3 DEF Review, Reviewer, Moves, Ob, Passed, Took
<1>8. HandlerOK(e)'
  <2>1. handling[e].step = "awaitHumanReview"  BY <1>1 DEF HandlerOK
  <2> QED  BY <1>1, <1>2, <1>3, <1>6, <1>7, <2>1 DEF HandlerOK, Moves, Ob
<1>9. ASSUME NEW f \in Requests, f # e PROVE HandlerOK(f)'
  <2>1. HandlerOK(f) /\ handling'[f] = handling[f]  BY <1>3, <1>9 DEF ConsoleInv, ServerOK, Moves
  <2>2. CASE Ob(f) = o
    <3>1. ~Passed(f)  BY <1>1, <1>9, <2>2 DEF HandlerOK
    <3>2. handling[f].at # "resuspend"  BY <3>1 DEF Passed
    <3> QED  BY <1>6, <1>7, <2>1, <3>1, <3>2 DEF HandlerOK, ReviewedBy, Review, Reviewer
  <2>3. CASE Ob(f) # o
    <3>1. handling[f].at # "none" => engine'[Ob(f)] = engine[Ob(f)]  BY <1>2, <2>1, <2>3 DEF HandlerOK
    <3> QED
      BY <1>6, <1>7, <2>1, <2>3, <3>1 DEF HandlerOK, ReviewedBy, Review, Reviewer, Passed, Took
  <2> QED  BY <2>2, <2>3
<1>10. ASSUME NEW p \in Obligations PROVE RunOK(p)'
  <2>1. Written(e)'  BY <1>3, <1>6 DEF Written
  <2>2. \A review \in recorded'[p] : ReviewOK(p, review)'  BY <1>4, <2>1, ReviewsKept
  <2>3. recorded[o] # {} /\ RunOK(p)  BY <1>6 DEF ConsoleInv, ServerOK
  <2> QED  BY <1>2, <1>6, <2>2, <2>3 DEF RunOK
<1>11. \A t \in Tabs : TabOK(t)'  BY <1>4, TabsKept
<1> QED  BY <1>5, <1>8, <1>9, <1>10, <1>11 DEF ConsoleInv, ServerOK

(***************************************************************************)
(* The theorems.                                                           *)
(***************************************************************************)
LEMMA ConsoleInvKept ==
  ASSUME ConsoleInv, [ConsoleNext]_consoleVars
  PROVE  ConsoleInv'
<1>1. CASE \E t \in Tabs, o \in Obligations : Load(t, o)  BY <1>1, LoadStep
<1>2. CASE \E t \in Tabs, d \in PanelDecisions, rationale \in BOOLEAN : SubmitDecision(t, d, rationale)
  BY <1>2, SubmitStep
<1>3. CASE \E t \in Tabs : ReadDetail(t) \/ ReadGateView(t) \/ GateUnavailable(t) \/ OpenPanel(t)
  BY <1>3, ReadDetailStep, ReadGateStep, GateUnavailableStep, OpenPanelStep
<1>4. CASE \E t \in Tabs : ClaimThenOpen(t) \/ CheckClaim(t) \/ HandleClaim(t) \/ ClaimAnswered(t)
  BY <1>4, ClaimThenOpenStep, CheckClaimStep, HandleClaimStep, ClaimAnsweredStep
<1>5. CASE \E t \in Tabs : CheckDecision(t) \/ HandleRunRef(t) \/ DecisionAnswered(t) \/ Lost(t)
  BY <1>5, CheckDecisionStep, HandleRunRefStep, DecisionAnsweredStep, LostStep
<1>6. CASE \E e \in Requests : HandleResume(e) \/ CheckStep(e) \/ CheckAssignment(e) \/ ReadReviews(e)
  BY <1>6, HandleResumeStep, CheckStepStep, CheckAssignmentStep, ReadReviewsStep
<1>7. CASE \E e \in Requests : WriteReview(e) \/ AppendLedgerEntry(e) \/ ResumeEngine(e) \/ Resuspend(e)
  BY <1>7, WriteReviewStep, AppendLedgerEntryStep, ResumeEngineStep, ResuspendStep
<1>8. CASE \E e \in Requests : CommitDecision(e) \/ ClearIndex(e) \/ HandlerFails(e)
  BY <1>8, CommitDecisionStep, ClearIndexStep, HandlerFailsStep
<1>9. CASE UNCHANGED consoleVars
  <2>1. ConsoleTypeOK'  BY <1>9 DEF ConsoleInv, ConsoleTypeOK, consoleVars, serverVars, runVars
  <2>2. ASSUME NEW t \in Tabs PROVE TabOK(t)'
    BY <1>9 DEF ConsoleInv, TabOK, CallOK, ToldOK, PageOK, Took, Refused, ReviewedBy, consoleVars, serverVars, runVars
  <2>3. UNCHANGED <<recorded, entries, engine, indexStep, handling, repeated>>
    BY <1>9 DEF consoleVars, serverVars, runVars
  <2>4. ServerOK'
    BY <2>3 DEF ConsoleInv, ServerOK, HandlerOK, RunOK, ReviewOK, Passed, Took, Review, Reviewer, Ob, ReviewedBy
  <2> QED  BY <2>1, <2>2, <2>4 DEF ConsoleInv
<1> QED  BY <1>1, <1>2, <1>3, <1>4, <1>5, <1>6, <1>7, <1>8, <1>9 DEF ConsoleNext

\* What each handler of the orchestrator's server has written where it stands, and
\* the tabs' requests and answers, agree with the graph, the ledger and the engine:
\* the invariant resumeOrchestratorRun and the routes of app/api/console/items keep
\* together, whatever fails on the way.
THEOREM ConsoleInvAlways == ConsoleSpec => []ConsoleInv
<1>1. ConsoleInit => ConsoleInv  BY InitConsole
<1>2. ConsoleInv /\ [ConsoleNext]_consoleVars => ConsoleInv'  BY ConsoleInvKept
<1> QED  BY <1>1, <1>2, PTL DEF ConsoleSpec

\* What the console says of a decision is true of that very request: "recorded" is
\* said of one that is in the graph and in the ledger and that the engine took,
\* and what is refused with a code is not recorded, whatever is lost or fails and
\* however many tabs a reviewer has open (the decisions route, handleResume).
THEOREM AnswersAlwaysTrue == ConsoleSpec => []AnswersAreTrue
<1>1. ConsoleSpec => []ConsoleInv  BY ConsoleInvAlways
<1>2. ASSUME ConsoleInv, NEW t \in Tabs, told[t].says \in {"recorded", "refused"}
      PROVE  LET e == <<t, told[t].n>>
             IN /\ told[t].says = "recorded" => IsRecorded(e) /\ e \in entries /\ engine[Ob(e)] # handling[e].step
                /\ told[t].says = "refused" => ~IsRecorded(e)
  <2> DEFINE e == <<t, told[t].n>>
  <2>1. e \in Requests /\ ToldOK(t)  BY <1>2 DEF ConsoleInv, TabOK, ToldOK, Requests
  <2>2. HandlerOK(e)  BY <1>2, <2>1 DEF ConsoleInv, ServerOK
  <2> HIDE DEF e
  <2>3. ASSUME told[t].says = "recorded" PROVE IsRecorded(e) /\ e \in entries /\ engine[Ob(e)] # handling[e].step
    <3>1. Took(e) /\ Passed(e)  BY <2>1, <2>3 DEF ToldOK, Passed, e
    <3>2. Ob(e) \in Obligations /\ Review(e) \in recorded[Ob(e)]  BY <2>2, <3>1 DEF HandlerOK, Took
    <3> QED  BY <2>2, <3>1, <3>2 DEF HandlerOK, IsRecorded, Review
  <2>4. ASSUME told[t].says = "refused", IsRecorded(e) PROVE FALSE
    <3>1. Refused(e)  BY <2>1, <2>4 DEF ToldOK, e
    <3>2. PICK o \in Obligations : \E review \in recorded[o] : review.event = e  BY <2>4 DEF IsRecorded
    <3>3. handling[e].at # "none" /\ (handling[e].at = "answered" => handling[e].answer \in {"ok", "INTERNAL_ERROR"})
      BY <1>2, <3>2 DEF ConsoleInv, ServerOK, RunOK, ReviewOK
    <3> QED  BY <3>1, <3>3 DEF Refused, Refusals
  <2> QED  BY <2>3, <2>4 DEF e
<1>3. ConsoleInv => AnswersAreTrue  BY <1>2 DEF AnswersAreTrue
<1> QED  BY <1>1, <1>3, PTL

\* A reviewer who tries again when a review of theirs is recorded does not get a
\* second one recorded, though the first answer was lost or an error (handleResume,
\* recordHumanReview's list of prior reviews).
THEOREM RetryNeverSecond == ConsoleSpec => []RetryIsNotASecondReview
<1>1. ConsoleSpec => []ConsoleInv  BY ConsoleInvAlways
<1>2. ConsoleInv => RetryIsNotASecondReview
  BY DEF ConsoleInv, ServerOK, RunOK, ReviewOK, IsRecorded, RetryIsNotASecondReview
<1> QED  BY <1>1, <1>2, PTL

\* No page shows a decision to a reviewer who has not made one, whichever of its
\* reads fail (getReviewsVisibleTo, toWireReviewGateView).
THEOREM PeerAlwaysHidden == ConsoleSpec => []PeerIsHidden
<1>1. ConsoleSpec => []ConsoleInv  BY ConsoleInvAlways
<1>2. ConsoleInv => PeerIsHidden  BY DEF ConsoleInv, TabOK, PageOK, PeerIsHidden
<1> QED  BY <1>1, <1>2, PTL

\* What the console tells a reviewer is so, a retry adds no second review, and
\* nothing of a colleague's decision is told too early.
THEOREM ConsoleAlwaysTellsFacts == ConsoleSpec => []ConsoleTellsFacts
<1> QED  BY AnswersAlwaysTrue, RetryNeverSecond, PeerAlwaysHidden, PTL DEF ConsoleTellsFacts

-----------------------------------------------------------------------------
(***************************************************************************)
(* The export jobs.                                                        *)
(***************************************************************************)
Statuses == {"none", "queued", "running", "completed", "failed", "deleted"}
Records == [status: Statuses, filed: BOOLEAN, since: 0..MaxAge]
Stages == {"none", "mark_running", "generate", "generate_inline", "write", "write_inline",
           "complete", "complete_inline", "fail", "ended"}
Completing == {"complete", "complete_inline"}

\* A job before its answer has neither a generation nor a record; a generation
\* writes its file near its end.
Begun(j) ==
  /\ post[j] # "answered" => worker[j] = "none" /\ stored[j] = NoRecord
  /\ worker[j] \notin Completing \cup {"fail", "ended"} => j \notin files
  /\ worker[j] \in Completing => j \in files

\* A record names its file when the generation is over, and every completed one
\* does; the file goes only after the record.
Filed(j) ==
  /\ stored[j].filed => worker[j] = "ended" /\ stored[j].status # "none"
  /\ stored[j].status = "completed" => stored[j].filed
  /\ stored[j].filed /\ j \notin files => stored[j].status = "deleted"

\* A file that no record names is about to be named, or lost; one whose record
\* is deleted is with the cleaner, or left by it.
Followed(j) ==
  /\ j \in files => stored[j].filed \/ j \in orphaned \/ worker[j] \in Completing
  /\ j \in files /\ stored[j].filed /\ stored[j].status = "deleted" => j \in cleaner \cup orphaned
  /\ j \in cleaner => stored[j].filed /\ stored[j].status = "deleted"

JobOK(j) == Begun(j) /\ Filed(j) /\ Followed(j)

\* A panel that reads or shows a file has a job whose record names one.
PanelOK(p) ==
  /\ panel[p].at = "give_up" => panel[p].job \in Jobs /\ panel[p].shows # "file"
  /\ panel[p].at = "read" \/ panel[p].shows = "file" =>
       panel[p].job \in Jobs /\ stored[panel[p].job].filed

ExportInv ==
  /\ ExportTypeOK
  /\ \A j \in Jobs : JobOK(j)
  /\ \A p \in Panels : PanelOK(p)

(***************************************************************************)
(* What a step leaves as it is.                                            *)
(***************************************************************************)
\* Nothing about job i changes.
SameJob(i) ==
  /\ post'[i] = post[i] /\ stored'[i] = stored[i] /\ worker'[i] = worker[i]
  /\ (i \in files') = (i \in files)
  /\ (i \in cleaner') = (i \in cleaner) /\ (i \in orphaned') = (i \in orphaned)

LEMMA JobKept == ASSUME NEW i \in Jobs, JobOK(i), SameJob(i) PROVE JobOK(i)'
  BY DEF JobOK, SameJob, Begun, Filed, Followed

\* A record that names a file goes on naming it.
StillFiled == \A j \in Jobs : stored[j].filed => stored'[j].filed

LEMMA PanelsKept ==
  ASSUME ExportInv, StillFiled, UNCHANGED panel
  PROVE  \A p \in Panels : PanelOK(p)'
  BY DEF ExportInv, StillFiled, PanelOK

\* transition changes the record of its job if there is one, and only that.
LEMMA TransitionEffect ==
  ASSUME ExportTypeOK, NEW j \in Jobs, NEW to \in Statuses, NEW filed \in BOOLEAN, Transition(j, to, filed)
  PROVE  /\ stored' \in [Jobs -> Records]
         /\ \A i \in Jobs : i # j => stored'[i] = stored[i]
         /\ stored'[j] = IF Exists(j) THEN [status |-> to, filed |-> filed, since |-> stored[j].since]
                                      ELSE stored[j]
<1>1. stored \in [Jobs -> Records]  BY DEF ExportTypeOK, Records, Statuses
<1>2. stored[j] \in Records  BY <1>1
<1> DEFINE s == IF Exists(j) THEN to ELSE stored[j].status
           f == IF Exists(j) THEN filed ELSE stored[j].filed
           one == [stored[j] EXCEPT !.status = s]
           both == [one EXCEPT !.filed = f]
<1>10. s \in Statuses /\ f \in BOOLEAN  BY <1>2 DEF Records
<1>3. stored' = [[stored EXCEPT ![j].status = s] EXCEPT ![j].filed = f]
  BY <1>1, <1>2 DEF Transition
<1> HIDE DEF s, f
<1>4. one \in Records /\ one = [status |-> s, filed |-> stored[j].filed, since |-> stored[j].since]
  BY <1>2, <1>10 DEF Records
<1>5. both \in Records /\ both = [status |-> s, filed |-> f, since |-> stored[j].since]
  <2>1. both \in Records  BY <1>4, <1>10 DEF Records
  <2>2. both.status = s /\ both.filed = f /\ both.since = stored[j].since  BY <1>4, <1>10 DEF Records
  <2> HIDE DEF both
  <2> QED  BY <2>1, <2>2 DEF Records
<1>6. stored' = [stored EXCEPT ![j] = both]
  <2>1. [stored EXCEPT ![j].status = s] = [stored EXCEPT ![j] = one]  OBVIOUS
  <2>2. [[stored EXCEPT ![j] = one] EXCEPT ![j].filed = f] = [stored EXCEPT ![j] = both]
    BY <1>1, <1>4, <1>5
  <2> QED  BY <1>3, <2>1, <2>2
<1>7. stored' \in [Jobs -> Records] /\ stored'[j] = both /\ \A i \in Jobs : i # j => stored'[i] = stored[i]
  BY <1>1, <1>5, <1>6
<1>8. CASE Exists(j)  BY <1>5, <1>7, <1>8 DEF s, f
<1>9. CASE ~Exists(j)
  <2>1. both = stored[j]  BY <1>2, <1>5, <1>9 DEF Records, s, f
  <2> QED  BY <1>7, <1>9, <2>1
<1> QED  BY <1>8, <1>9

\* A generation goes to its next stage, and only it.
LEMMA GoesEffect ==
  ASSUME ExportTypeOK, NEW j \in Jobs, NEW to \in Stages, Goes(j, to)
  PROVE  /\ worker' \in [Jobs -> Stages] /\ worker'[j] = to
         /\ \A i \in Jobs : i # j => worker'[i] = worker[i]
<1>1. worker \in [Jobs -> Stages]  BY DEF ExportTypeOK, Stages
<1> QED  BY <1>1 DEF Goes

LEMMA InitExport == ASSUME ExportInit PROVE ExportInv
<1>1. ExportTypeOK  BY ExportAssumption DEF ExportInit, ExportTypeOK, NoRecord, NoPanel
<1>2. \A j \in Jobs : JobOK(j)
  BY DEF ExportInit, JobOK, Begun, Filed, Followed, NoRecord, Completing
<1>3. \A p \in Panels : PanelOK(p)
  BY DEF ExportInit, PanelOK, NoPanel
<1> QED  BY <1>1, <1>2, <1>3 DEF ExportInv

LEMMA TickStep == ASSUME ExportInv, Tick PROVE ExportInv'
<1>1. ExportTypeOK'  BY ExportAssumption DEF ExportInv, ExportTypeOK, Tick
<1>2. \A i \in Jobs : JobOK(i)'  BY JobKept DEF ExportInv, SameJob, Tick
<1>3. \A p \in Panels : PanelOK(p)'  BY PanelsKept DEF StillFiled, Tick
<1> QED  BY <1>1, <1>2, <1>3 DEF ExportInv

(***************************************************************************)
(* The request.                                                            *)
(***************************************************************************)
\* A new record, and the generation that starts with it.
LEMMA CreatedStep ==
  ASSUME ExportInv, NEW j \in Jobs, post[j] # "answered",
         post' = [post EXCEPT ![j] = "answered"], stored' = Created(j),
         NEW stage \in {"mark_running", "generate_inline"}, worker' = [worker EXCEPT ![j] = stage],
         UNCHANGED <<age, files, panel, cleaner, orphaned>>
  PROVE  ExportInv'
<1>1. stored[j] = NoRecord /\ worker[j] = "none"  BY DEF ExportInv, JobOK, Begun
<1>2. stored' = [stored EXCEPT ![j] = [status |-> "queued", filed |-> FALSE, since |-> age]]
  <2>1. [NoRecord EXCEPT !.status = "queued", !.since = age] = [status |-> "queued", filed |-> FALSE, since |-> age]
    <3> DEFINE one == [NoRecord EXCEPT !.status = "queued"]
               both == [one EXCEPT !.since = age]
    <3>1. NoRecord \in Records /\ age \in 0..MaxAge
      BY ExportAssumption DEF ExportInv, ExportTypeOK, NoRecord, Records, Statuses
    <3>2. one \in Records /\ one.status = "queued" /\ one.filed = FALSE
      BY <3>1 DEF NoRecord, Records, Statuses
    <3>3. both \in Records /\ both.status = "queued" /\ both.filed = FALSE /\ both.since = age
      BY <3>1, <3>2 DEF Records, Statuses
    <3> HIDE DEF both
    <3>4. both = [status |-> "queued", filed |-> FALSE, since |-> age]  BY <3>3 DEF Records
    <3> QED  BY <3>4 DEF both, one
  <2> QED  BY <2>1 DEF Created
<1>3. ExportTypeOK'  BY <1>2 DEF ExportInv, ExportTypeOK
<1>4. JobOK(j)'
  BY <1>1, <1>2 DEF ExportInv, ExportTypeOK, JobOK, Begun, Filed, Followed, NoRecord, Completing
<1>5. \A i \in Jobs : JobOK(i)'
  BY <1>2, <1>4, JobKept DEF ExportInv, SameJob, ExportTypeOK
<1>6. \A p \in Panels : PanelOK(p)'
  BY <1>1, <1>2, PanelsKept DEF ExportInv, ExportTypeOK, StillFiled, NoRecord
<1> QED  BY <1>3, <1>5, <1>6 DEF ExportInv

\* A request that goes on without a record.
LEMMA RequestStep ==
  ASSUME ExportInv, NEW j \in Jobs, post[j] # "answered",
         NEW at \in {"count", "create", "refused"}, post' = [post EXCEPT ![j] = at],
         UNCHANGED <<age, stored, files, worker, panel, cleaner, orphaned>>
  PROVE  ExportInv'
<1>1. ExportTypeOK'  BY DEF ExportInv, ExportTypeOK
<1>2. \A i \in Jobs : JobOK(i)'
  BY DEF ExportInv, ExportTypeOK, JobOK, Begun, Filed, Followed
<1>3. \A p \in Panels : PanelOK(p)'  BY PanelsKept DEF StillFiled
<1> QED  BY <1>1, <1>2, <1>3 DEF ExportInv

LEMMA PostStep ==
  ASSUME ExportInv, NEW j \in Jobs,
         PostInline(j) \/ PostLarge(j) \/ CountActive(j) \/ CreateJob(j)
  PROVE  ExportInv'
<1>1. CASE PostInline(j)  BY <1>1, CreatedStep DEF PostInline
<1>2. CASE PostLarge(j)  BY <1>2, RequestStep DEF PostLarge
<1>3. CASE CountActive(j)  BY <1>3, RequestStep DEF CountActive
<1>4. CASE CreateJob(j)  BY <1>4, CreatedStep DEF CreateJob
<1> QED  BY <1>1, <1>2, <1>3, <1>4

(***************************************************************************)
(* The generation.                                                         *)
(***************************************************************************)
LEMMA MarkRunningStep ==
  ASSUME ExportInv, NEW j \in Jobs, MarkRunning(j)
  PROVE  ExportInv'
<1>1. PICK to \in {"generate", "fail"} : Goes(j, to)  BY DEF MarkRunning
<1>2. worker' \in [Jobs -> Stages] /\ worker'[j] = to /\ \A i \in Jobs : i # j => worker'[i] = worker[i]
  BY <1>1, GoesEffect DEF ExportInv, Stages
<1>3. /\ stored' \in [Jobs -> Records]
      /\ \A i \in Jobs : i # j => stored'[i] = stored[i]
      /\ stored'[j] = IF Exists(j) THEN [status |-> "running", filed |-> FALSE, since |-> stored[j].since]
                                   ELSE stored[j]
  BY TransitionEffect DEF ExportInv, MarkRunning, Statuses
<1>4. worker[j] = "mark_running" /\ j \notin files /\ ~stored[j].filed
  BY DEF ExportInv, ExportTypeOK, JobOK, Begun, Filed, MarkRunning, Completing
<1>5. ExportTypeOK'
  BY <1>2, <1>3 DEF ExportInv, ExportTypeOK, MarkRunning, Records, Statuses, Stages
<1>6. JobOK(j)'
  BY <1>2, <1>3, <1>4
     DEF ExportInv, MarkRunning, JobOK, Begun, Filed, Followed, Exists, Completing
<1>7. \A i \in Jobs : JobOK(i)'
  BY <1>2, <1>3, <1>6, JobKept DEF ExportInv, SameJob, MarkRunning
<1>8. \A p \in Panels : PanelOK(p)'
  BY <1>3, <1>4, PanelsKept DEF StillFiled, MarkRunning
<1> QED  BY <1>5, <1>7, <1>8 DEF ExportInv

LEMMA GenerateStep ==
  ASSUME ExportInv, NEW j \in Jobs, Generate(j)
  PROVE  ExportInv'
<1>1. PICK to \in {"write", "write_inline", "fail", "ended"} : Goes(j, to)  BY DEF Generate
<1>2. worker' \in [Jobs -> Stages] /\ worker'[j] = to /\ \A i \in Jobs : i # j => worker'[i] = worker[i]
  BY <1>1, GoesEffect DEF ExportInv, Stages
<1>3. j \notin files /\ ~stored[j].filed /\ post[j] = "answered"
  BY DEF ExportInv, ExportTypeOK, JobOK, Begun, Filed, Generate, Completing
<1>4. ExportTypeOK'  BY <1>2 DEF ExportInv, ExportTypeOK, Generate, Stages
<1>5. JobOK(j)'
  BY <1>2, <1>3 DEF ExportInv, Generate, JobOK, Begun, Filed, Followed, Completing
<1>6. \A i \in Jobs : JobOK(i)'  BY <1>2, <1>5, JobKept DEF ExportInv, SameJob, Generate
<1>7. \A p \in Panels : PanelOK(p)'  BY PanelsKept DEF StillFiled, Generate
<1> QED  BY <1>4, <1>6, <1>7 DEF ExportInv

LEMMA WriteFileStep ==
  ASSUME ExportInv, NEW j \in Jobs, WriteFile(j)
  PROVE  ExportInv'
<1>1. PICK to \in Completing : Goes(j, to)  BY DEF WriteFile, Completing
<1>2. worker' \in [Jobs -> Stages] /\ worker'[j] = to /\ \A i \in Jobs : i # j => worker'[i] = worker[i]
  BY <1>1, GoesEffect DEF ExportInv, Stages, Completing
<1>3. ~stored[j].filed /\ post[j] = "answered"
  BY DEF ExportInv, ExportTypeOK, JobOK, Begun, Filed, WriteFile
<1>4. ExportTypeOK'  BY <1>2 DEF ExportInv, ExportTypeOK, WriteFile, Stages
<1>5. JobOK(j)'
  BY <1>2, <1>3 DEF ExportInv, WriteFile, JobOK, Begun, Filed, Followed, Completing
<1>6. \A i \in Jobs : JobOK(i)'  BY <1>2, <1>5, JobKept DEF ExportInv, SameJob, WriteFile
<1>7. \A p \in Panels : PanelOK(p)'  BY PanelsKept DEF StillFiled, WriteFile
<1> QED  BY <1>4, <1>6, <1>7 DEF ExportInv

\* The file is there before the mark, and without the mark it is lost.
LEMMA MarkCompletedStep ==
  ASSUME ExportInv, NEW j \in Jobs, MarkCompleted(j)
  PROVE  ExportInv'
<1>1. /\ worker[j] \in Completing /\ j \in files
      /\ ~stored[j].filed /\ post[j] = "answered"
  BY DEF ExportInv, ExportTypeOK, JobOK, Begun, Filed, MarkCompleted, Completing
<1>2. CASE Exists(j) /\ Transition(j, "completed", TRUE) /\ Goes(j, "ended") /\ UNCHANGED orphaned
  <2>1. worker' \in [Jobs -> Stages] /\ worker'[j] = "ended" /\ \A i \in Jobs : i # j => worker'[i] = worker[i]
    BY <1>2, GoesEffect DEF ExportInv, Stages
  <2>2. /\ stored' \in [Jobs -> Records]
        /\ \A i \in Jobs : i # j => stored'[i] = stored[i]
        /\ stored'[j] = [status |-> "completed", filed |-> TRUE, since |-> stored[j].since]
    BY <1>2, TransitionEffect DEF ExportInv, Statuses
  <2>3. ExportTypeOK'
    BY <1>2, <2>1, <2>2 DEF ExportInv, ExportTypeOK, MarkCompleted, Records, Statuses, Stages
  <2>5. JobOK(j)'
    BY <1>1, <1>2, <2>1, <2>2
       DEF ExportInv, MarkCompleted, JobOK, Begun, Filed, Followed, Exists, Completing
  <2>6. \A i \in Jobs : JobOK(i)'
    BY <1>2, <2>1, <2>2, <2>5, JobKept DEF ExportInv, SameJob, MarkCompleted
  <2>7. \A p \in Panels : PanelOK(p)'
    BY <2>2, PanelsKept DEF StillFiled, MarkCompleted
  <2> QED  BY <2>3, <2>6, <2>7 DEF ExportInv
<1>3. CASE UNCHANGED stored /\ (\E to \in {"ended", "fail"} : Goes(j, to)) /\ orphaned' = orphaned \cup {j}
  <2>1. PICK to \in {"ended", "fail"} : Goes(j, to)  BY <1>3
  <2>2. worker' \in [Jobs -> Stages] /\ worker'[j] = to /\ \A i \in Jobs : i # j => worker'[i] = worker[i]
    BY <2>1, GoesEffect DEF ExportInv, Stages
  <2>3. ExportTypeOK'  BY <1>3, <2>2 DEF ExportInv, ExportTypeOK, MarkCompleted, Stages
  <2>4. JobOK(j)'
    BY <1>1, <1>3, <2>2 DEF ExportInv, MarkCompleted, JobOK, Begun, Filed, Followed, Completing
  <2>5. \A i \in Jobs : JobOK(i)'
    BY <1>3, <2>2, <2>4, JobKept DEF ExportInv, SameJob, MarkCompleted
  <2>6. \A p \in Panels : PanelOK(p)'  BY <1>3, PanelsKept DEF StillFiled, MarkCompleted
  <2> QED  BY <2>3, <2>5, <2>6 DEF ExportInv
<1> QED  BY <1>2, <1>3 DEF MarkCompleted

\* markFailed keeps the file reference, and changes nothing if it fails itself.
LEMMA FailedEffect ==
  ASSUME ExportTypeOK, NEW j \in Jobs,
         Transition(j, "failed", stored[j].filed) \/ UNCHANGED stored
  PROVE  /\ stored' \in [Jobs -> Records]
         /\ \A i \in Jobs : i # j => stored'[i] = stored[i]
         /\ stored'[j].filed = stored[j].filed
         /\ stored'[j].status = stored[j].status \/ stored'[j].status = "failed"
         /\ ~Exists(j) => stored'[j] = stored[j]
<1>0. stored \in [Jobs -> Records]  BY DEF ExportTypeOK, Records, Statuses
<1>1. stored[j] \in Records /\ stored[j].filed \in BOOLEAN  BY <1>0 DEF Records
<1>2. CASE UNCHANGED stored  BY <1>0, <1>1, <1>2
<1>3. CASE Transition(j, "failed", stored[j].filed)
  <2>1. /\ stored' \in [Jobs -> Records]
        /\ \A i \in Jobs : i # j => stored'[i] = stored[i]
        /\ stored'[j] = IF Exists(j) THEN [status |-> "failed", filed |-> stored[j].filed, since |-> stored[j].since]
                                     ELSE stored[j]
    BY <1>1, <1>3, TransitionEffect DEF Statuses
  <2> QED  BY <1>1, <2>1 DEF Records
<1> QED  BY <1>2, <1>3

LEMMA MarkFailedStep ==
  ASSUME ExportInv, NEW j \in Jobs, MarkFailed(j)
  PROVE  ExportInv'
<1>1. worker' \in [Jobs -> Stages] /\ worker'[j] = "ended" /\ \A i \in Jobs : i # j => worker'[i] = worker[i]
  BY GoesEffect DEF ExportInv, MarkFailed, Stages
<1>2. /\ stored' \in [Jobs -> Records]
      /\ \A i \in Jobs : i # j => stored'[i] = stored[i]
      /\ stored'[j].filed = stored[j].filed
      /\ stored'[j].status = stored[j].status \/ stored'[j].status = "failed"
      /\ ~Exists(j) => stored'[j] = stored[j]
  BY FailedEffect DEF ExportInv, MarkFailed
<1>3. worker[j] = "fail" /\ ~stored[j].filed /\ post[j] = "answered"
  BY DEF ExportInv, ExportTypeOK, JobOK, Begun, Filed, MarkFailed
<1>4. ExportTypeOK'  BY <1>1, <1>2 DEF ExportInv, ExportTypeOK, MarkFailed, Records, Statuses, Stages
<1>5. stored[j] \in Records  BY DEF ExportInv, ExportTypeOK, Records, Statuses
<1>6. JobOK(j)'
  BY <1>1, <1>2, <1>3, <1>5
     DEF ExportInv, MarkFailed, JobOK, Begun, Filed, Followed, Exists, Completing, Records
<1>7. \A i \in Jobs : JobOK(i)'
  BY <1>1, <1>2, <1>6, JobKept DEF ExportInv, SameJob, MarkFailed
<1>8. \A p \in Panels : PanelOK(p)'
  BY <1>2, <1>3, PanelsKept DEF StillFiled, MarkFailed
<1> QED  BY <1>4, <1>7, <1>8 DEF ExportInv

\* A crash between the file and its mark loses the file.
LEMMA CrashStep ==
  ASSUME ExportInv, Crash
  PROVE  ExportInv'
<1>1. ExportTypeOK'
  <2>1. worker' \in [Jobs -> Stages]  BY DEF Crash, Stages
  <2>2. post' \in [Jobs -> {"none", "count", "create", "refused", "answered"}]
    BY DEF ExportInv, ExportTypeOK, Crash
  <2>3. panel' \in [Panels -> [at: {"idle", "give_up", "read"}, job: Jobs \cup {"none"},
                               shows: {"none", "queued", "running", "completed", "failed", "file", "not_ready", "gone"}]]
    BY ZenonT(60) DEF ExportInv, ExportTypeOK, Crash
  <2>4. orphaned' \subseteq Jobs  BY DEF ExportInv, ExportTypeOK, Crash
  <2> QED  BY <2>1, <2>2, <2>3, <2>4 DEF ExportInv, ExportTypeOK, Crash, Stages
<1>2. ASSUME NEW j \in Jobs PROVE JobOK(j)'
  <2>1. JobOK(j)  BY DEF ExportInv
  <2> QED  BY <2>1 DEF Crash, JobOK, Begun, Filed, Followed, Completing
<1>3. ASSUME NEW p \in Panels PROVE PanelOK(p)'
  <2>1. panel'[p] = [panel[p] EXCEPT !.at = "idle"] /\ PanelOK(p)
    BY DEF ExportInv, Crash
  <2>2. panel'[p].at = "idle" /\ panel'[p].job = panel[p].job /\ panel'[p].shows = panel[p].shows
    BY <2>1 DEF ExportInv, ExportTypeOK
  <2> QED  BY <2>1, <2>2 DEF PanelOK, Crash
<1> QED  BY <1>1, <1>2, <1>3 DEF ExportInv

(***************************************************************************)
(* The panels.                                                             *)
(***************************************************************************)
Panel == [at: {"idle", "give_up", "read"}, job: Jobs \cup {"none"},
          shows: {"none", "queued", "running", "completed", "failed", "file", "not_ready", "gone"}]

\* Two fields of a panel set at once.
LEMMA TwoFields ==
  ASSUME panel \in [Panels -> Panel], NEW p \in Panels,
         NEW a \in {"idle", "give_up", "read"},
         NEW s \in {"none", "queued", "running", "completed", "failed", "file", "not_ready", "gone"}
  PROVE  [panel EXCEPT ![p].at = a, ![p].shows = s]
           = [panel EXCEPT ![p] = [at |-> a, job |-> panel[p].job, shows |-> s]]
<1> DEFINE one == [panel[p] EXCEPT !.at = a]
           both == [one EXCEPT !.shows = s]
<1>1. one \in Panel /\ one.at = a /\ one.job = panel[p].job  BY DEF Panel
<1>2. both \in Panel /\ both.at = a /\ both.job = panel[p].job /\ both.shows = s  BY <1>1 DEF Panel
<1>3. both = [at |-> a, job |-> panel[p].job, shows |-> s]
  <2> HIDE DEF both
  <2> QED  BY <1>2 DEF Panel
<1>4. [panel EXCEPT ![p].at = a] = [panel EXCEPT ![p] = one]  OBVIOUS
<1>5. [[panel EXCEPT ![p] = one] EXCEPT ![p].shows = s] = [panel EXCEPT ![p] = both]  OBVIOUS
<1> QED  BY <1>3, <1>4, <1>5

\* A step of one panel alone.
LEMMA PanelStep ==
  ASSUME ExportInv, NEW p \in Panels, NEW next \in Panel,
         panel' = [panel EXCEPT ![p] = next], PanelOK(p)',
         UNCHANGED <<age, post, stored, files, worker, cleaner, orphaned>>
  PROVE  ExportInv'
<1>1. ExportTypeOK'  BY DEF ExportInv, ExportTypeOK, Panel
<1>2. \A j \in Jobs : JobOK(j)'  BY JobKept DEF ExportInv, SameJob
<1>3. ASSUME NEW q \in Panels PROVE PanelOK(q)'
  <2>1. q # p => panel'[q] = panel[q]  BY DEF ExportInv, ExportTypeOK
  <2>2. CASE q # p  BY <2>1, <2>2 DEF ExportInv, PanelOK
  <2> QED  BY <2>2
<1> QED  BY <1>1, <1>2, <1>3 DEF ExportInv

LEMMA PollStep ==
  ASSUME ExportInv, NEW p \in Panels, NEW j \in Jobs, Poll(p, j)
  PROVE  ExportInv'
<1> DEFINE old == stored[j].status = "running" /\ age > stored[j].since + StaleAge
           found == IF Exists(j) THEN stored[j].status ELSE "gone"
           next == IF old THEN [at |-> "give_up", job |-> j, shows |-> panel[p].shows]
                          ELSE [at |-> "idle", job |-> j, shows |-> found]
<1>1. panel[p] \in Panel /\ stored[j] \in Records
  BY DEF ExportInv, ExportTypeOK, Panel, Records, Statuses
<1>2. found \in {"queued", "running", "completed", "failed", "gone"}
  BY <1>1 DEF Exists, Records, Statuses
<1>3. next \in Panel  BY <1>1, <1>2 DEF Panel
<1>4. panel' = [panel EXCEPT ![p] = next]  BY DEF Poll
<1>5. panel'[p] = next  BY <1>4 DEF ExportInv, ExportTypeOK
<1>6. next.job = j /\ next.at # "read" /\ next.shows # "file"  BY <1>2 DEF Poll
<1> HIDE DEF next
<1>7. PanelOK(p)'  BY <1>5, <1>6 DEF PanelOK
<1> QED  BY <1>3, <1>4, <1>7, PanelStep DEF Poll

\* The poll that gives up marks the job of its panel failed.
LEMMA GiveUpStep ==
  ASSUME ExportInv, NEW p \in Panels, GiveUp(p)
  PROVE  ExportInv'
<1>1. PICK j \in Jobs : j = panel[p].job  BY DEF ExportInv, PanelOK, GiveUp
<1>2. /\ stored' \in [Jobs -> Records]
      /\ \A i \in Jobs : i # j => stored'[i] = stored[i]
      /\ stored'[j].filed = stored[j].filed
      /\ stored'[j].status = stored[j].status \/ stored'[j].status = "failed"
      /\ ~Exists(j) => stored'[j] = stored[j]
  BY <1>1, FailedEffect DEF ExportInv, GiveUp
<1>3. /\ panel' \in [Panels -> Panel]
      /\ panel'[p].at = "idle" /\ panel'[p].shows # "file"
      /\ \A q \in Panels : q # p => panel'[q] = panel[q]
  <2> DEFINE next == [at |-> "idle", job |-> j, shows |-> IF Exists(j) THEN "failed" ELSE "gone"]
  <2>1. panel \in [Panels -> Panel]  BY DEF ExportInv, ExportTypeOK, Panel
  <2>2. panel' = [panel EXCEPT ![p] = next]
    <3>1. CASE Exists(j)  BY <1>1, <2>1, <3>1, TwoFields, ZenonT(60) DEF GiveUp
    <3>2. CASE ~Exists(j)  BY <1>1, <2>1, <3>2, TwoFields, ZenonT(60) DEF GiveUp
    <3> QED  BY <3>1, <3>2, SMTT(30)
  <2>3. next \in Panel  BY <1>1 DEF Panel
  <2> QED  BY <2>1, <2>2, <2>3
<1>4. stored[j] \in Records  BY <1>1 DEF ExportInv, ExportTypeOK, Records, Statuses
<1>5. ExportTypeOK'  BY <1>2, <1>3 DEF ExportInv, ExportTypeOK, GiveUp, Records, Statuses, Panel
<1>6. JobOK(j)'
  BY <1>1, <1>2, <1>4 DEF ExportInv, GiveUp, JobOK, Begun, Filed, Followed, Exists, NoRecord, Records
<1>7. \A i \in Jobs : JobOK(i)'  BY <1>2, <1>6, JobKept DEF ExportInv, SameJob, GiveUp
<1>8. \A i \in Jobs : stored'[i].filed = stored[i].filed  BY <1>1, <1>2
<1>9. \A q \in Panels : PanelOK(q)'  BY <1>3, <1>8 DEF ExportInv, PanelOK
<1> QED  BY <1>5, <1>7, <1>9 DEF ExportInv

LEMMA DownloadStep ==
  ASSUME ExportInv, NEW p \in Panels, Download(p)
  PROVE  ExportInv'
<1> DEFINE j == panel[p].job
           next == [at |-> IF Ready(j) THEN "read" ELSE "idle", job |-> j,
                    shows |-> IF Ready(j) THEN panel[p].shows ELSE "not_ready"]
<1>1. panel \in [Panels -> Panel]  BY DEF ExportInv, ExportTypeOK, Panel
<1>2. panel[p] \in Panel /\ next \in Panel  BY <1>1 DEF Panel
<1>3. panel' = [panel EXCEPT ![p] = next]  
  <2>1. CASE Ready(j)
    <3> DEFINE one == [panel[p] EXCEPT !.at = "read"]
               both == [one EXCEPT !.shows = panel[p].shows]
    <3>1. panel' = [panel EXCEPT ![p].at = "read", ![p].shows = panel[p].shows]
      BY <1>1, <2>1 DEF Download
    <3>2. one \in Panel /\ one.at = "read" /\ one.job = panel[p].job  BY <1>2 DEF Panel
    <3>3. both \in Panel /\ both.at = "read" /\ both.job = panel[p].job /\ both.shows = panel[p].shows
      BY <1>2, <3>2, ZenonT(60) DEF Panel
    <3>4. [panel EXCEPT ![p].at = "read"] = [panel EXCEPT ![p] = one]  OBVIOUS
    <3>5. [[panel EXCEPT ![p] = one] EXCEPT ![p].shows = panel[p].shows] = [panel EXCEPT ![p] = both]  BY <1>1
    <3>6. panel' = [panel EXCEPT ![p] = both]  BY <3>1, <3>4, <3>5
    <3> HIDE DEF both
    <3>7. both = next  BY <2>1, <3>3, SMTT(30) DEF Panel
    <3> QED  BY <3>6, <3>7
  <2>2. CASE ~Ready(j)  BY <1>1, <2>2, TwoFields, ZenonT(60) DEF Download
  <2> QED  BY <2>1, <2>2
<1>4. panel'[p] = next  BY <1>1, <1>3
<1>5. j \in Jobs  BY <1>2 DEF Download, Panel
<1>6. PanelOK(p)'  BY <1>4, <1>5 DEF PanelOK, Download, Ready
<1> QED  BY <1>2, <1>3, <1>6, PanelStep DEF Download

LEMMA ReadFileStep ==
  ASSUME ExportInv, NEW p \in Panels, ReadFile(p)
  PROVE  ExportInv'
<1> DEFINE j == panel[p].job
           next == [at |-> "idle", job |-> j, shows |-> IF j \in files THEN "file" ELSE "gone"]
<1>1. panel \in [Panels -> Panel]  BY DEF ExportInv, ExportTypeOK, Panel
<1>2. panel[p] \in Panel /\ next \in Panel  BY <1>1 DEF Panel
<1>3. panel' = [panel EXCEPT ![p] = next]  BY <1>1, TwoFields DEF ReadFile
<1>4. panel'[p] = next  BY <1>1, <1>3
<1>5. j \in Jobs /\ stored[j].filed  BY DEF ExportInv, PanelOK, ReadFile
<1>6. PanelOK(p)'  BY <1>4, <1>5 DEF PanelOK, ReadFile
<1> QED  BY <1>2, <1>3, <1>6, PanelStep DEF ReadFile

(***************************************************************************)
(* The clean-up.                                                           *)
(***************************************************************************)
\* The records that name a file hand it over to the cleaner as they go.
LEMMA DeleteExpiredStep ==
  ASSUME ExportInv, DeleteExpired
  PROVE  ExportInv'
<1>1. ASSUME NEW j \in Jobs
      PROVE  /\ stored'[j] \in Records /\ stored'[j].filed = stored[j].filed
             /\ Expired(j) => stored'[j].status = "deleted"
             /\ ~Expired(j) => stored'[j] = stored[j]
             /\ (j \in cleaner') = (Expired(j) /\ stored[j].filed)
  <2>1. stored[j] \in Records  BY DEF ExportInv, ExportTypeOK, Records, Statuses
  <2>2. stored'[j] = IF Expired(j) THEN [stored[j] EXCEPT !.status = "deleted"] ELSE stored[j]
    BY DEF DeleteExpired
  <2> QED  BY <2>1, <2>2 DEF DeleteExpired, FilesOf, Records, Statuses
<1>2. stored' \in [Jobs -> Records]  BY <1>1 DEF DeleteExpired
<1>3. ExportTypeOK'  BY <1>2 DEF ExportInv, ExportTypeOK, DeleteExpired, FilesOf, Records, Statuses
<1>4. ASSUME NEW j \in Jobs PROVE JobOK(j)'
  <2>1. JobOK(j) /\ j \notin cleaner  BY DEF ExportInv, DeleteExpired
  <2>2. Expired(j) => post[j] = "answered"
    BY <2>1 DEF JobOK, Begun, Expired, Exists, NoRecord
  <2> QED
    BY <1>1, <2>1, <2>2 DEF DeleteExpired, JobOK, Begun, Filed, Followed, Expired, Exists
<1>5. \A p \in Panels : PanelOK(p)'  BY <1>1, PanelsKept DEF StillFiled, DeleteExpired
<1> QED  BY <1>3, <1>4, <1>5 DEF ExportInv

LEMMA DeleteFileStep ==
  ASSUME ExportInv, NEW j \in Jobs, DeleteFile(j)
  PROVE  ExportInv'
<1>1. ExportTypeOK'  BY DEF ExportInv, ExportTypeOK, DeleteFile
<1>2. JobOK(j)'
  BY DEF ExportInv, DeleteFile, Deletable, JobOK, Begun, Filed, Followed, Completing
<1>3. \A i \in Jobs : JobOK(i)'  BY <1>2, JobKept DEF ExportInv, SameJob, DeleteFile
<1>4. \A p \in Panels : PanelOK(p)'  BY PanelsKept DEF StillFiled, DeleteFile
<1> QED  BY <1>1, <1>3, <1>4 DEF ExportInv

(***************************************************************************)
(* The theorems.                                                           *)
(***************************************************************************)
\* Records, files, generations and panels stay in step: the invariant that the
\* order of the calls in the export route, its worker and the clean-up keeps.
THEOREM ExportInvAlways == ExportSpec => []ExportInv
<1>1. ExportInit => ExportInv  BY InitExport
<1>2. ExportInv /\ [ExportNext]_exportVars => ExportInv'
  <2> SUFFICES ASSUME ExportInv, [ExportNext]_exportVars PROVE ExportInv'  OBVIOUS
  <2>1. CASE Tick  BY <2>1, TickStep
  <2>2. CASE \E j \in Jobs : PostInline(j) \/ PostLarge(j) \/ CountActive(j) \/ CreateJob(j)
    BY <2>2, PostStep
  <2>3. CASE \E j \in Jobs : MarkRunning(j) \/ Generate(j) \/ WriteFile(j) \/ MarkCompleted(j) \/ MarkFailed(j)
    BY <2>3, MarkRunningStep, GenerateStep, WriteFileStep, MarkCompletedStep, MarkFailedStep
  <2>4. CASE \E p \in Panels : (\E j \in Jobs : Poll(p, j)) \/ GiveUp(p) \/ Download(p) \/ ReadFile(p)
    BY <2>4, PollStep, GiveUpStep, DownloadStep, ReadFileStep
  <2>5. CASE Crash \/ DeleteExpired \/ \E j \in Jobs : DeleteFile(j)
    BY <2>5, CrashStep, DeleteExpiredStep, DeleteFileStep
  <2>6. CASE UNCHANGED exportVars
    <3>1. ExportTypeOK'  BY <2>6 DEF ExportInv, ExportTypeOK, exportVars
    <3>2. \A j \in Jobs : JobOK(j)'  BY <2>6, JobKept DEF ExportInv, SameJob, exportVars
    <3>3. \A p \in Panels : PanelOK(p)'  BY <2>6, PanelsKept DEF StillFiled, exportVars
    <3> QED  BY <3>1, <3>2, <3>3 DEF ExportInv
  <2> QED  BY <2>1, <2>2, <2>3, <2>4, <2>5, <2>6 DEF ExportNext
<1> QED  BY <1>1, <1>2, PTL DEF ExportSpec

LEMMA ExportInvImplies == ASSUME ExportInv PROVE FilesMatchRecords
<1>1. CompletedHasFile
  BY DEF ExportInv, JobOK, Filed, CompletedHasFile
<1>2. FilesAreAccounted
  BY DEF ExportInv, ExportTypeOK, JobOK, Filed, Followed, FilesAreAccounted, Exists, Completing
<1>3. DownloadsAreWhole
  BY DEF ExportInv, PanelOK, JobOK, Filed, DownloadsAreWhole
<1> QED  BY <1>1, <1>2, <1>3 DEF FilesMatchRecords

\* A job the store calls completed has its file, a file outlives its record only
\* where a failure is accounted for, and what a panel downloads is the file of a
\* generation that got to its end (export-storage, ExportJobStore, the routes).
THEOREM FilesAlwaysMatch == ExportSpec => []FilesMatchRecords
<1>1. ExportSpec => []ExportInv  BY ExportInvAlways
<1>2. ExportInv => FilesMatchRecords  BY ExportInvImplies
<1> QED  BY <1>1, <1>2, PTL

-----------------------------------------------------------------------------
(***************************************************************************)
(* The rate limiter.                                                       *)
(***************************************************************************)
\* How many of the moments in a sequence are in a set.
CountIn(moments, S) == Cardinality({i \in DOMAIN moments : moments[i] \in S})

Since(m) == {n \in Nat : n >= m}

\* The window that is open has counted all since its start, the one before it
\* fits the limit, and at most two of them meet any length of a window.
BucketOK(r) ==
  LET start == buckets[r].windowStart
      open == buckets[r].count
  IN /\ open = 0 => admitted[r] = <<>>
     /\ CountIn(admitted[r], Since(start)) = open
     /\ CountIn(admitted[r], (start - Window + 1)..(start - 1)) <= Limit
     /\ start <= clock
     /\ \A i \in DOMAIN admitted[r] : admitted[r][i] <= clock /\ admitted[r][i] < start + Window

RateInv ==
  /\ RateTypeOK
  /\ admitted \in [Askers -> Seq(Nat)] /\ refused \in [Askers -> SUBSET (0..Horizon)]
  /\ \A r \in Askers : BucketOK(r)
  /\ RateIsFair

LEMMA CountType ==
  ASSUME NEW moments \in Seq(Nat), NEW S
  PROVE  CountIn(moments, S) \in Nat /\ IsFiniteSet({i \in DOMAIN moments : moments[i] \in S})
<1>1. IsFiniteSet(DOMAIN moments)
  <2>1. DOMAIN moments = 1..Len(moments) /\ Len(moments) \in Nat
    OBVIOUS
  <2> QED  BY <2>1, FS_Interval
<1>2. IsFiniteSet({i \in DOMAIN moments : moments[i] \in S})
  BY <1>1, FS_Subset
<1> QED  BY <1>2, FS_CardinalityType DEF CountIn

LEMMA CountGrows ==
  ASSUME NEW moments \in Seq(Nat), NEW S, NEW T, \A i \in DOMAIN moments : moments[i] \in S => moments[i] \in T
  PROVE  CountIn(moments, S) <= CountIn(moments, T)
<1>1. {i \in DOMAIN moments : moments[i] \in S} \subseteq {i \in DOMAIN moments : moments[i] \in T}
  OBVIOUS
<1> QED  BY <1>1, CountType, FS_Subset DEF CountIn

LEMMA CountOfTwo ==
  ASSUME NEW moments \in Seq(Nat), NEW S, NEW T, NEW U, \A i \in DOMAIN moments : moments[i] \in S => moments[i] \in T \/ moments[i] \in U
  PROVE  CountIn(moments, S) <= CountIn(moments, T) + CountIn(moments, U)
<1> DEFINE A == {i \in DOMAIN moments : moments[i] \in T}
           B == {i \in DOMAIN moments : moments[i] \in U}
           C == {i \in DOMAIN moments : moments[i] \in S}
<1>1. IsFiniteSet(A) /\ IsFiniteSet(B) /\ IsFiniteSet(C)
  BY CountType
<1>2. C \subseteq A \cup B
  OBVIOUS
<1>3. IsFiniteSet(A \cup B) /\ IsFiniteSet(A \cap B)
      /\ Cardinality(A \cup B) = Cardinality(A) + Cardinality(B) - Cardinality(A \cap B)
  BY <1>1, FS_Union, FS_Intersection, FS_Subset
<1>4. Cardinality(C) <= Cardinality(A \cup B)
  BY <1>2, <1>3, FS_Subset
<1> HIDE DEF A, B, C
<1>5. Cardinality(A) \in Nat /\ Cardinality(B) \in Nat /\ Cardinality(C) \in Nat /\ Cardinality(A \cap B) \in Nat
  BY <1>1, <1>3, FS_CardinalityType
<1>6. Cardinality(C) <= Cardinality(A) + Cardinality(B)
  BY <1>3, <1>4, <1>5
<1> QED  BY <1>6 DEF CountIn, A, B, C

LEMMA CountOfMore ==
  ASSUME NEW moments \in Seq(Nat), NEW m \in Nat, NEW S
  PROVE  /\ m \in S => CountIn(Append(moments, m), S) = CountIn(moments, S) + 1
         /\ m \notin S => CountIn(Append(moments, m), S) = CountIn(moments, S)
<1> DEFINE next == Len(moments) + 1
           before == {i \in DOMAIN moments : moments[i] \in S}
           after == {i \in DOMAIN Append(moments, m) : Append(moments, m)[i] \in S}
<1>1. IsFiniteSet(before) /\ Cardinality(before) \in Nat
  BY CountType, FS_CardinalityType
<1>2. next \notin before
  OBVIOUS
<1>3. CASE m \in S
  <2>1. after = before \cup {next}
    BY <1>3
  <2>2. Cardinality(after) = Cardinality(before) + 1
    BY <1>1, <1>2, <2>1, FS_AddElement
  <2> QED  BY <1>3, <2>2 DEF CountIn
<1>4. CASE m \notin S
  <2>1. after = before
    BY <1>4
  <2> QED  BY <1>4, <2>1 DEF CountIn
<1> QED  BY <1>3, <1>4

LEMMA CountOfNone == ASSUME NEW S PROVE CountIn(<<>>, S) = 0
<1>1. {i \in DOMAIN <<>> : <<>>[i] \in S} = {}
  OBVIOUS
<1> QED  BY <1>1, FS_EmptySet DEF CountIn

-----------------------------------------------------------------------------
\* One question that is let through keeps what is said of its asker.
LEMMA AdmitKeeps ==
  ASSUME RateInv, NEW r \in Askers, NEW bucket \in [windowStart: 0..Horizon, count: 0..Limit],
         admitted' = [admitted EXCEPT ![r] = Append(@, clock)],
         buckets' = [buckets EXCEPT ![r] = bucket],
         UNCHANGED <<clock, refused>>,
         \/ /\ WindowOver(buckets[r])
            /\ bucket = [windowStart |-> clock, count |-> 1]
         \/ /\ ~WindowOver(buckets[r]) /\ buckets[r].count < Limit
            /\ bucket.windowStart = buckets[r].windowStart /\ bucket.count = buckets[r].count + 1
  PROVE  /\ BucketOK(r)'
         /\ \A from \in 0..Horizon : Within(r, from, from + Window - 1)' <= 2 * Limit
<1> DEFINE moments == admitted[r]
           start == buckets[r].windowStart
           open == buckets[r].count
<1>1. /\ moments \in Seq(Nat) /\ clock \in Nat /\ start \in Nat /\ open \in Nat
      /\ admitted'[r] = Append(moments, clock) /\ buckets'[r] = bucket /\ clock' = clock
      /\ Limit \in Nat /\ Limit >= 1 /\ Window \in Nat /\ Window >= 1
      /\ bucket.windowStart \in Nat /\ bucket.count \in Nat
  BY RateAssumption DEF RateInv, RateTypeOK
<1>2. BucketOK(r) /\ \A from \in 0..Horizon : CountIn(moments, from..(from + Window - 1)) <= 2 * Limit
  BY DEF RateInv, RateIsFair, Within, CountIn
<1>3. \A i \in DOMAIN moments : moments[i] \in Nat /\ moments[i] <= clock /\ moments[i] < start + Window
  <2>1. \A i \in DOMAIN moments : moments[i] <= clock /\ moments[i] < start + Window
    BY <1>2 DEF BucketOK
  <2>2. \A i \in DOMAIN moments : moments[i] \in Nat
    BY <1>1
  <2> QED  BY <2>1, <2>2
<1>4. bucket.windowStart <= clock /\ clock < bucket.windowStart + Window /\ start <= bucket.windowStart
  <2>1. CASE WindowOver(buckets[r])
    BY <1>1, <1>2, <2>1, SMTT(30) DEF BucketOK
  <2>2. CASE ~WindowOver(buckets[r])
    BY <1>1, <1>2, <2>2, SMTT(30) DEF BucketOK, WindowOver
  <2> QED  BY <2>1, <2>2
<1>4a. \A i \in DOMAIN Append(moments, clock) :
        Append(moments, clock)[i] <= clock /\ Append(moments, clock)[i] < bucket.windowStart + Window
  BY <1>1, <1>3, <1>4, SMTT(30)
<1>5. \A S : /\ CountIn(moments, S) \in Nat
             /\ clock \in S => CountIn(Append(moments, clock), S) = CountIn(moments, S) + 1
             /\ clock \notin S => CountIn(Append(moments, clock), S) = CountIn(moments, S)
  BY <1>1, CountType, CountOfMore, ZenonT(60)
<1> DEFINE Fair == \A from \in 0..Horizon : CountIn(Append(moments, clock), from..(from + Window - 1)) <= 2 * Limit
<1>6. CASE open = 0
  <2>1. moments = <<>>
    BY <1>2, <1>6 DEF BucketOK
  <2>2. \A S : CountIn(moments, S) = 0
    BY <2>1, CountOfNone
  <2>3. WindowOver(buckets[r])
    BY <1>6 DEF WindowOver
  <2>4. bucket.windowStart = clock /\ bucket.count = 1
    BY <2>3
  <2>5. clock \in Since(clock) /\ clock \notin (clock - Window + 1)..(clock - 1)
    BY <1>1 DEF Since
  <2>6. CountIn(Append(moments, clock), Since(clock)) = 1
    BY <1>5, <2>2, <2>5
  <2>7. CountIn(Append(moments, clock), (clock - Window + 1)..(clock - 1)) = 0
    BY <1>5, <2>2, <2>5
  <2>8. BucketOK(r)'
    BY <1>1, <1>4, <1>4a, <2>4, <2>6, <2>7, SMTT(30) DEF BucketOK
  <2>9. \A S : CountIn(Append(moments, clock), S) <= 2 * Limit
    <3>1. SUFFICES ASSUME NEW S PROVE CountIn(Append(moments, clock), S) <= 2 * Limit
      OBVIOUS
    <3>2. CountIn(moments, S) = 0
      BY <2>2
    <3>3. CountIn(Append(moments, clock), S) = 1 \/ CountIn(Append(moments, clock), S) = 0
      BY <1>5, <3>2
    <3> QED  BY <1>1, <3>3
  <2> QED  BY <1>1, <2>8, <2>9 DEF Within, CountIn
<1>7. CASE open # 0 /\ WindowOver(buckets[r])
  <2>1. clock - start >= Window /\ bucket.windowStart = clock /\ bucket.count = 1
    BY <1>1, <1>7 DEF WindowOver
  <2>2. CountIn(moments, Since(start)) = open /\ open <= Limit
    BY <1>1, <1>2 DEF BucketOK, RateInv, RateTypeOK
  <2>3. \A S : (\A i \in DOMAIN moments : moments[i] \in S => moments[i] > clock - Window) => CountIn(moments, S) <= Limit
    <3>1. SUFFICES ASSUME NEW S, \A i \in DOMAIN moments : moments[i] \in S => moments[i] > clock - Window
                   PROVE  CountIn(moments, S) <= Limit
      OBVIOUS
    <3>2. \A i \in DOMAIN moments : moments[i] \in S => moments[i] \in Since(start)
      BY <1>1, <1>3, <2>1, <3>1, SMTT(30) DEF Since
    <3>3. CountIn(moments, S) <= CountIn(moments, Since(start))
      BY <1>1, <3>2, CountGrows
    <3> QED  BY <1>1, <1>5, <2>2, <3>3
  <2>4. CountIn(moments, Since(clock)) = 0
    <3>1. {i \in DOMAIN moments : moments[i] \in Since(clock)} = {}
      BY <1>1, <1>3, <2>1 DEF Since
    <3> QED  BY <3>1, FS_EmptySet DEF CountIn
  <2>5. CountIn(Append(moments, clock), Since(clock)) = 1
    <3>1. clock \in Since(clock)
      BY <1>1 DEF Since
    <3> QED  BY <1>5, <2>4, <3>1
  <2>6. CountIn(Append(moments, clock), (clock - Window + 1)..(clock - 1)) <= Limit
    <3>1. clock \notin (clock - Window + 1)..(clock - 1)
      BY <1>1
    <3>2. CountIn(moments, (clock - Window + 1)..(clock - 1)) <= Limit
      BY <1>1, <1>3, <2>3
    <3> QED  BY <1>5, <3>1, <3>2
  <2>7. BucketOK(r)'
    BY <1>1, <1>4, <1>4a, <2>1, <2>5, <2>6, SMTT(30) DEF BucketOK
  <2>8. ASSUME NEW from \in 0..Horizon PROVE CountIn(Append(moments, clock), from..(from + Window - 1)) <= 2 * Limit
    <3>1. CASE clock \in from..(from + Window - 1)
      <4>1. CountIn(moments, from..(from + Window - 1)) <= Limit
        <5>1. \A i \in DOMAIN moments : moments[i] \in from..(from + Window - 1) => moments[i] > clock - Window
          BY <1>1, <1>3, <3>1
        <5> QED  BY <5>1, <2>3
      <4>2. CountIn(Append(moments, clock), from..(from + Window - 1)) = CountIn(moments, from..(from + Window - 1)) + 1
        BY <1>5, <3>1
      <4>3. CountIn(moments, from..(from + Window - 1)) \in Nat /\ Limit \in Nat /\ Limit >= 1
        BY <1>1, <1>5
      <4> HIDE DEF moments
      <4> QED  BY <4>1, <4>2, <4>3
    <3>2. CASE clock \notin from..(from + Window - 1)
      BY <1>2, <1>5, <3>2
    <3> QED  BY <3>1, <3>2
  <2> QED  BY <1>1, <2>7, <2>8 DEF Within, CountIn
<1>8. CASE open # 0 /\ ~WindowOver(buckets[r])
  <2>1. /\ clock - start < Window /\ open < Limit
        /\ bucket.windowStart = start /\ bucket.count = open + 1
    BY <1>1, <1>2, <1>8 DEF WindowOver, BucketOK
  <2>2. /\ CountIn(moments, Since(start)) = open /\ start <= clock
        /\ CountIn(moments, (start - Window + 1)..(start - 1)) <= Limit
    BY <1>2 DEF BucketOK
  <2>3. CountIn(Append(moments, clock), Since(start)) = open + 1
    <3>1. clock \in Since(start)
      BY <1>1, <2>2 DEF Since
    <3> QED  BY <1>5, <2>2, <3>1
  <2>4. CountIn(Append(moments, clock), (start - Window + 1)..(start - 1)) <= Limit
    <3>1. clock \notin (start - Window + 1)..(start - 1)
      BY <1>1, <2>2
    <3> QED  BY <1>5, <2>2, <3>1
  <2>5. BucketOK(r)'
    <3>1. buckets'[r].windowStart = start /\ buckets'[r].count = open + 1 /\ open + 1 # 0
      BY <1>1, <2>1
    <3> QED  BY <1>1, <1>4, <1>4a, <2>1, <2>3, <2>4, <3>1 DEF BucketOK
  <2>6. ASSUME NEW from \in 0..Horizon PROVE CountIn(Append(moments, clock), from..(from + Window - 1)) <= 2 * Limit
    <3>1. CASE clock \in from..(from + Window - 1)
      <4>1. CountIn(moments, from..(from + Window - 1))
              <= CountIn(moments, Since(start)) + CountIn(moments, (start - Window + 1)..(start - 1))
        <5>1. from \in Nat /\ start - Window + 1 <= from
          BY <1>1, <2>2, <3>1
        <5>2. ASSUME NEW m \in Nat, m \in from..(from + Window - 1), m \notin Since(start)
              PROVE  m \in (start - Window + 1)..(start - 1)
          BY <1>1, <5>1, <5>2, SMTT(30) DEF Since
        <5>3. \A i \in DOMAIN moments : moments[i] \in from..(from + Window - 1) =>
                moments[i] \in Since(start) \/ moments[i] \in (start - Window + 1)..(start - 1)
          BY <1>3, <5>2
        <5> QED  BY <1>1, <5>3, CountOfTwo
      <4>2. CountIn(moments, from..(from + Window - 1)) \in Nat
            /\ CountIn(Append(moments, clock), from..(from + Window - 1)) = CountIn(moments, from..(from + Window - 1)) + 1
        BY <1>5, <3>1
      <4>3. CountIn(moments, (start - Window + 1)..(start - 1)) \in Nat
        BY <1>5
      <4>4. CountIn(moments, from..(from + Window - 1)) < Limit + Limit
        BY <1>1, <2>1, <2>2, <4>1, <4>2, <4>3, SMTT(30)
      <4> QED  BY <1>1, <4>2, <4>4
    <3>2. CASE clock \notin from..(from + Window - 1)
      BY <1>2, <1>5, <3>2
    <3> QED  BY <3>1, <3>2
  <2> QED  BY <1>1, <2>5, <2>6 DEF Within, CountIn
<1> QED  BY <1>6, <1>7, <1>8

\* What is let through stays so.
LEMMA AdmittedGrows ==
  ASSUME RateInv, NEW r \in Askers, admitted'[r] = Append(admitted[r], clock), NEW from, NEW to
  PROVE  Within(r, from, to)' >= Within(r, from, to)
<1>1. admitted[r] \in Seq(Nat) /\ clock \in Nat
  BY RateAssumption DEF RateInv, RateTypeOK
<1> DEFINE S == from..to
<1>2. /\ CountIn(admitted[r], S) \in Nat
      /\ \/ CountIn(Append(admitted[r], clock), S) = CountIn(admitted[r], S) + 1
         \/ CountIn(Append(admitted[r], clock), S) = CountIn(admitted[r], S)
  BY <1>1, CountType, CountOfMore
<1>3. Within(r, from, to) = CountIn(admitted[r], S) /\ Within(r, from, to)' = CountIn(Append(admitted[r], clock), S)
  BY DEF Within, CountIn
<1> HIDE DEF S
<1> QED  BY <1>2, <1>3

LEMMA AdmitKeepsInv ==
  ASSUME RateInv, NEW r \in Askers, NEW bucket \in [windowStart: 0..Horizon, count: 0..Limit],
         admitted' = [admitted EXCEPT ![r] = Append(@, clock)],
         buckets' = [buckets EXCEPT ![r] = bucket],
         UNCHANGED <<clock, refused>>,
         \/ /\ WindowOver(buckets[r])
            /\ bucket = [windowStart |-> clock, count |-> 1]
         \/ /\ ~WindowOver(buckets[r]) /\ buckets[r].count < Limit
            /\ bucket.windowStart = buckets[r].windowStart /\ bucket.count = buckets[r].count + 1
  PROVE  RateInv'
<1>1. clock \in Nat /\ admitted'[r] = Append(admitted[r], clock)
  BY RateAssumption DEF RateInv, RateTypeOK
<1>2. RateTypeOK' /\ refused' \in [Askers -> SUBSET (0..Horizon)]
  BY DEF RateInv, RateTypeOK
<1>3. admitted' \in [Askers -> Seq(Nat)]
  BY <1>1 DEF RateInv
<1>4. BucketOK(r)' /\ \A from \in 0..Horizon : Within(r, from, from + Window - 1)' <= 2 * Limit
  BY AdmitKeeps
<1>5. ASSUME NEW q \in Askers, q # r
      PROVE  BucketOK(q)' /\ \A from, to : Within(q, from, to)' = Within(q, from, to)
  <2>1. buckets'[q] = buckets[q] /\ admitted'[q] = admitted[q] /\ clock' = clock
    BY <1>5 DEF RateInv, RateTypeOK
  <2>2. BucketOK(q)
    BY DEF RateInv
  <2> QED  BY <2>1, <2>2 DEF BucketOK, Within
<1>6. \A q \in Askers : BucketOK(q)'
  BY <1>4, <1>5
<1>7. RateIsFair'
  <2>1. SUFFICES ASSUME NEW q \in Askers
                 PROVE  /\ \A when \in refused[q] : Within(q, IF when < Window THEN 0 ELSE when - Window + 1, when)' >= Limit
                        /\ \A from \in 0..Horizon : Within(q, from, from + Window - 1)' <= 2 * Limit
    BY DEF RateIsFair
  <2>2. /\ \A when \in refused[q] : Within(q, IF when < Window THEN 0 ELSE when - Window + 1, when) >= Limit
        /\ \A from \in 0..Horizon : Within(q, from, from + Window - 1) <= 2 * Limit
    BY DEF RateInv, RateIsFair
  <2>3. CASE q # r
    BY <1>5, <2>2, <2>3
  <2>4. CASE q = r
    <3>1. ASSUME NEW when \in refused[q]
          PROVE  Within(q, IF when < Window THEN 0 ELSE when - Window + 1, when)' >= Limit
      <4> DEFINE from == IF when < Window THEN 0 ELSE when - Window + 1
      <4>1. Within(r, from, when)' >= Within(r, from, when) /\ Within(r, from, when) >= Limit
        BY <1>1, <2>2, <2>4, <3>1, AdmittedGrows
      <4>2. Within(r, from, when) \in Nat /\ Within(r, from, when)' \in Nat
        <5>1. admitted[r] \in Seq(Nat) /\ admitted'[r] \in Seq(Nat)
          BY <1>3 DEF RateInv
        <5>2. CountIn(admitted[r], from..when) \in Nat /\ CountIn(admitted'[r], from..when) \in Nat
          BY <5>1, CountType
        <5> QED  BY <5>2 DEF Within, CountIn
      <4> HIDE DEF from
      <4>3. Within(r, from, when)' >= Limit
        BY <4>1, <4>2, RateAssumption
      <4> QED  BY <2>4, <4>3 DEF from
    <3> QED  BY <1>4, <2>4, <3>1
  <2> QED  BY <2>3, <2>4
<1> QED  BY <1>2, <1>3, <1>6, <1>7 DEF RateInv

LEMMA RefuseKeepsInv ==
  ASSUME RateInv, NEW r \in Askers, ~WindowOver(buckets[r]), buckets[r].count >= Limit,
         refused' = [refused EXCEPT ![r] = @ \cup {clock}], UNCHANGED <<clock, buckets, admitted>>
  PROVE  RateInv'
<1> DEFINE start == buckets[r].windowStart
           from == IF clock < Window THEN 0 ELSE clock - Window + 1
<1>1. /\ admitted[r] \in Seq(Nat) /\ clock \in Nat /\ start \in Nat /\ Window \in Nat /\ Limit \in Nat
      /\ buckets[r].count \in Nat /\ BucketOK(r) /\ clock \in 0..Horizon
  BY RateAssumption DEF RateInv, RateTypeOK
<1>2. clock - start < Window /\ CountIn(admitted[r], Since(start)) >= Limit
  BY <1>1 DEF WindowOver, BucketOK
<1>3. \A i \in DOMAIN admitted[r] : admitted[r][i] \in Since(start) => admitted[r][i] \in from..clock
  <2>1. from \in Nat /\ from <= start
    BY <1>1, <1>2
  <2>2. \A i \in DOMAIN admitted[r] : admitted[r][i] <= clock
    BY <1>1 DEF BucketOK
  <2> HIDE DEF from
  <2>3. ASSUME NEW m \in Since(start), m <= clock PROVE m \in from..clock
    BY <1>1, <2>1, <2>3 DEF Since
  <2> QED  BY <2>2, <2>3
<1>4. CountIn(admitted[r], Since(start)) <= CountIn(admitted[r], from..clock)
  BY <1>1, <1>3, CountGrows
<1>5. CountIn(admitted[r], Since(start)) \in Nat /\ CountIn(admitted[r], from..clock) \in Nat
  BY <1>1, CountType
<1>6. Within(r, from, clock) >= Limit
  <2> HIDE DEF from, start
  <2>1. CountIn(admitted[r], from..clock) >= Limit
    BY <1>1, <1>2, <1>4, <1>5
  <2> QED  BY <2>1 DEF Within, CountIn
<1>7. \A q \in Askers : BucketOK(q)'
  BY DEF RateInv, BucketOK
<1>8. RateIsFair'
  <2>1. SUFFICES ASSUME NEW q \in Askers
                 PROVE  /\ \A when \in refused'[q] : Within(q, IF when < Window THEN 0 ELSE when - Window + 1, when) >= Limit
                        /\ \A n \in 0..Horizon : Within(q, n, n + Window - 1) <= 2 * Limit
    BY DEF RateIsFair, Within
  <2>2. /\ \A when \in refused[q] : Within(q, IF when < Window THEN 0 ELSE when - Window + 1, when) >= Limit
        /\ \A n \in 0..Horizon : Within(q, n, n + Window - 1) <= 2 * Limit
    BY DEF RateInv, RateIsFair
  <2>3. \A when \in refused'[q] : when \in refused[q] \/ (q = r /\ when = clock)
    BY DEF RateInv
  <2> QED  BY <1>6, <2>2, <2>3
<1>9. RateTypeOK' /\ admitted' \in [Askers -> Seq(Nat)] /\ refused' \in [Askers -> SUBSET (0..Horizon)]
  BY <1>1 DEF RateInv, RateTypeOK
<1> QED  BY <1>7, <1>8, <1>9 DEF RateInv

LEMMA RateNextKeepsInv == ASSUME RateInv, [RateNext]_rateVars PROVE RateInv'
<1>1. ASSUME NEW r \in Askers, AllowAssistantRequest(r) PROVE RateInv'
  <2>1. buckets[r] \in [windowStart: 0..Horizon, count: 0..Limit] /\ clock \in 0..Horizon
        /\ Limit \in Nat /\ Limit >= 1 /\ buckets \in [Askers -> [windowStart: 0..Horizon, count: 0..Limit]]
    BY RateAssumption DEF RateInv, RateTypeOK
  <2>2. CASE WindowOver(buckets[r]) /\ buckets' = [buckets EXCEPT ![r] = [windowStart |-> clock, count |-> 1]]
    <3>1. [windowStart |-> clock, count |-> 1] \in [windowStart: 0..Horizon, count: 0..Limit]
      BY <2>1
    <3>2. admitted' = [admitted EXCEPT ![r] = Append(@, clock)] /\ UNCHANGED <<clock, refused>>
      BY <1>1, <2>2 DEF AllowAssistantRequest
    <3> QED  BY <2>2, <3>1, <3>2, AdmitKeepsInv
  <2>3. CASE ~WindowOver(buckets[r]) /\ buckets[r].count < Limit
    <3> DEFINE bucket == [buckets[r] EXCEPT !.count = @ + 1]
    <3>1. bucket \in [windowStart: 0..Horizon, count: 0..Limit]
          /\ bucket.windowStart = buckets[r].windowStart /\ bucket.count = buckets[r].count + 1
      BY <2>1, <2>3
    <3>2. buckets' = [buckets EXCEPT ![r] = bucket]
          /\ admitted' = [admitted EXCEPT ![r] = Append(@, clock)] /\ UNCHANGED <<clock, refused>>
      BY <1>1, <2>1, <2>3 DEF AllowAssistantRequest
    <3> HIDE DEF bucket
    <3> QED  BY <2>3, <3>1, <3>2, AdmitKeepsInv
  <2>4. CASE ~WindowOver(buckets[r]) /\ buckets[r].count >= Limit
    <3>1. refused' = [refused EXCEPT ![r] = @ \cup {clock}] /\ UNCHANGED <<clock, buckets, admitted>>
      BY <1>1, <2>1, <2>4 DEF AllowAssistantRequest
    <3> QED  BY <2>4, <3>1, RefuseKeepsInv
  <2> QED  BY <1>1, <2>2, <2>3, <2>4 DEF AllowAssistantRequest
<1>2. CASE RateTick
  <2>1. clock \in Nat /\ clock' = clock + 1 /\ clock' \in 0..Horizon /\ UNCHANGED <<buckets, admitted, refused>>
    BY <1>2, RateAssumption DEF RateTick, RateInv, RateTypeOK
  <2>2. ASSUME NEW r \in Askers PROVE BucketOK(r)'
    <3>1. BucketOK(r) /\ buckets[r].windowStart \in Nat /\ admitted[r] \in Seq(Nat)
      BY DEF RateInv, RateTypeOK
    <3>2. \A i \in DOMAIN admitted[r] : admitted[r][i] \in Nat
      BY <3>1
    <3>3. \A i \in DOMAIN admitted[r] : admitted[r][i] <= clock + 1 /\ admitted[r][i] < buckets[r].windowStart + Window
      BY <2>1, <3>1, <3>2 DEF BucketOK
    <3>4. buckets[r].windowStart <= clock + 1
      BY <2>1, <3>1 DEF BucketOK
    <3> QED  BY <2>1, <3>1, <3>3, <3>4 DEF BucketOK
  <2>3. RateIsFair'
    BY <2>1 DEF RateInv, RateIsFair, Within
  <2> QED  BY <2>1, <2>2, <2>3 DEF RateInv, RateTypeOK
<1>3. CASE UNCHANGED rateVars
  BY <1>3 DEF rateVars, RateInv, RateTypeOK, BucketOK, RateIsFair, Within
<1> QED  BY <1>1, <1>2, <1>3 DEF RateNext

LEMMA RateInitInv == RateInit => RateInv
<1> SUFFICES ASSUME RateInit PROVE RateInv
  OBVIOUS
<1>1. RateTypeOK /\ admitted \in [Askers -> Seq(Nat)] /\ refused \in [Askers -> SUBSET (0..Horizon)]
  BY RateAssumption DEF RateInit, RateTypeOK
<1>2. \A r \in Askers : admitted[r] = <<>> /\ refused[r] = {} /\ buckets[r] = [windowStart |-> 0, count |-> 0] /\ clock = 0
  BY DEF RateInit
<1>3. Limit \in Nat
  BY RateAssumption
<1>4. \A r \in Askers : BucketOK(r)
  BY <1>2, <1>3, CountOfNone DEF BucketOK
<1>5. \A r \in Askers : \A from, to : Within(r, from, to) = 0
  BY <1>2, CountOfNone DEF Within, CountIn
<1>6. RateIsFair
  BY <1>2, <1>3, <1>5 DEF RateIsFair
<1> QED  BY <1>1, <1>4, <1>6 DEF RateInv

\* Types, and what each window has counted (allowAssistantRequest).
THEOREM RateInvAlways == RateSpec => []RateInv
<1>1. RateInit => RateInv
  BY RateInitInv
<1>2. RateInv /\ [RateNext]_rateVars => RateInv'
  BY RateNextKeepsInv
<1> QED  BY <1>1, <1>2, PTL DEF RateSpec

\* For any limit and any window a question is turned away only for those asked
\* in the length of a window before it, and no more than twice the limit get
\* through in the length of a window (allowAssistantRequest).
THEOREM RateAlwaysFair == RateSpec => []RateIsFair
<1>1. RateInv => RateIsFair
  BY DEF RateInv
<1> QED  BY <1>1, RateInvAlways, PTL

-----------------------------------------------------------------------------
(***************************************************************************)
(* The assistant.                                                          *)
(***************************************************************************)
NodesOf(label) == {label} \X ObligationIds \X Nat

AllNodes ==
  NodesOf("Circular") \cup NodesOf("Clause") \cup NodesOf("Obligation") \cup NodesOf("ProcessTask") \cup NodesOf("HumanReview")

Fact == [id: ObligationIds, status: Standings \cup {None}, complete: BOOLEAN]

Context ==
  [circulars: SUBSET NodesOf("Circular"), clauses: SUBSET NodesOf("Clause"),
   obligations: SUBSET Fact,
   tasks: SUBSET NodesOf("ProcessTask"), reviews: SUBSET NodesOf("HumanReview")]

Turn ==
  [at: {"idle", "classify", "read", "enrich", "vector", "synthesize", "done"}, tries: Nat,
   class: QuestionClassification \cup {None}, context: Context, queue: SUBSET ObligationIds,
   miss: BOOLEAN, answer: TurnAnswers \cup {None}, cites: SUBSET AllNodes]

\* Reviewed, and neither under dual review nor ever again.
Open(o) == standing[o] \notin Dual \cup {None}

EachHasItsObligation(context) == \A r \in context.reviews : \E f \in context.obligations : f.id = r[2]

\* Where a turn is.
TurnProgress(x) ==
  /\ x.at \in {"idle", "classify", "read", "vector"} => x.context = NoContext
  /\ x.at \in {"read", "enrich", "vector", "synthesize"} => x.class \in QuestionClassification
  /\ x.at = "read" => x.class.intent \in TemplateIntents \cup HistoryIntents
  /\ x.at = "enrich" => x.context.reviews # {}
  /\ x.at = "synthesize" => ~IsEmpty(x.context)
  /\ x.at # "done" => x.answer = None /\ x.cites = {}

\* What the facts a turn holds, and its answer, rest on.
TurnFacts(x) ==
  /\ x.class.intent \notin HistoryIntents => \A r \in x.context.reviews : Open(r[2])
  /\ x.context.reviews # {} =>
       IF x.class.intent \in HistoryIntents \ {"review_history_by_obligation"}
       THEN Cardinality(x.context.reviews) <= PageSize
       ELSE \A r \in x.context.reviews : r[2] \in x.class.about
  /\ EachHasItsObligation(x.context)
  /\ x.cites \subseteq Ids(x.context)
  /\ x.answer = "answer" => ~IsEmpty(x.context)
  /\ x.answer # "answer" => x.cites = {}

TurnOK(x) == x \in Turn /\ TurnProgress(x) /\ TurnFacts(x)

AssistInv ==
  /\ standing \in [ObligationIds -> Standings \cup {None}]
  /\ signed \in [ObligationIds -> 0..2]
  /\ indexed \in BOOLEAN /\ failed \in 0..MaxFailures
  /\ turn \in [Turns -> Turn]
  /\ \A t \in Turns : TurnOK(turn[t])

LEMMA NoContextIsEmpty == NoContext \in Context /\ IsEmpty(NoContext) /\ NoContext.reviews = {} /\ EachHasItsObligation(NoContext)
  BY DEF NoContext, Context, IsEmpty, EachHasItsObligation

LEMMA AssistInitInv == AssistInit => AssistInv
<1> SUFFICES ASSUME AssistInit PROVE AssistInv
  OBVIOUS
<1>1. /\ standing \in [ObligationIds -> Standings \cup {None}] /\ signed \in [ObligationIds -> 0..2]
      /\ indexed \in BOOLEAN /\ failed \in 0..MaxFailures
  BY AssistantAssumption DEF AssistInit
<1>2. NoTurn \in Turn
  BY NoContextIsEmpty DEF NoTurn, Turn
<1>3. TurnProgress(NoTurn)
  BY DEF NoTurn, TurnProgress
<1>4. TurnFacts(NoTurn)
  <2>1. NoTurn.context = NoContext /\ NoTurn.answer = None /\ NoTurn.cites = {}
    BY DEF NoTurn
  <2>2. None # "answer"
    BY AssistantAssumption DEF TurnAnswers
  <2> QED  BY <2>1, <2>2, NoContextIsEmpty DEF TurnFacts
<1> QED  BY <1>1, <1>2, <1>3, <1>4 DEF AssistInit, AssistInv, TurnOK

-----------------------------------------------------------------------------
\* Meanwhile: what a turn holds stays true.
LEMMA OthersKeepInv ==
  ASSUME AssistInv, NEW o \in ObligationIds, Propose(o) \/ SignOff(o) \/ Decide(o)
  PROVE  AssistInv'
<1>1. UNCHANGED <<indexed, turn, failed>>
  BY DEF Propose, SignOff, Decide, OthersIdle
<1>2. None \notin Standings
  BY AssistantAssumption
<1>3. /\ standing' \in [ObligationIds -> Standings \cup {None}]
      /\ \A p \in ObligationIds : Open(p) => Open(p)'
  <2>1. CASE Propose(o)
    BY <2>1, <1>2 DEF AssistInv, Propose, Open, Standings
  <2>2. CASE SignOff(o)
    BY <2>2 DEF AssistInv, SignOff, Open
  <2>3. CASE Decide(o)
    BY <2>3, <1>2 DEF AssistInv, Decide, Open, Standings, Dual
  <2> QED  BY <2>1, <2>2, <2>3
<1>4. signed' \in [ObligationIds -> 0..2]
  <2>1. CASE Propose(o) \/ Decide(o)
    BY <2>1 DEF AssistInv, Propose, Decide
  <2>2. CASE SignOff(o)
    <3>1. Needed(o) \in {0, 1, 2}
      BY DEF Needed
    <3>2. signed[o] \in 0..2 /\ signed[o] + 1 \in 0..2
      BY <2>2, <3>1 DEF AssistInv, SignOff
    <3> QED  BY <2>2, <3>2 DEF AssistInv, SignOff
  <2> QED  BY <2>1, <2>2
<1>5. ASSUME NEW t \in Turns PROVE TurnOK(turn[t])'
  <2>1. TurnOK(turn[t]) /\ turn'[t] = turn[t]
    BY <1>1 DEF AssistInv
  <2>2. \A r \in turn[t].context.reviews : r[2] \in ObligationIds
    BY <2>1 DEF TurnOK, Turn, Context, NodesOf
  <2>3. TurnFacts(turn[t])'
    BY <1>3, <2>1, <2>2 DEF TurnOK, TurnFacts
  <2> QED  BY <2>1, <2>3 DEF TurnOK, TurnProgress
<1> QED  BY <1>1, <1>3, <1>4, <1>5 DEF AssistInv

\* A step of a turn leads to a record of which the same is true.
LEMMA TurnStep ==
  ASSUME AssistInv, NEW t \in Turns, NEW x, TurnOK(x), turn' = [turn EXCEPT ![t] = x],
         GraphIdle, failed' \in 0..MaxFailures
  PROVE  AssistInv'
<1>1. turn' \in [Turns -> Turn] /\ \A u \in Turns : turn'[u] = IF u = t THEN x ELSE turn[u]
  BY DEF AssistInv, TurnOK
<1>2. ASSUME NEW u \in Turns PROVE TurnOK(turn[u])'
  BY <1>1 DEF AssistInv, GraphIdle, TurnOK, TurnProgress, TurnFacts, Open
<1> QED  BY <1>1, <1>2 DEF AssistInv, GraphIdle

LEMMA FailedType == ASSUME AssistInv, Failing \/ UNCHANGED failed PROVE failed' \in 0..MaxFailures
  BY AssistantAssumption DEF AssistInv, Failing

LEMMA NodesAreNodes == ASSUME NEW context \in Context PROVE Ids(context) \subseteq AllNodes
<1>1. \A f \in context.obligations : Node("Obligation", f.id) \in NodesOf("Obligation")
  BY DEF Context, Fact, Node, NodesOf
<1>2. /\ context.circulars \subseteq NodesOf("Circular") /\ context.clauses \subseteq NodesOf("Clause")
      /\ context.tasks \subseteq NodesOf("ProcessTask") /\ context.reviews \subseteq NodesOf("HumanReview")
  BY DEF Context
<1> QED  BY <1>1, <1>2 DEF Ids, AllNodes

\* A turn that ends, with or without an answer.
LEMMA DoneKeepsInv ==
  ASSUME AssistInv, NEW t \in Turns, turn[t].at # "done", NEW answer \in TurnAnswers, NEW cites, Done(t, answer, cites),
         cites \subseteq Ids(turn[t].context), answer = "answer" => ~IsEmpty(turn[t].context), answer # "answer" => cites = {},
         GraphIdle, Failing \/ UNCHANGED failed
  PROVE  AssistInv'
<1> DEFINE x == [turn[t] EXCEPT !.at = "done", !.answer = answer, !.cites = cites, !.queue = {}]
<1>1. turn[t] \in Turn /\ TurnOK(turn[t]) /\ turn \in [Turns -> Turn]
  BY DEF AssistInv
<1>2. turn' = [turn EXCEPT ![t] = x]
  BY <1>1 DEF Done, Turn
<1>3. cites \subseteq AllNodes
  <2>1. turn[t].context \in Context
    BY <1>1 DEF Turn
  <2> QED  BY <2>1, NodesAreNodes
<1>4. x \in Turn
  BY <1>1, <1>3 DEF Turn
<1>5. /\ x.at = "done" /\ x.answer = answer /\ x.cites = cites
      /\ x.context = turn[t].context /\ x.class = turn[t].class
  BY <1>1 DEF Turn
<1> HIDE DEF x
<1>6. TurnProgress(x)
  BY <1>5 DEF TurnProgress
<1>7. TurnFacts(x)
  BY <1>1, <1>5 DEF TurnOK, TurnFacts
<1> QED  BY <1>2, <1>4, <1>6, <1>7, TurnStep, FailedType DEF TurnOK

LEMMA TryAgainKeepsInv ==
  ASSUME AssistInv, NEW t \in Turns, TryAgain(t), GraphIdle, Failing
  PROVE  AssistInv'
<1> DEFINE x == [turn[t] EXCEPT !.tries = @ + 1]
<1>1. turn[t] \in Turn /\ TurnOK(turn[t]) /\ turn \in [Turns -> Turn]
  BY DEF AssistInv
<1>2. turn' = [turn EXCEPT ![t] = x]
  BY <1>1 DEF TryAgain, Turn
<1>3. /\ x \in Turn /\ x.at = turn[t].at /\ x.answer = turn[t].answer /\ x.cites = turn[t].cites
      /\ x.context = turn[t].context /\ x.class = turn[t].class
  BY <1>1 DEF Turn
<1> HIDE DEF x
<1>4. TurnProgress(x) /\ TurnFacts(x)
  BY <1>1, <1>3 DEF TurnOK, TurnProgress, TurnFacts
<1> QED  BY <1>2, <1>3, <1>4, TurnStep, FailedType DEF TurnOK

-----------------------------------------------------------------------------
\* What the graph is read for.
LEMMA ReviewsOfType ==
  ASSUME AssistInv, NEW os \in SUBSET ObligationIds
  PROVE  ReviewsOf(os) \subseteq NodesOf("HumanReview") /\ \A r \in ReviewsOf(os) : r[2] \in os
<1>1. ASSUME NEW o \in os, NEW n \in 1..signed[o]
      PROVE  ReviewNode(o, n) \in NodesOf("HumanReview") /\ ReviewNode(o, n)[2] = o
  BY DEF AssistInv, ReviewNode, NodesOf
<1> QED  BY <1>1 DEF ReviewsOf

LEMMA UnguardedType ==
  ASSUME AssistInv, NEW o \in ObligationIds, standing[o] # None
  PROVE  UnguardedReviews(o) \subseteq NodesOf("HumanReview")
         /\ \A r \in UnguardedReviews(o) : r[2] = o /\ Open(o)
<1>1. ReviewsOf({o}) \subseteq NodesOf("HumanReview") /\ \A r \in ReviewsOf({o}) : r[2] \in {o}
  BY ReviewsOfType
<1> QED  BY <1>1 DEF UnguardedReviews, Guarded, Open

LEMMA LineageType ==
  ASSUME NEW os \in SUBSET ObligationIds
  PROVE  /\ Lineage(os) \in Context /\ Lineage(os).reviews = {}
         /\ Lineage(os).circulars \subseteq NodesOf("Circular") /\ Lineage(os).clauses \subseteq NodesOf("Clause")
         /\ {Node("ProcessTask", o) : o \in os} \subseteq NodesOf("ProcessTask")
<1>1. \A o \in os : /\ Node("Circular", o) \in NodesOf("Circular") /\ Node("Clause", o) \in NodesOf("Clause")
                    /\ Node("ProcessTask", o) \in NodesOf("ProcessTask")
  BY DEF Node, NodesOf
<1> QED  BY <1>1 DEF Lineage, NoContext, Context

LEMMA ContextOfFacts ==
  ASSUME NEW os \in SUBSET ObligationIds, NEW facts \in SUBSET Fact, NEW context,
         context = [Lineage(os) EXCEPT !.obligations = facts]
  PROVE  context \in Context /\ context.reviews = {} /\ context.obligations = facts
<1> DEFINE base == Lineage(os)
<1>1. base \in Context /\ base.reviews = {}
  BY LineageType
<1> HIDE DEF base
<1>2. context = [base EXCEPT !.obligations = facts]
  BY DEF base
<1> QED  BY <1>1, <1>2 DEF Context

\* A template matches what its slots do, and hands out no first review.
LEMMA TemplateRead ==
  ASSUME AssistInv, NEW intent \in TemplateIntents, NEW os \in SUBSET ObligationIds
  PROVE  LET context == RunTemplate(intent, os)
         IN /\ context \in Context /\ EachHasItsObligation(context)
            /\ \A r \in context.reviews : Open(r[2]) /\ r[2] \in os
<1> DEFINE found == os \cap InGraph
           facts == {ObligationFacts(o, TRUE) : o \in found}
           reviewed == {o \in found : UnguardedReviews(o) # {}}
           context == RunTemplate(intent, os)
<1>1. found \subseteq os /\ reviewed \subseteq found /\ \A o \in found : o \in ObligationIds /\ standing[o] # None
  BY DEF InGraph
<1>2. \A o \in found : ObligationFacts(o, TRUE) \in Fact
                       /\ ObligationFacts(o, TRUE).id = o
  BY <1>1 DEF ObligationFacts, AssistInv, Fact
<1>3. \A o \in found : /\ UnguardedReviews(o) \subseteq NodesOf("HumanReview")
                       /\ \A r \in UnguardedReviews(o) : r[2] = o /\ Open(o)
  BY <1>1, UnguardedType
<1>4. ASSUME NEW ps, ps \subseteq found
      PROVE  LET seen == UNION {UnguardedReviews(o) : o \in ps}
             IN seen \subseteq NodesOf("HumanReview") /\ \A r \in seen : r[2] \in ps /\ Open(r[2])
  BY <1>3, <1>4
<1>5. \A ps : ps \subseteq found =>
        LET stated == {ObligationFacts(o, TRUE) : o \in ps}
        IN /\ stated \subseteq Fact
           /\ \A o \in ps : \E f \in stated : f.id = o
  BY <1>2
<1>6. found \in SUBSET ObligationIds /\ reviewed \in SUBSET ObligationIds
  BY <1>1
<1>7. CASE intent \in {"obligations_by_category_and_date_range", "obligations_by_status"}
  <2>1. context = [Lineage(found) EXCEPT !.obligations = facts]
    BY <1>7 DEF RunTemplate
  <2>2. facts \in SUBSET Fact
    BY <1>5
  <2> HIDE DEF facts, found, context
  <2>3. context \in Context /\ context.reviews = {}
    BY <1>6, <2>1, <2>2, ContextOfFacts
  <2> QED  BY <2>3 DEF EachHasItsObligation, context
<1>8. CASE intent = "obligation_by_id_with_lineage"
  <2> DEFINE seen == UNION {UnguardedReviews(o) : o \in found}
  <2>1. context = [Lineage(found) EXCEPT !.obligations = facts, !.tasks = {Node("ProcessTask", o) : o \in found}, !.reviews = seen]
    BY <1>8 DEF RunTemplate
  <2>2. seen \subseteq NodesOf("HumanReview") /\ \A r \in seen : r[2] \in found /\ Open(r[2])
    BY <1>4
  <2>3. facts \subseteq Fact
        /\ \A o \in found : \E f \in facts : f.id = o
    BY <1>5
  <2> DEFINE tasks == {Node("ProcessTask", o) : o \in found}
  <2>4. tasks \in SUBSET NodesOf("ProcessTask")
    BY <1>6, LineageType
  <2> HIDE DEF seen, facts, found, tasks, context
  <2>5. context \in Context /\ context.reviews = seen /\ context.obligations = facts
    <3>1. seen \in SUBSET NodesOf("HumanReview") /\ facts \in SUBSET Fact
      BY <2>2, <2>3
    <3> DEFINE base == Lineage(found)
    <3>2. base \in Context
      BY <1>6, LineageType
    <3>3. context = [base EXCEPT !.obligations = facts, !.tasks = tasks, !.reviews = seen]
      BY <2>1 DEF tasks
    <3> HIDE DEF base
    <3> QED  BY <3>1, <3>2, <3>3, <2>4 DEF Context
  <2> QED  BY <1>1, <2>2, <2>3, <2>5 DEF EachHasItsObligation, context
<1>9. CASE intent = "circular_by_id_or_title"
  <2>1. context = [Lineage(os) EXCEPT !.obligations = facts]
    BY <1>9 DEF RunTemplate
  <2>2. facts \in SUBSET Fact
    BY <1>5
  <2> HIDE DEF facts, context
  <2>3. context \in Context /\ context.reviews = {}
    BY <2>1, <2>2, ContextOfFacts
  <2> QED  BY <2>3 DEF EachHasItsObligation, context
<1>10. CASE intent = "reviews_by_category_and_date_range"
  <2> DEFINE seen == UNION {UnguardedReviews(o) : o \in reviewed}
             stated == {ObligationFacts(o, TRUE) : o \in reviewed}
  <2>1. context = [Lineage(reviewed) EXCEPT !.obligations = stated, !.reviews = seen]
    BY <1>10 DEF RunTemplate
  <2>2. seen \subseteq NodesOf("HumanReview") /\ \A r \in seen : r[2] \in reviewed /\ Open(r[2])
    BY <1>1, <1>4
  <2>3. stated \subseteq Fact
        /\ \A o \in reviewed : \E f \in stated : f.id = o
    BY <1>1, <1>5
  <2> HIDE DEF seen, stated, reviewed, context
  <2>4. context \in Context /\ context.reviews = seen /\ context.obligations = stated
    <3>1. seen \in SUBSET NodesOf("HumanReview") /\ stated \in SUBSET Fact
      BY <2>2, <2>3
    <3> DEFINE base == Lineage(reviewed)
    <3>2. base \in Context
      BY <1>6, LineageType
    <3>3. context = [base EXCEPT !.obligations = stated, !.reviews = seen]
      BY <2>1
    <3> HIDE DEF base
    <3> QED  BY <3>1, <3>2, <3>3 DEF Context
  <2> QED  BY <1>1, <2>2, <2>3, <2>4 DEF EachHasItsObligation, context
<1> QED  BY <1>7, <1>8, <1>9, <1>10 DEF TemplateIntents

\* A page of reviews is no longer than a page, and the reviews of an obligation
\* are its own.
LEMMA HistoryRead ==
  ASSUME AssistInv, NEW class \in QuestionClassification, class.intent \in HistoryIntents, NEW rows \in AuditRows(class)
  PROVE  /\ rows \subseteq NodesOf("HumanReview")
         /\ IF class.intent # "review_history_by_obligation" THEN Cardinality(rows) <= PageSize
            ELSE \A r \in rows : r[2] \in class.about
<1>1. class.about \in SUBSET ObligationIds
  BY DEF QuestionClassification
<1>2. CASE class.intent = "review_history_by_obligation"
  <2>1. rows = ReviewsOf(class.about)
    BY <1>2 DEF AuditRows
  <2> QED  BY <1>1, <1>2, <2>1, ReviewsOfType
<1>3. CASE class.intent # "review_history_by_obligation"
  <2> DEFINE all == ReviewsOf(ObligationIds)
         pairs == ObligationIds \X (1..2)
         nodes == {ReviewNode(p[1], p[2]) : p \in pairs}
         node == [p \in pairs |-> ReviewNode(p[1], p[2])]
  <2>1. all \subseteq nodes
    <3>1. ASSUME NEW o \in ObligationIds, NEW n \in 1..signed[o] PROVE ReviewNode(o, n) \in nodes
      <4>1. n \in 1..2
        BY DEF AssistInv
      <4>2. <<o, n>> \in pairs /\ <<o, n>>[1] = o /\ <<o, n>>[2] = n
        BY <4>1
      <4> QED  BY <4>2
    <3> QED  BY <3>1 DEF ReviewsOf
  <2>2. IsFiniteSet(all)
    <3>1. IsFiniteSet(1..2)
      <4>1. 1 \in Int /\ 2 \in Int
        OBVIOUS
      <4> QED  BY <4>1, FS_Interval
    <3>2. IsFiniteSet(pairs)
      BY <3>1, FS_Product, AssistantAssumption
    <3>3. node \in Surjection(pairs, nodes)
      BY DEF Surjection
    <3>4. IsFiniteSet(nodes)
      BY <3>2, <3>3, FS_Surjection
    <3> QED  BY <2>1, <3>4, FS_Subset
  <2> HIDE DEF all
  <2>3. rows \subseteq all /\ Cardinality(rows) = IF Cardinality(all) < PageSize THEN Cardinality(all) ELSE PageSize
    BY <1>3 DEF AuditRows, all
  <2>4. Cardinality(all) \in Nat /\ PageSize \in Nat
    BY <2>2, FS_CardinalityType, AssistantAssumption
  <2>5. Cardinality(rows) <= PageSize
    BY <2>3, <2>4
  <2>6. rows \subseteq NodesOf("HumanReview")
    BY <2>3, ReviewsOfType DEF all
  <2> QED  BY <1>3, <2>5, <2>6
<1> QED  BY <1>2, <1>3

LEMMA HistoryContext ==
  ASSUME AssistInv, NEW class, NEW rows \in SUBSET NodesOf("HumanReview")
  PROVE  LET context == BaseContextFromAuditRows(class, rows)
         IN context \in Context /\ context.reviews = rows /\ EachHasItsObligation(context)
<1> DEFINE os == {r[2] : r \in rows}
           facts == {ObligationFacts(o, FALSE) : o \in os}
           tasks == {Node("ProcessTask", r[2]) : r \in {row \in rows : HasTasks(class, row)}}
           context == BaseContextFromAuditRows(class, rows)
<1>1. os \in SUBSET ObligationIds
  BY DEF NodesOf
<1>2. \A o \in os : ObligationFacts(o, FALSE) \in Fact
                    /\ ObligationFacts(o, FALSE).id = o
  BY <1>1 DEF ObligationFacts, AssistInv, Fact
<1>3. tasks \subseteq NodesOf("ProcessTask")
  BY DEF NodesOf, Node
<1>4. context = [Lineage(os) EXCEPT !.obligations = facts, !.tasks = tasks, !.reviews = rows]
  BY DEF BaseContextFromAuditRows
<1>5. facts \subseteq Fact /\ \A r \in rows : \E f \in facts : f.id = r[2]
  BY <1>2
<1> HIDE DEF facts, tasks, os, context
<1>6. context \in Context /\ context.reviews = rows /\ context.obligations = facts
  <2>1. facts \in SUBSET Fact /\ tasks \in SUBSET NodesOf("ProcessTask")
    BY <1>3, <1>5
  <2> DEFINE base == Lineage(os)
  <2>2. base \in Context
    BY <1>1, LineageType
  <2>3. context = [base EXCEPT !.obligations = facts, !.tasks = tasks, !.reviews = rows]
    BY <1>4
  <2> HIDE DEF base
  <2> QED  BY <2>1, <2>2, <2>3 DEF Context
<1> QED  BY <1>5, <1>6 DEF EachHasItsObligation, context

LEMMA NoRows == ASSUME NEW class PROVE IsEmpty(BaseContextFromAuditRows(class, {}))
<1> DEFINE base == Lineage({})
           context == [base EXCEPT !.obligations = {}, !.tasks = {}, !.reviews = {}]
<1>1. base \in Context
  BY LineageType
<1>2. base.circulars = {} /\ base.clauses = {}
  BY DEF Lineage, NoContext
<1>3. /\ {r[2] : r \in {}} = {} /\ {ObligationFacts(o, FALSE) : o \in {}} = {}
      /\ {Node("ProcessTask", r[2]) : r \in {row \in {} : HasTasks(class, row)}} = {}
  OBVIOUS
<1>4. BaseContextFromAuditRows(class, {}) = context
  BY <1>3 DEF BaseContextFromAuditRows
<1> HIDE DEF base
<1>5. /\ context \in Context /\ context.circulars = {} /\ context.clauses = {}
      /\ context.obligations = {} /\ context.tasks = {} /\ context.reviews = {}
  BY <1>1, <1>2 DEF Context
<1> HIDE DEF context
<1>6. context = [circulars |-> {}, clauses |-> {}, obligations |-> {}, tasks |-> {}, reviews |-> {}]
  BY <1>5 DEF Context
<1> QED  BY <1>4, <1>6 DEF IsEmpty, NoContext

LEMMA MergeType ==
  ASSUME NEW base \in Context, NEW incoming \in Context
  PROVE  /\ Merge(base, incoming) \in Context
         /\ base.clauses \subseteq Merge(base, incoming).clauses /\ incoming.clauses \subseteq Merge(base, incoming).clauses
         /\ \A b \in base.obligations : \E f \in Merge(base, incoming).obligations : f.id = b.id
  BY DEF Merge, Context

-----------------------------------------------------------------------------
\* The steps of a turn.
LEMMA RecordStep ==
  ASSUME AssistInv, NEW t \in Turns, NEW x, Continue(t, x), TurnOK(x), GraphIdle, Failing \/ UNCHANGED failed
  PROVE  AssistInv'
  BY TurnStep, FailedType DEF Continue

LEMMA AskKeepsInv == ASSUME AssistInv, NEW t \in Turns, AskQuestion(t) PROVE AssistInv'
<1>1. turn[t] \in Turn /\ TurnOK(turn[t]) /\ turn \in [Turns -> Turn] /\ turn[t].at = "idle" /\ GraphIdle
  BY DEF AssistInv, AskQuestion
<1>2. CASE turn' = [turn EXCEPT ![t].at = "classify"] /\ UNCHANGED failed
  <2> DEFINE x == [turn[t] EXCEPT !.at = "classify"]
  <2>1. turn' = [turn EXCEPT ![t] = x]
    BY <1>1, <1>2 DEF Turn
  <2>2. /\ x \in Turn /\ x.at = "classify" /\ x.answer = turn[t].answer /\ x.cites = turn[t].cites
        /\ x.context = turn[t].context /\ x.class = turn[t].class
    BY <1>1 DEF Turn
  <2> HIDE DEF x
  <2>3. TurnProgress(x) /\ TurnFacts(x)
    BY <1>1, <2>2 DEF TurnOK, TurnProgress, TurnFacts
  <2> QED  BY <1>1, <1>2, <2>1, <2>2, <2>3, TurnStep, FailedType DEF TurnOK
<1>3. ASSUME NEW answer \in {"429", "400", "503"}, Done(t, answer, {}), Failing \/ UNCHANGED failed PROVE AssistInv'
  <2>1. answer \in TurnAnswers /\ answer # "answer"
    BY DEF TurnAnswers
  <2> QED  BY <1>1, <1>3, <2>1, DoneKeepsInv
<1> QED  BY <1>2, <1>3 DEF AskQuestion

LEMMA ClassifiedKeepsInv ==
  ASSUME AssistInv, NEW t \in Turns, turn[t].at = "classify", NEW output \in QuestionClassification, Classified(t, output),
         GraphIdle, Failing \/ UNCHANGED failed
  PROVE  AssistInv'
<1> DEFINE class == IF ~output.confident /\ output.intent # "unsupported" THEN Fallback ELSE output
           x(at, answer) == [turn[t] EXCEPT !.class = class, !.tries = 0, !.at = at, !.answer = answer]
<1>1. turn[t] \in Turn /\ TurnOK(turn[t]) /\ turn[t].context = NoContext /\ turn[t].answer = None /\ turn[t].cites = {}
  BY DEF AssistInv, TurnOK, TurnProgress
<1>2. class \in QuestionClassification
  BY DEF Fallback, QuestionClassification, ASSISTANT_INTENTS
<1> HIDE DEF class
<1>3. ASSUME NEW at \in {"vector", "read", "done"}, NEW answer \in {None, "refusal"},
             at = "done" <=> answer = "refusal", at = "read" => class.intent \in TemplateIntents \cup HistoryIntents,
             NEW next, next = x(at, answer)
      PROVE  TurnOK(next)
  <2>1. /\ next \in Turn /\ next.at = at /\ next.answer = answer /\ next.cites = {}
        /\ next.context = NoContext /\ next.class = class
    BY <1>1, <1>2, <1>3 DEF Turn, TurnAnswers
  <2>2. TurnProgress(next)
    BY <1>2, <1>3, <2>1 DEF TurnProgress
  <2>3. answer # "answer"
    BY <1>3, AssistantAssumption DEF TurnAnswers
  <2>4. TurnFacts(next)
    BY <2>1, <2>3, NoContextIsEmpty DEF TurnFacts
  <2> QED  BY <2>1, <2>2, <2>4 DEF TurnOK
<1>4. CASE class.intent = "unsupported"
  <2> DEFINE next == [turn[t] EXCEPT !.class = class, !.tries = 0, !.at = "done", !.answer = "refusal"]
  <2>1. Continue(t, next)
    BY <1>1, <1>4 DEF Classified, class, Turn
  <2>2. TurnOK(next)
    BY <1>3, AssistantAssumption DEF TurnAnswers
  <2> HIDE DEF next
  <2> QED  BY <2>1, <2>2, RecordStep
<1>5. CASE class.intent = "semantic_lookup"
  <2> DEFINE next == [turn[t] EXCEPT !.class = class, !.tries = 0, !.at = "vector"]
  <2>1. Continue(t, next) /\ next = x("vector", None)
    BY <1>1, <1>5 DEF Classified, class, Turn
  <2>2. TurnOK(next)
    BY <1>3, <2>1, AssistantAssumption DEF TurnAnswers
  <2> HIDE DEF next
  <2> QED  BY <2>1, <2>2, RecordStep
<1>6. CASE class.intent \notin {"unsupported", "semantic_lookup"}
  <2> DEFINE next == [turn[t] EXCEPT !.class = class, !.tries = 0, !.at = "read"]
  <2>1. Continue(t, next) /\ next = x("read", None)
    BY <1>1, <1>6 DEF Classified, class, Turn
  <2>2. class.intent \in TemplateIntents \cup HistoryIntents
    BY <1>2, <1>6 DEF QuestionClassification, ASSISTANT_INTENTS
  <2>3. TurnOK(next)
    BY <1>3, <2>1, <2>2, AssistantAssumption DEF TurnAnswers
  <2> HIDE DEF next
  <2> QED  BY <2>1, <2>3, RecordStep
<1> QED  BY <1>4, <1>5, <1>6

LEMMA ClassifyKeepsInv == ASSUME AssistInv, NEW t \in Turns, Classify(t) PROVE AssistInv'
<1>1. turn[t].at = "classify" /\ turn[t].at # "done" /\ GraphIdle
  BY DEF Classify
<1>2. ASSUME NEW output \in Classifications, Classified(t, output), UNCHANGED failed PROVE AssistInv'
  BY <1>1, <1>2, ClassifiedKeepsInv, AssistantAssumption
<1>3. ASSUME Failing, Done(t, "503", {}) PROVE AssistInv'
  BY <1>1, <1>3, DoneKeepsInv DEF TurnAnswers
<1>4. ASSUME Failing, TryAgain(t) PROVE AssistInv'
  BY <1>1, <1>4, TryAgainKeepsInv
<1>5. ASSUME Failing, Classified(t, Fallback) PROVE AssistInv'
  <2>1. Fallback \in QuestionClassification
    BY DEF Fallback, QuestionClassification, ASSISTANT_INTENTS
  <2> QED  BY <1>1, <1>5, <2>1, ClassifiedKeepsInv
<1> QED  BY <1>2, <1>3, <1>4, <1>5 DEF Classify

\* What a query returned is held as far as it is known to be true.
LEMMA RetrievedKeepsInv ==
  ASSUME AssistInv, NEW t \in Turns, turn[t].at = "read", NEW context \in Context, Continue(t, Retrieved(t, context)),
         EachHasItsObligation(context),
         turn[t].class.intent \notin HistoryIntents => \A r \in context.reviews : Open(r[2]),
         IF turn[t].class.intent \in HistoryIntents \ {"review_history_by_obligation"}
           THEN Cardinality(context.reviews) <= PageSize
           ELSE \A r \in context.reviews : r[2] \in turn[t].class.about,
         turn[t].class.intent \in HistoryIntents /\ ~IsEmpty(context) => context.reviews # {},
         GraphIdle, Failing \/ UNCHANGED failed
  PROVE  AssistInv'
<1>1. /\ turn[t] \in Turn /\ TurnOK(turn[t]) /\ turn[t].context = NoContext /\ turn[t].answer = None /\ turn[t].cites = {}
      /\ turn[t].class \in QuestionClassification
  BY DEF AssistInv, TurnOK, TurnProgress
<1>2. None # "answer"
  BY AssistantAssumption DEF TurnAnswers
<1>3. CASE IsEmpty(context)
  <2> DEFINE next == [turn[t] EXCEPT !.at = "vector", !.miss = TRUE]
  <2>1. Continue(t, next)
    BY <1>3 DEF Retrieved
  <2>2. /\ next \in Turn /\ next.at = "vector" /\ next.answer = None /\ next.cites = {}
        /\ next.context = NoContext /\ next.class = turn[t].class
    BY <1>1 DEF Turn
  <2> HIDE DEF next
  <2>3. TurnProgress(next) /\ TurnFacts(next)
    BY <1>1, <1>2, <2>2, NoContextIsEmpty DEF TurnProgress, TurnFacts
  <2> QED  BY <2>1, <2>2, <2>3, RecordStep DEF TurnOK
<1>4. CASE ~IsEmpty(context)
  <2> DEFINE history == turn[t].class.intent \in HistoryIntents
             at == IF history THEN "enrich" ELSE "synthesize"
             queue == IF history THEN {f.id : f \in context.obligations} ELSE {}
             next == [turn[t] EXCEPT !.at = at, !.context = context, !.queue = queue]
  <2>1. Continue(t, next)
    BY <1>4 DEF Retrieved
  <2>2. queue \subseteq ObligationIds /\ at \in {"enrich", "synthesize"} /\ (at = "enrich" => context.reviews # {})
    BY <1>4 DEF Context, Fact
  <2> HIDE DEF queue, at
  <2>3. /\ next \in Turn /\ next.at = at /\ next.answer = None /\ next.cites = {}
        /\ next.context = context /\ next.class = turn[t].class
    BY <1>1, <2>2 DEF Turn
  <2> HIDE DEF next
  <2>4. TurnProgress(next)
    BY <1>1, <1>4, <2>2, <2>3 DEF TurnProgress
  <2>5. TurnFacts(next)
    BY <1>2, <2>3 DEF TurnFacts
  <2> QED  BY <2>1, <2>3, <2>4, <2>5, RecordStep DEF TurnOK
<1> QED  BY <1>3, <1>4

LEMMA RetrieveKeepsInv == ASSUME AssistInv, NEW t \in Turns, RetrieveStructured(t) PROVE AssistInv'
<1> DEFINE class == turn[t].class
<1>1. turn[t].at = "read" /\ turn[t].at # "done" /\ GraphIdle
  BY DEF RetrieveStructured
<1>2. class \in QuestionClassification /\ class.about \in SUBSET ObligationIds /\ class.intent \in TemplateIntents \cup HistoryIntents
  BY <1>1 DEF AssistInv, TurnOK, TurnProgress, QuestionClassification
<1>3. ASSUME NEW answer \in {"clarification", "503", "500"}, Done(t, answer, {}), Failing \/ UNCHANGED failed PROVE AssistInv'
  <2>1. answer \in TurnAnswers /\ answer # "answer"
    BY DEF TurnAnswers
  <2> QED  BY <1>1, <1>3, <2>1, DoneKeepsInv
<1>4. ASSUME class.intent \notin HistoryIntents, Continue(t, Retrieved(t, RunTemplate(class.intent, class.about))), UNCHANGED failed
      PROVE  AssistInv'
  <2> DEFINE context == RunTemplate(class.intent, class.about)
  <2>1. context \in Context /\ EachHasItsObligation(context) /\ \A r \in context.reviews : Open(r[2]) /\ r[2] \in class.about
    BY <1>2, <1>4, TemplateRead
  <2> HIDE DEF context
  <2>2. Continue(t, Retrieved(t, context))
    BY <1>4 DEF context
  <2> QED  BY <1>1, <1>4, <2>1, <2>2, RetrievedKeepsInv
<1>5. ASSUME class.intent \in HistoryIntents, NEW rows \in AuditRows(class),
             Continue(t, Retrieved(t, BaseContextFromAuditRows(class, rows))), UNCHANGED failed
      PROVE  AssistInv'
  <2> DEFINE context == BaseContextFromAuditRows(class, rows)
  <2>1. /\ rows \subseteq NodesOf("HumanReview")
        /\ IF class.intent # "review_history_by_obligation" THEN Cardinality(rows) <= PageSize
           ELSE \A r \in rows : r[2] \in class.about
    BY <1>2, <1>5, HistoryRead
  <2>2. context \in Context /\ context.reviews = rows /\ EachHasItsObligation(context)
    BY <2>1, HistoryContext
  <2>3. rows = {} => IsEmpty(context)
    BY NoRows
  <2> HIDE DEF context
  <2>4. Continue(t, Retrieved(t, context))
    BY <1>5 DEF context
  <2> QED  BY <1>1, <1>5, <2>1, <2>2, <2>3, <2>4, RetrievedKeepsInv
<1> QED  BY <1>3, <1>4, <1>5 DEF RetrieveStructured


\* What is read later of an obligation adds no review.
LEMMA EnrichKeepsInv == ASSUME AssistInv, NEW t \in Turns, Enrich(t) PROVE AssistInv'
<1>1. /\ turn[t] \in Turn /\ TurnOK(turn[t]) /\ turn[t].at = "enrich" /\ GraphIdle
      /\ turn[t].answer = None /\ turn[t].cites = {} /\ turn[t].context.reviews # {} /\ turn[t].context \in Context
  BY DEF AssistInv, TurnOK, TurnProgress, Enrich, Turn
<1>2. None # "answer"
  BY AssistantAssumption, ZenonT(60) DEF TurnAnswers
<1>3. PICK o \in turn[t].queue :
        LET rest == turn[t].queue \ {o}
            next == [turn[t] EXCEPT !.queue = rest, !.at = IF rest = {} THEN "synthesize" ELSE "enrich"]
        IN \/ /\ Continue(t, [next EXCEPT !.context = Enriched(@, RunTemplate("obligation_by_id_with_lineage", {o}))])
              /\ UNCHANGED failed
           \/ Continue(t, next) /\ Failing
  BY DEF Enrich
<1> DEFINE rest == turn[t].queue \ {o}
           at == IF rest = {} THEN "synthesize" ELSE "enrich"
           base == turn[t].context
           incoming == RunTemplate("obligation_by_id_with_lineage", {o})
           whole == Enriched(base, incoming)
           bare == [turn[t] EXCEPT !.queue = rest, !.at = at]
           full == [bare EXCEPT !.context = Enriched(@, incoming)]
<1>4. o \in ObligationIds /\ rest \subseteq ObligationIds /\ at \in {"synthesize", "enrich"}
  BY <1>1 DEF Turn
<1>5. incoming \in Context
  BY <1>4, TemplateRead DEF TemplateIntents
<1>6. /\ whole \in Context /\ whole.reviews = base.reviews
      /\ \A b \in base.obligations : \E f \in whole.obligations : f.id = b.id
  <2> DEFINE merged == Merge(base, incoming)
  <2>1. merged \in Context /\ \A b \in base.obligations : \E f \in merged.obligations : f.id = b.id
    BY <1>1, <1>5, MergeType
  <2>2. whole = [merged EXCEPT !.reviews = base.reviews]
    BY DEF Enriched
  <2> HIDE DEF merged, whole, incoming
  <2> QED  BY <1>1, <2>1, <2>2 DEF Context
<1>7. ASSUME NEW next \in Turn, NEW context \in Context, next.context = context, next.at = at, next.answer = None, next.cites = {},
             next.class = turn[t].class, context.reviews = base.reviews,
             \A b \in base.obligations : \E f \in context.obligations : f.id = b.id
      PROVE  TurnOK(next)
  <2>1. ~IsEmpty(context)
    BY <1>1, <1>7 DEF IsEmpty, NoContext
  <2>2. TurnProgress(next)
    BY <1>1, <1>4, <1>7, <2>1 DEF TurnOK, TurnProgress
  <2>3. EachHasItsObligation(context)
    BY <1>1, <1>7 DEF TurnOK, TurnFacts, EachHasItsObligation
  <2>4. TurnFacts(next)
    BY <1>1, <1>2, <1>7, <2>3 DEF TurnOK, TurnFacts
  <2> QED  BY <2>2, <2>4 DEF TurnOK
<1> HIDE DEF rest, at, incoming, whole
<1>8. /\ bare \in Turn /\ bare.context = base /\ bare.at = at /\ bare.answer = None /\ bare.cites = {} /\ bare.class = turn[t].class
      /\ full \in Turn /\ full.context = whole /\ full.at = at /\ full.answer = None /\ full.cites = {} /\ full.class = turn[t].class
  <2>1. bare \in Turn /\ bare.context = base /\ bare.at = at /\ bare.answer = None /\ bare.cites = {} /\ bare.class = turn[t].class
    BY <1>1, <1>4 DEF Turn
  <2>2. full = [bare EXCEPT !.context = whole]
    BY <2>1 DEF whole, Turn
  <2> HIDE DEF bare, full
  <2> QED  BY <1>6, <2>1, <2>2 DEF Turn
<1> HIDE DEF bare, full
<1>9. TurnOK(bare) /\ TurnOK(full)
  BY <1>1, <1>6, <1>7, <1>8
<1>10. (Continue(t, full) /\ UNCHANGED failed) \/ (Continue(t, bare) /\ Failing)
  BY <1>3 DEF full, bare, rest, at, incoming
<1> QED  BY <1>1, <1>9, <1>10, RecordStep

LEMMA VectorKeepsInv == ASSUME AssistInv, NEW t \in Turns, RetrieveVector(t) PROVE AssistInv'
<1>1. /\ turn[t] \in Turn /\ TurnOK(turn[t]) /\ turn[t].at = "vector" /\ turn[t].at # "done" /\ GraphIdle
      /\ turn[t].answer = None /\ turn[t].cites = {} /\ turn[t].context = NoContext /\ turn[t].class \in QuestionClassification
  BY DEF AssistInv, TurnOK, TurnProgress, RetrieveVector, Turn
<1>2. None # "answer"
  BY AssistantAssumption DEF TurnAnswers
<1>3. ASSUME NEW answer \in {"unavailable", "no data", "503", "500"}, Done(t, answer, {}), Failing \/ UNCHANGED failed PROVE AssistInv'
  <2>1. answer \in TurnAnswers /\ answer # "answer"
    BY DEF TurnAnswers
  <2> QED  BY <1>1, <1>3, <2>1, DoneKeepsInv
<1>4. ASSUME NEW os \in SUBSET ObligationIds, os # {}, UNCHANGED failed,
             Continue(t, [turn[t] EXCEPT !.at = "synthesize",
                                         !.context = Merge(turn[t].context, [NoContext EXCEPT !.clauses = {Node("Clause", o) : o \in os}])])
      PROVE  AssistInv'
  <2> DEFINE clauses == {Node("Clause", o) : o \in os}
             context == Merge(turn[t].context, [NoContext EXCEPT !.clauses = clauses])
             next == [turn[t] EXCEPT !.at = "synthesize", !.context = context]
  <2>1. clauses \subseteq NodesOf("Clause") /\ clauses # {}
    <3>1. \A o \in os : Node("Clause", o) \in NodesOf("Clause")
      BY <1>4 DEF Node, NodesOf
    <3> QED  BY <1>4, <3>1
  <2> HIDE DEF clauses
  <2>2. [NoContext EXCEPT !.clauses = clauses] = [circulars |-> {}, clauses |-> clauses, obligations |-> {}, tasks |-> {}, reviews |-> {}]
    BY DEF NoContext
  <2>3. context = [circulars |-> {}, clauses |-> clauses, obligations |-> {}, tasks |-> {}, reviews |-> {}]
    BY <1>1, <2>2 DEF Merge, NoContext
  <2> HIDE DEF context
  <2>4. context \in Context /\ context.reviews = {} /\ ~IsEmpty(context)
    BY <2>1, <2>3 DEF Context, IsEmpty, NoContext
  <2>5. /\ next \in Turn /\ next.at = "synthesize" /\ next.answer = None /\ next.cites = {}
        /\ next.context = context /\ next.class = turn[t].class
    BY <1>1, <2>4 DEF Turn
  <2>6. Continue(t, next)
    BY <1>4 DEF context, clauses
  <2> HIDE DEF next
  <2>7. TurnProgress(next) /\ TurnFacts(next)
    BY <1>1, <1>2, <2>4, <2>5 DEF TurnProgress, TurnFacts, EachHasItsObligation
  <2> QED  BY <1>1, <1>4, <2>5, <2>6, <2>7, RecordStep DEF TurnOK
<1> QED  BY <1>3, <1>4 DEF RetrieveVector

\* Only what was read for the answer is cited.
LEMMA SynthesizeKeepsInv == ASSUME AssistInv, NEW t \in Turns, Synthesize(t) PROVE AssistInv'
<1>1. turn[t].at = "synthesize" /\ turn[t].at # "done" /\ GraphIdle /\ ~IsEmpty(turn[t].context)
  BY DEF AssistInv, TurnOK, TurnProgress, Synthesize
<1>2. ASSUME NEW cited, Done(t, "answer", BuildValidatedCitations(cited, turn[t].context)), Failing \/ UNCHANGED failed PROVE AssistInv'
  <2>1. BuildValidatedCitations(cited, turn[t].context) \subseteq Ids(turn[t].context) /\ "answer" \in TurnAnswers
    BY DEF BuildValidatedCitations, TurnAnswers
  <2> QED  BY <1>1, <1>2, <2>1, DoneKeepsInv
<1>3. ASSUME NEW answer \in {"no data", "503"}, Done(t, answer, {}), Failing \/ UNCHANGED failed PROVE AssistInv'
  <2>1. answer \in TurnAnswers /\ answer # "answer"
    BY DEF TurnAnswers
  <2> QED  BY <1>1, <1>3, <2>1, DoneKeepsInv
<1>4. ASSUME Failing, TryAgain(t) PROVE AssistInv'
  BY <1>1, <1>4, TryAgainKeepsInv
<1> QED  BY <1>2, <1>3, <1>4 DEF Synthesize

LEMMA AssistNextKeepsInv == ASSUME AssistInv, [AssistNext]_assistantVars PROVE AssistInv'
<1>1. CASE UNCHANGED assistantVars
  BY <1>1 DEF assistantVars, AssistInv, TurnOK, TurnProgress, TurnFacts, Open
<1> QED  BY <1>1, OthersKeepInv, AskKeepsInv, ClassifyKeepsInv, RetrieveKeepsInv, EnrichKeepsInv, VectorKeepsInv, SynthesizeKeepsInv
         DEF AssistNext

\* Types, and what a turn holds at each await (answerQuestion).
THEOREM AssistInvAlways == AssistSpec => []AssistInv
<1>1. AssistInit => AssistInv
  BY AssistInitInv
<1>2. AssistInv /\ [AssistNext]_assistantVars => AssistInv'
  BY AssistNextKeepsInv
<1> QED  BY <1>1, <1>2, PTL DEF AssistSpec

LEMMA GroundedTurns == ASSUME AssistInv PROVE AssistTypeOK /\ FirstReviewIsHidden /\ FactsAnswerTheQuestion /\ CitationsAreReal
<1>1. \A t \in Turns : turn[t] \in Turn /\ TurnOK(turn[t])
  BY DEF AssistInv
<1>2. AssistTypeOK
  BY DEF AssistInv, AssistTypeOK, Turn
<1>3. FirstReviewIsHidden
  <2>1. SUFFICES ASSUME NEW t \in Turns, turn[t].class.intent \notin HistoryIntents,
                        NEW r \in turn[t].context.reviews \cup turn[t].cites, r[1] = "HumanReview"
                 PROVE  standing[r[2]] \notin Dual
    BY DEF FirstReviewIsHidden
  <2>2. turn[t].context \in Context /\ turn[t].cites \subseteq Ids(turn[t].context)
    BY <1>1 DEF TurnOK, TurnFacts, Turn
  <2>3. r \in turn[t].context.reviews
    BY <2>1, <2>2 DEF Ids, Context, NodesOf, Node
  <2> QED  BY <1>1, <2>1, <2>3 DEF TurnOK, TurnFacts, Open
<1>4. FactsAnswerTheQuestion
  BY <1>1 DEF FactsAnswerTheQuestion, TurnOK, TurnFacts, EachHasItsObligation
<1>5. CitationsAreReal
  BY <1>1 DEF CitationsAreReal, TurnOK, TurnFacts
<1> QED  BY <1>2, <1>3, <1>4, <1>5

\* What the assistant shows and cites is in the graph and is no first review,
\* and whom its limiter turns away has had the limit: for any number of
\* questions, obligations that are reviewed meanwhile, failures of the models
\* and the graph, and whatever the models return (answerQuestion,
\* allowAssistantRequest).
THEOREM AssistantAlwaysGrounded == AssistSpec /\ RateSpec => []AssistantIsGrounded
<1>1. AssistInv => FirstReviewIsHidden /\ FactsAnswerTheQuestion /\ CitationsAreReal
  BY GroundedTurns
<1>2. AssistSpec => [](FirstReviewIsHidden /\ FactsAnswerTheQuestion /\ CitationsAreReal)
  BY <1>1, AssistInvAlways, PTL
<1> QED  BY <1>2, RateAlwaysFair, PTL DEF AssistantIsGrounded

-----------------------------------------------------------------------------
(***************************************************************************)
(* The queue.                                                              *)
(***************************************************************************)
WalkType ==
  [at: {"none", "next", "gate", "end"}, statuses: SUBSET QueueStatuses, limit: 1..MAX_LIMIT,
   skip: Nat, rows: SUBSET Items, more: BOOLEAN, mine: BOOLEAN, pages: 0..MaxPages]

\* What stands ahead of an item, and its place when no other has its score.
Ahead(o) == {p \in Wanted(walk.statuses) : Riskier(p, o)}
Place(o) == Cardinality(Ahead(o)) + 1

Hidden(o) == walk.mine /\ o \in elsewhere

\* Where the walk is when it has answered the page it may hold.
Behind == IF walk.at = "gate" THEN walk.skip + walk.limit ELSE walk.skip

\* An item nothing riskier has left before is shown, or still to come; one nothing
\* riskier has entered before is behind the walk once it is shown.
StillToCome(o) ==
  \/ listed[o] > 0 \/ Hidden(o) \/ (walk.at = "gate" /\ o \in walk.rows)
  \/ Place(o) > Behind /\ walk.at \in {"next", "gate"} /\ (walk.at = "gate" => walk.more)

ShownOnce(o) ==
  /\ listed[o] <= 1 /\ (walk.at = "gate" /\ o \in walk.rows => listed[o] = 0)
  /\ walk.at # "end" /\ (listed[o] = 1 \/ (walk.at = "gate" /\ o \in walk.rows)) => Place(o) <= Behind

ItemIsAt(o) ==
  /\ listed[o] > 0 \/ o \in walk.rows => o \in Wanted(walk.statuses) \cup left
  /\ walk.at # "none" /\ Steady(o) =>
       /\ (\E p \in left : Riskier(p, o)) \/ StillToCome(o)
       /\ (\E p \in entered : Riskier(p, o)) \/ ShownOnce(o)

WalkIsAt ==
  /\ walk.at = "none" => walk.statuses = {} /\ left = {} /\ entered = {} /\ listed = [o \in Items |-> 0]
  /\ \A o \in Items : ItemIsAt(o)

QueueInv == QueueTypeOK /\ WalkIsAt

LEMMA QueueTypes ==
  ASSUME QueueTypeOK
  PROVE  /\ walk \in WalkType /\ walk.skip \in Nat /\ walk.limit \in Nat \ {0} /\ walk.skip + walk.limit \in Nat
         /\ Behind \in Nat
         /\ \A o \in Items : listed[o] \in Nat
         /\ Wanted(walk.statuses) \subseteq Items
  BY QueueAssumption DEF QueueTypeOK, WalkType, Wanted, Behind

LEMMA PlaceType == ASSUME NEW o \in Items PROVE IsFiniteSet(Ahead(o)) /\ Place(o) \in Nat \ {0}
<1>1. Ahead(o) \in SUBSET Items
  BY DEF Ahead, Wanted
<1> QED  BY <1>1, QueueAssumption, FS_Subset, FS_CardinalityType DEF Place

\* An item no other has the score of is behind the riskier ones, in every order.
LEMMA PlaceInOrder ==
  ASSUME NEW o \in Wanted(walk.statuses), NEW order \in Orders(Wanted(walk.statuses)),
         \A p \in Wanted(walk.statuses) : p # o => Ranking[p] # Ranking[o]
  PROVE  order[o] = Place(o) /\ order[o] \in 1..Cardinality(Wanted(walk.statuses))
<1> DEFINE W == Wanted(walk.statuses)
           n == Cardinality(W)
           before == 1..(order[o] - 1)
           there == [p \in Ahead(o) |-> order[p]]
<1>1. W \in SUBSET Items /\ IsFiniteSet(W) /\ n \in Nat
  <2>1. W \in SUBSET Items
    BY DEF Wanted
  <2> QED  BY <2>1, QueueAssumption, FS_Subset, FS_CardinalityType
<1>2. /\ order \in [W -> 1..n]
      /\ \A p, q \in W : order[p] = order[q] => p = q
      /\ \A k \in 1..n : \E p \in W : order[p] = k
      /\ \A p, q \in W : Ranking[p] < Ranking[q] => order[p] < order[q]
  BY DEF Orders, Bijection, Injection, Surjection, IsInjective
<1>3. \A p \in W : Ranking[p] \in Nat
  BY <1>1, QueueAssumption
<1> HIDE DEF W, n
<1>4. order[o] \in 1..n /\ o \in W
  BY <1>2 DEF W
<1>5. \A p \in W : p \in Ahead(o) <=> order[p] < order[o]
  <2> SUFFICES ASSUME NEW p \in W PROVE Riskier(p, o) <=> order[p] < order[o]
    BY DEF Ahead, W
  <2>1. CASE p = o
    BY <1>1, <1>3, <1>4, <2>1 DEF Riskier
  <2>2. CASE p # o
    <3>1. Ranking[p] < Ranking[o] \/ Ranking[o] < Ranking[p]
      BY <1>3, <1>4, <2>2 DEF W
    <3>2. order[p] \in 1..n
      BY <1>2
    <3> QED  BY <1>1, <1>2, <1>3, <1>4, <3>1, <3>2 DEF Riskier
  <2> QED  BY <2>1, <2>2
<1>6. Ahead(o) \subseteq W
  BY DEF Ahead, W
<1>7. there \in Bijection(Ahead(o), before)
  <2>1. \A p \in Ahead(o) : order[p] \in before
    BY <1>1, <1>2, <1>4, <1>5, <1>6
  <2>2. \A k \in before : \E p \in Ahead(o) : order[p] = k
    <3> SUFFICES ASSUME NEW k \in before PROVE \E p \in Ahead(o) : order[p] = k
      OBVIOUS
    <3>1. k \in 1..n /\ k < order[o]
      BY <1>1, <1>4
    <3>2. PICK p \in W : order[p] = k
      BY <1>2, <3>1
    <3> QED  BY <1>5, <3>1, <3>2
  <2>3. \A p, q \in Ahead(o) : order[p] = order[q] => p = q
    BY <1>2, <1>6
  <2> HIDE DEF before
  <2> QED  BY <2>1, <2>2, <2>3 DEF Bijection, Injection, Surjection, IsInjective
<1>8. Cardinality(before) = Cardinality(Ahead(o))
  BY <1>1, <1>4, <1>6, <1>7, FS_Subset, FS_Bijection DEF ExistsBijection
<1>9. Cardinality(before) = order[o] - 1
  <2>1. order[o] - 1 \in Int /\ 1 \in Int /\ (1 > order[o] - 1 => order[o] - 1 = 0)
    BY <1>1, <1>4
  <2>2. Cardinality(1..(order[o] - 1)) = IF 1 > order[o] - 1 THEN 0 ELSE (order[o] - 1) - 1 + 1
    BY <2>1, FS_Interval
  <2> QED  BY <2>1, <2>2
<1>10. order[o] = Place(o)
  BY <1>1, <1>4, <1>8, <1>9 DEF Place
<1> QED  BY <1>4, <1>10 DEF n, W

LEMMA QueueInitInv == ASSUME QueueInit PROVE QueueInv
<1>1. QueueTypeOK
  BY QueueAssumption DEF QueueInit, QueueTypeOK, Unset, QueueStatuses, ALLOWED_STATUSES
<1> QED  BY <1>1 DEF QueueInit, QueueInv, WalkIsAt, ItemIsAt, Unset

\* Somebody decides, or something arrives: what was ahead of an item and left, or
\* came ahead of it, is remembered.
LEMMA ChangeKeepsQueue == ASSUME QueueInv, NEW x \in Items, Change(x) PROVE QueueInv'
<1> DEFINE W == Wanted(walk.statuses)
<1>1. /\ UNCHANGED <<elsewhere, walk, listed>>
      /\ left' = left \cup (W \ W') /\ entered' = entered \cup (W' \ W)
  BY DEF Change
<1>2. W \in SUBSET Items /\ W' \in SUBSET Items
  BY DEF Wanted
<1>3. QueueTypeOK'
  <2>1. status' \in [Items -> QueueStatuses]
    BY DEF QueueInv, QueueTypeOK, Change, QueueStatuses, ALLOWED_STATUSES
  <2>2. changes' \in 0..MaxChanges
    BY QueueAssumption DEF QueueInv, QueueTypeOK, Change
  <2> HIDE DEF W
  <2> QED  BY <1>1, <1>2, <2>1, <2>2 DEF QueueInv, QueueTypeOK
<1>4. walk.at = "none" => W = {} /\ W' = {}
  BY <1>1 DEF QueueInv, WalkIsAt, Wanted
<1>5. ASSUME NEW o \in Items PROVE ItemIsAt(o)'
  <2>1. ItemIsAt(o)
    BY DEF QueueInv, WalkIsAt
  <2>2. listed'[o] > 0 \/ o \in walk'.rows => o \in W' \cup left'
    BY <1>1, <2>1 DEF ItemIsAt
  <2> SUFFICES ASSUME walk.at # "none", Steady(o)'
               PROVE  /\ (\E p \in left' : Riskier(p, o)) \/ StillToCome(o)'
                      /\ (\E p \in entered' : Riskier(p, o)) \/ ShownOnce(o)'
    BY <1>1, <2>2 DEF ItemIsAt, Riskier
  <2>3. Steady(o)
    BY <1>1 DEF Steady
  <2>4. Behind' = Behind /\ (Hidden(o)' <=> Hidden(o))
    BY <1>1 DEF Behind, Hidden
  <2>5. Ahead(o) \subseteq Ahead(o)' \/ \E p \in left' : Riskier(p, o)
    BY <1>1 DEF Ahead, Riskier
  <2>6. Ahead(o)' \subseteq Ahead(o) \/ \E p \in entered' : Riskier(p, o)
    BY <1>1 DEF Ahead, Riskier
  <2>7. IsFiniteSet(Ahead(o)) /\ IsFiniteSet(Ahead(o)') /\ Place(o) \in Nat /\ Place(o)' \in Nat
    <3>1. Ahead(o)' \in SUBSET Items
      BY <1>2 DEF Ahead
    <3> QED  BY <3>1, PlaceType, QueueAssumption, FS_Subset, FS_CardinalityType DEF Place
  <2>8. Place(o) <= Place(o)' \/ \E p \in left' : Riskier(p, o)
    BY <2>5, <2>7, FS_Subset, FS_CardinalityType DEF Place
  <2>9. Place(o)' <= Place(o) \/ \E p \in entered' : Riskier(p, o)
    BY <2>6, <2>7, FS_Subset, FS_CardinalityType DEF Place
  <2>10. Behind \in Nat
    BY QueueTypes DEF QueueInv
  <2>11. (\E p \in left' : Riskier(p, o)) \/ StillToCome(o)'
    BY <1>1, <2>1, <2>3, <2>4, <2>7, <2>8, <2>10 DEF ItemIsAt, StillToCome
  <2>12. (\E p \in entered' : Riskier(p, o)) \/ ShownOnce(o)'
    BY <1>1, <2>1, <2>3, <2>4, <2>7, <2>9, <2>10 DEF ItemIsAt, ShownOnce
  <2> QED  BY <2>11, <2>12
<1> QED  BY <1>1, <1>3, <1>4, <1>5 DEF QueueInv, WalkIsAt

LEMMA StartKeepsQueue ==
  ASSUME QueueInv, NEW tiers, NEW statuses, NEW limit \in 0..(MAX_LIMIT + 1), NEW mine \in BOOLEAN,
         StartWalk(tiers, statuses, limit, mine)
  PROVE  QueueInv'
<1>1. StatusesFor(tiers, statuses) \in SUBSET QueueStatuses
  BY DEF StatusesFor, ParseStatuses, QueueStatuses, ALLOWED_STATUSES
<1>2. ParseLimit(limit) \in 1..MAX_LIMIT
  BY QueueAssumption DEF ParseLimit
<1>3. walk' = [at |-> "next", statuses |-> StatusesFor(tiers, statuses), limit |-> ParseLimit(limit),
               skip |-> 0, rows |-> {}, more |-> FALSE, mine |-> mine, pages |-> 0]
  BY DEF StartWalk, Unset
<1>4. QueueTypeOK'
  <2>1. walk' \in WalkType
    BY <1>1, <1>2, <1>3, QueueAssumption DEF WalkType
  <2> QED  BY <2>1 DEF QueueInv, QueueTypeOK, StartWalk, WalkType
<1>5. \A o \in Items : listed'[o] = 0
  BY DEF QueueInv, WalkIsAt, StartWalk
<1>6. \A o \in Items : Place(o)' > 0
  <2> SUFFICES ASSUME NEW o \in Items PROVE Place(o)' > 0
    OBVIOUS
  <2>1. Ahead(o)' \in SUBSET Items
    BY DEF Ahead, Wanted
  <2> QED  BY <2>1, QueueAssumption, FS_Subset, FS_CardinalityType DEF Place
<1>7. \A o \in Items : ItemIsAt(o)'
  BY <1>3, <1>5, <1>6 DEF ItemIsAt, StillToCome, ShownOnce, Behind
<1> QED  BY <1>3, <1>4, <1>7 DEF QueueInv, WalkIsAt

LEMMA ReadKeepsQueue == ASSUME QueueInv, ReadRows PROVE QueueInv'
<1> DEFINE W == Wanted(walk.statuses)
<1>1. PICK order \in Orders(W) :
        walk' = [walk EXCEPT
          !.at = "gate", !.pages = @ + 1,
          !.rows = {o \in DOMAIN order : order[o] \in (walk.skip + 1)..(walk.skip + walk.limit)},
          !.more = {o \in DOMAIN order : order[o] \in (walk.skip + 1)..(walk.skip + (walk.limit + 1))}
                   # {o \in DOMAIN order : order[o] \in (walk.skip + 1)..(walk.skip + walk.limit)}]
  BY DEF ReadRows
<1> DEFINE here == {o \in DOMAIN order : order[o] \in (walk.skip + 1)..(walk.skip + walk.limit)}
           longer == {o \in DOMAIN order : order[o] \in (walk.skip + 1)..(walk.skip + (walk.limit + 1))}
<1>2. /\ order \in [W -> 1..Cardinality(W)] /\ DOMAIN order = W
      /\ \A k \in 1..Cardinality(W) : \E p \in W : order[p] = k
  BY DEF Orders, Bijection, Injection, Surjection
<1>3. /\ walk.at = "next" /\ walk.pages < MaxPages
      /\ UNCHANGED <<status, elsewhere, listed, left, entered, changes>>
  BY DEF ReadRows
<1>4. W \in SUBSET Items /\ Cardinality(W) \in Nat
  <2>1. W \in SUBSET Items
    BY DEF Wanted
  <2> QED  BY <2>1, QueueAssumption, FS_Subset, FS_CardinalityType
<1>5. walk \in WalkType /\ walk.skip \in Nat /\ walk.limit \in Nat \ {0} /\ walk.skip + walk.limit \in Nat
  BY QueueTypes DEF QueueInv
<1>6. here \in SUBSET Items /\ walk' = [walk EXCEPT !.at = "gate", !.pages = @ + 1, !.rows = here, !.more = (longer # here)]
  BY <1>1, <1>2, <1>4
<1>7. \A o \in W : order[o] \in Nat /\ (o \in here <=> order[o] \in (walk.skip + 1)..(walk.skip + walk.limit))
  BY <1>2, <1>4
<1>8. ASSUME NEW o \in W, order[o] > walk.skip + walk.limit PROVE longer # here
  <2>1. walk.skip + (walk.limit + 1) \in 1..Cardinality(W)
    BY <1>2, <1>4, <1>5, <1>8
  <2>2. PICK p \in W : order[p] = walk.skip + (walk.limit + 1)
    BY <1>2, <2>1
  <2>3. p \in longer /\ p \notin here
    BY <1>2, <1>5, <2>2
  <2> QED  BY <2>3
<1>9. here \subseteq W
  BY <1>2
<1> HIDE DEF here, longer
<1>10. /\ walk'.at = "gate" /\ walk'.rows = here /\ walk'.more = (longer # here) /\ walk'.mine = walk.mine
       /\ walk'.statuses = walk.statuses /\ walk'.skip = walk.skip /\ walk'.limit = walk.limit
  BY <1>5, <1>6 DEF WalkType
<1>11. QueueTypeOK'
  <2>1. walk.pages + 1 \in 0..MaxPages /\ (longer # here) \in BOOLEAN
    BY <1>3, <1>5, QueueAssumption DEF WalkType
  <2>2. walk' \in WalkType
    BY <1>5, <1>6, <2>1 DEF WalkType
  <2> QED  BY <1>3, <2>2 DEF QueueInv, QueueTypeOK, WalkType
<1>12. W' = W
  BY <1>3, <1>10 DEF Wanted
<1>13. ASSUME NEW o \in Items PROVE ItemIsAt(o)'
  <2>1. ItemIsAt(o) /\ listed[o] \in Nat
    BY <1>3, QueueTypes DEF QueueInv, WalkIsAt
  <2>2. listed'[o] > 0 \/ o \in walk'.rows => o \in W' \cup left'
    BY <1>3, <1>9, <1>10, <1>12, <2>1 DEF ItemIsAt
  <2> SUFFICES ASSUME Steady(o)'
               PROVE  /\ (\E p \in left : Riskier(p, o)) \/ StillToCome(o)'
                      /\ (\E p \in entered : Riskier(p, o)) \/ ShownOnce(o)'
    BY <1>3, <2>2 DEF ItemIsAt, Riskier
  <2>3. Steady(o) /\ o \in W
    BY <1>3, <1>12 DEF Steady
  <2>4. order[o] = Place(o) /\ Place(o) \in Nat
    BY <2>3, PlaceInOrder, PlaceType DEF Steady
  <2>5. Place(o)' = Place(o)
    BY <1>12 DEF Place, Ahead, Riskier
  <2>6. Behind = walk.skip /\ Behind' = walk.skip + walk.limit
    BY <1>3, <1>10 DEF Behind
  <2>7. (\E p \in left : Riskier(p, o)) \/ StillToCome(o)'
    <3>1. (\E p \in left : Riskier(p, o)) \/ listed[o] > 0 \/ Hidden(o) \/ Place(o) > walk.skip
      BY <1>3, <2>1, <2>3, <2>6 DEF ItemIsAt, StillToCome
    <3>2. CASE Place(o) > walk.skip
      <4>1. CASE Place(o) > walk.skip + walk.limit
        BY <1>8, <1>10, <2>3, <2>4, <2>5, <2>6, <4>1 DEF StillToCome
      <4>2. CASE ~(Place(o) > walk.skip + walk.limit)
        BY <1>5, <1>7, <1>10, <2>3, <2>4, <3>2, <4>2 DEF StillToCome
      <4> QED  BY <4>1, <4>2
    <3> QED  BY <1>3, <1>10, <3>1, <3>2 DEF StillToCome, Hidden
  <2>8. (\E p \in entered : Riskier(p, o)) \/ ShownOnce(o)'
    <3>1. (\E p \in entered : Riskier(p, o)) \/ (listed[o] <= 1 /\ (listed[o] = 1 => Place(o) <= walk.skip))
      BY <1>3, <2>1, <2>3, <2>6 DEF ItemIsAt, ShownOnce
    <3>2. o \in here => Place(o) > walk.skip /\ Place(o) <= walk.skip + walk.limit
      BY <1>5, <1>7, <2>3, <2>4
    <3> QED  BY <1>3, <1>5, <1>10, <2>1, <2>4, <2>5, <2>6, <3>1, <3>2 DEF ShownOnce
  <2> QED  BY <2>7, <2>8
<1> QED  BY <1>10, <1>11, <1>13 DEF QueueInv, WalkIsAt

\* The items of the page are answered, the reviewer's at least.
LEMMA AnswerKeepsQueue == ASSUME QueueInv, NEW g \in BOOLEAN, AnswerPage(g) PROVE QueueInv'
<1> DEFINE shown == VisibleForMe(walk.rows, g)
<1> DEFINE next == walk.skip + walk.limit
<1>1. shown \subseteq walk.rows /\ \A o \in walk.rows : o \in shown \/ Hidden(o)
  BY DEF VisibleForMe, Hidden
<1>2. /\ walk.at = "gate"
      /\ listed' = [o \in Items |-> IF o \in shown THEN listed[o] + 1 ELSE listed[o]]
      /\ walk' = IF walk.more THEN [walk EXCEPT !.at = "next", !.rows = {}, !.skip = next]
                              ELSE [walk EXCEPT !.at = "end", !.rows = {}]
      /\ UNCHANGED <<status, elsewhere, left, entered, changes>>
  BY DEF AnswerPage, NextSkip
<1> HIDE DEF shown
<1>3. walk \in WalkType /\ next \in Nat /\ walk.skip \in Nat /\ walk.limit \in Nat
  BY QueueTypes DEF QueueInv
<1> HIDE DEF next
<1>4. QueueTypeOK'
  <2>1. walk' \in WalkType
    BY <1>2, <1>3 DEF WalkType
  <2>2. listed' \in [Items -> Nat]
    BY <1>2 DEF QueueInv, QueueTypeOK
  <2> QED  BY <1>2, <2>1, <2>2 DEF QueueInv, QueueTypeOK, WalkType
<1>5. /\ walk'.at = (IF walk.more THEN "next" ELSE "end") /\ walk'.statuses = walk.statuses
      /\ walk'.rows = {} /\ walk'.mine = walk.mine /\ (walk.more => walk'.skip = next)
      /\ walk'.skip \in Nat /\ (~walk.more => walk'.skip = walk.skip)
  BY <1>2, <1>3 DEF WalkType
<1>6. Wanted(walk.statuses)' = Wanted(walk.statuses)
  BY <1>2, <1>5 DEF Wanted
<1>7. ASSUME NEW o \in Items PROVE ItemIsAt(o)'
  <2>1. ItemIsAt(o) /\ listed[o] \in Nat /\ Place(o) \in Nat
    BY PlaceType, QueueTypes DEF QueueInv, WalkIsAt
  <2>2. listed'[o] = IF o \in shown THEN listed[o] + 1 ELSE listed[o]
    BY <1>2
  <2>3. listed'[o] > 0 \/ o \in walk'.rows => o \in Wanted(walk.statuses)' \cup left'
    BY <1>1, <1>2, <1>5, <1>6, <2>1, <2>2 DEF ItemIsAt
  <2> SUFFICES ASSUME Steady(o)'
               PROVE  /\ (\E p \in left : Riskier(p, o)) \/ StillToCome(o)'
                      /\ (\E p \in entered : Riskier(p, o)) \/ ShownOnce(o)'
    BY <1>2, <2>3 DEF ItemIsAt, Riskier
  <2>4. Steady(o)
    BY <1>2, <1>6 DEF Steady
  <2>5. Place(o)' = Place(o) /\ (Hidden(o)' <=> Hidden(o))
    BY <1>2, <1>5, <1>6 DEF Place, Ahead, Riskier, Hidden
  <2>6. Behind = next /\ (walk.more => Behind' = next)
    BY <1>2, <1>5 DEF Behind, next
  <2>7. (\E p \in left : Riskier(p, o)) \/ StillToCome(o)'
    BY <1>1, <1>2, <1>5, <2>1, <2>2, <2>4, <2>5, <2>6 DEF ItemIsAt, StillToCome
  <2>8. (\E p \in entered : Riskier(p, o)) \/ ShownOnce(o)'
    <3>1. (\E p \in entered : Riskier(p, o)) \/ ShownOnce(o)
      BY <1>2, <2>1, <2>4 DEF ItemIsAt
    <3>2. ShownOnce(o) => listed'[o] <= 1
      BY <1>1, <1>2, <2>1, <2>2 DEF ShownOnce
    <3>3. ShownOnce(o) /\ listed'[o] = 1 => Place(o) <= next
      BY <1>1, <1>2, <2>1, <2>2, <2>6 DEF ShownOnce
    <3> QED  BY <1>3, <1>5, <2>1, <2>2, <2>5, <2>6, <3>1, <3>2, <3>3 DEF ShownOnce
  <2> QED  BY <2>7, <2>8
<1> QED  BY <1>4, <1>5, <1>7 DEF QueueInv, WalkIsAt

LEMMA QueueNextKeepsInv == ASSUME QueueInv, [QueueNext]_queueVars PROVE QueueInv'
<1>1. CASE UNCHANGED queueVars
  BY <1>1 DEF queueVars, QueueInv, QueueTypeOK, WalkIsAt, ItemIsAt, Steady, StillToCome, ShownOnce,
              Place, Ahead, Behind, Hidden, Wanted, Riskier
<1>2. CASE QueueNext
  BY <1>2, ChangeKeepsQueue, StartKeepsQueue, ReadKeepsQueue, AnswerKeepsQueue DEF QueueNext
<1> QED  BY <1>1, <1>2

\* Types, and what a walk has shown wherever it is (GET /api/console/queue).
THEOREM QueueInvAlways == QueueSpec => []QueueInv
<1>1. QueueInit => QueueInv
  BY QueueInitInv
<1>2. QueueInv /\ [QueueNext]_queueVars => QueueInv'
  BY QueueNextKeepsInv
<1> QED  BY <1>1, <1>2, PTL DEF QueueSpec

\* For any number of items, any scores and any size of page: whatever is decided
\* and arrives while the pages are read, an item in review all the time that has
\* its score to itself is missing only when the gate calls it another's or a
\* riskier one left, and comes again only when a riskier one entered.
THEOREM WalkAlwaysAccounted == QueueSpec => []WalkIsAccounted
<1>1. ASSUME QueueInv PROVE WalkIsAccounted
  <2> SUFFICES ASSUME walk.at = "end", NEW o \in Items
               PROVE  /\ listed[o] > 0 => o \in Wanted(walk.statuses) \cup left
                      /\ Steady(o) =>
                           /\ listed[o] = 0 => Hidden(o) \/ \E p \in left : Riskier(p, o)
                           /\ listed[o] > 1 => \E p \in entered : Riskier(p, o)
    BY DEF WalkIsAccounted, Hidden
  <2>1. ItemIsAt(o) /\ listed[o] \in Nat
    BY <1>1, QueueTypes DEF QueueInv, WalkIsAt
  <2> QED  BY <2>1 DEF ItemIsAt, StillToCome, ShownOnce
<1> QED  BY <1>1, QueueInvAlways, PTL

=============================================================================
