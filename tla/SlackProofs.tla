----------------------------- MODULE SlackProofs ----------------------------
(***************************************************************************)
(* Theorems about Slack's side of a review.  What its reviewers are told is*)
(* true, and two of them decide what was routed to two, for any number of  *)
(* obligations, clicks and repeats and any finite number of reviewers.  And*)
(* the reminders of its scheduler are exact, for any number of cycles that *)
(* overlap, finitely many obligations and claimants, and any hours.        *)
(***************************************************************************)
EXTENDS SlackGateway, SlaReminders, FiniteSetTheorems, SequenceTheorems, TLAPS

Modals == [open: BOOLEAN, o: Obligations \cup {None}, r: Reviewers \cup {None},
           decision: Decisions \cup {None}, tier: Tiers \cup {None}, submitted: BOOLEAN]
Handlers == [at: JobPoints, todo: Seq(Reviewers), card: Cards]

\* What a card says of the reviews is so.
TrueCard(card, o, r) ==
  /\ card \in {"locked", "closed", "reveal"} => HasReviewed(o, r)
  /\ card = "reveal" => Len(reviews[o]) >= 2

OnWire(k, kind) == \E m \in wire : m.kind = kind /\ m.click = k

Opening == {"claim", "gate", "open"}
Refreshing == {"assemble", "update"}

\* A click under way knows its item, a modal its tier: the one of the run while
\* the store is as it was.
ClickKnows(k) ==
  /\ modal[k].o # None => modal[k].r \in Reviewers /\ modal[k].decision \in Decisions
  /\ \/ modal[k].open \/ modal[k].tier # None \/ job[k].at # "none"
     \/ (\E m \in wire : m.click = k) \/ <<"view_id", k>> \in seen
     => modal[k].o # None
  /\ modal[k].open \/ job[k].at \notin {"none", "done"} \/ OnWire(k, "view_submission") => modal[k].tier # None
  /\ modal[k].tier # None /\ ~restarted => modal[k].tier = runTier[modal[k].o]

\* A refresh sends to somebody what is true for them.
RefreshOK(k) ==
  /\ job[k].at \in Refreshing => job[k].todo # <<>>
  /\ job[k].at = "update" => TrueCard(job[k].card, modal[k].o, Head(job[k].todo))

\* The click's own request is over before its modal is submitted.  Without
\* mistakes a submission is complete, and once it is seen the modal stays closed.
SubmissionOK(k) ==
  /\ OnWire(k, "view_submission") => ~OnWire(k, "block_actions")
  /\ ~Mistakes => \A m \in wire : m.kind = "view_submission" /\ m.click = k => m.rationale \/ modal[k].tier = "B"
  /\ ~Mistakes /\ <<"view_id", k>> \in seen =>
       ~modal[k].open /\ job[k].at \notin Opening /\ ~OnWire(k, "block_actions")

ClickOK(k) == ClickKnows(k) /\ RefreshOK(k) /\ SubmissionOK(k)

\* Nobody reviews twice, and a run that was routed to two ends with two reviews.
ReviewsOK(o) ==
  /\ \A i, j \in DOMAIN reviews[o] : reviews[o][i].reviewer = reviews[o][j].reviewer => i = j
  /\ ~restarted /\ runTier[o] # "B" /\ o \in decided => Len(reviews[o]) = 2

CardsOK == \A o \in Obligations, r \in Reviewers : TrueCard(shown[<<o, r>>], o, r)

SlackInv ==
  /\ SlackTypeOK
  /\ ~restarted => known = Obligations
  /\ \A k \in Clicks : ClickOK(k)
  /\ \A o \in Obligations : ReviewsOK(o)
  /\ CardsOK

LEMMA InitSlack == ASSUME SlackInit PROVE SlackInv
<1>1. SlackTypeOK
  <2>1. runTier \in [Obligations -> RoutedTiers] /\ slots \in [Obligations -> Slots]
    BY DEF SlackInit, Slots
  <2>2. reviews \in [Obligations -> Seq(Review)]  BY DEF SlackInit
  <2>3. shown \in [Obligations \X Reviewers -> Cards]  BY DEF SlackInit, FirstCard, Cards
  <2>4. modal \in [Clicks -> Modals] /\ job \in [Clicks -> Handlers]
    BY DEF SlackInit, Modals, Handlers, NoModal, NoJob, JobPoints, Cards
  <2>5. decided \subseteq Obligations /\ known \subseteq Obligations /\ sent \subseteq Obligations \X Reviewers
    BY DEF SlackInit
  <2>6. seen \subseteq {"trigger_id", "view_id"} \X Clicks /\ wire \subseteq Request
    BY DEF SlackInit
  <2>7. repeats \in 0..MaxRepeats  BY SlackAssumption DEF SlackInit
  <2>8. restarted \in BOOLEAN  BY DEF SlackInit
  <2> QED  BY <2>1, <2>2, <2>3, <2>4, <2>5, <2>6, <2>7, <2>8 DEF SlackTypeOK, Modals, Handlers
<1>2. ASSUME NEW k \in Clicks PROVE ClickOK(k)
  <2>1. modal[k] = NoModal /\ job[k].at = "none" /\ wire = {} /\ seen = {}  BY DEF SlackInit, NoJob
  <2> QED
    BY <2>1, SlackAssumption DEF ClickOK, ClickKnows, RefreshOK, SubmissionOK, OnWire, NoModal, Opening, Refreshing
<1>3. ASSUME NEW o \in Obligations PROVE ReviewsOK(o)
  <2>1. reviews[o] = <<>> /\ decided = {}  BY DEF SlackInit
  <2>2. DOMAIN reviews[o] = {}  BY <2>1
  <2> QED  BY <2>1, <2>2 DEF ReviewsOK
<1>4. CardsOK  BY DEF SlackInit, CardsOK, TrueCard, FirstCard
<1> QED  BY <1>1, <1>2, <1>3, <1>4 DEF SlackInv, SlackInit

(***************************************************************************)
(* What a step leaves as it is.                                            *)
(***************************************************************************)
SameClick(k) ==
  /\ modal'[k] = modal[k] /\ job'[k] = job[k]
  /\ \A m \in wire' : m.click = k => m \in wire
  /\ <<"view_id", k>> \in seen' => <<"view_id", k>> \in seen

\* Reviews are only added, and a store that is as it was has always been.
Grows ==
  /\ \A o \in Obligations : /\ \A r : HasReviewed(o, r) => HasReviewed(o, r)'
                            /\ Len(reviews[o]) >= 2 => Len(reviews'[o]) >= 2
  /\ runTier' = runTier
  /\ ~restarted' => ~restarted

LEMMA ClickKept ==
  ASSUME SlackTypeOK, NEW k \in Clicks, ClickOK(k), SameClick(k), Grows
  PROVE  ClickOK(k)'
<1>1. \A kind : OnWire(k, kind)' => OnWire(k, kind)  BY DEF OnWire, SameClick
<1>2. ClickKnows(k)'  BY <1>1 DEF ClickOK, ClickKnows, SameClick, Grows
<1>3. RefreshOK(k)'
  BY DEF SlackTypeOK, ClickOK, ClickKnows, RefreshOK, Refreshing, SameClick, Grows, TrueCard
<1>4. SubmissionOK(k)'  BY <1>1 DEF ClickOK, SubmissionOK, SameClick
<1> QED  BY <1>2, <1>3, <1>4 DEF ClickOK

\* A step of one click that leaves the gate and the store alone.
LEMMA OneClick ==
  ASSUME SlackInv, NEW k \in Clicks, SlackTypeOK', ClickOK(k)', CardsOK',
         UNCHANGED <<runTier, reviews, decided, known, restarted>>,
         \A q \in Clicks : q # k => SameClick(q)
  PROVE  SlackInv'
<1>1. Grows  BY DEF Grows, HasReviewed
<1>2. \A q \in Clicks : ClickOK(q)'  BY <1>1, ClickKept DEF SlackInv
<1>3. \A o \in Obligations : ReviewsOK(o)'  BY DEF SlackInv, ReviewsOK
<1> QED  BY <1>2, <1>3 DEF SlackInv

LEMMA CardsStay == ASSUME CardsOK, UNCHANGED <<shown, reviews>> PROVE CardsOK'
  BY DEF CardsOK, TrueCard, HasReviewed

LEMMA JobEffect ==
  ASSUME SlackTypeOK, NEW k \in Clicks, NEW next \in Handlers, job' = [job EXCEPT ![k] = next]
  PROVE  job' \in [Clicks -> Handlers] /\ job'[k] = next /\ \A q \in Clicks : q # k => job'[q] = job[q]
  BY DEF SlackTypeOK, Handlers

\* A job starts at a point of its handler, with nobody to send to.
LEMMA JobAt ==
  ASSUME NEW at \in JobPoints
  PROVE  [NoJob EXCEPT !.at = at] \in Handlers /\ [NoJob EXCEPT !.at = at].at = at
<1>1. NoJob \in Handlers  BY DEF NoJob, Handlers, JobPoints, Cards
<1> QED  BY <1>1 DEF Handlers

LEMMA FinishEffect ==
  ASSUME SlackTypeOK, NEW k \in Clicks, Finish(k)
  PROVE  /\ job' \in [Clicks -> Handlers] /\ job'[k].at = "done"
         /\ \A q \in Clicks : q # k => job'[q] = job[q]
<1> DEFINE next == [NoJob EXCEPT !.at = "done"]
<1>1. next \in Handlers /\ next.at = "done"  BY JobAt DEF JobPoints
<1>2. job' = [job EXCEPT ![k] = next]  BY DEF Finish
<1> HIDE DEF next
<1> QED  BY <1>1, <1>2, JobEffect

\* One field of a modal.
LEMMA OpenEffect ==
  ASSUME SlackTypeOK, NEW k \in Clicks, NEW open \in BOOLEAN, modal' = [modal EXCEPT ![k].open = open]
  PROVE  /\ modal' \in [Clicks -> Modals] /\ \A q \in Clicks : q # k => modal'[q] = modal[q]
         /\ modal'[k].open = open /\ modal'[k].o = modal[k].o /\ modal'[k].r = modal[k].r
         /\ modal'[k].decision = modal[k].decision /\ modal'[k].tier = modal[k].tier
         /\ modal'[k].submitted = modal[k].submitted
<1>1. modal \in [Clicks -> Modals]  BY DEF SlackTypeOK, Modals
<1> QED  BY <1>1 DEF Modals

LEMMA TakeEffect ==
  ASSUME SlackTypeOK, NEW m \in wire, Take(m)
  PROVE  /\ wire' \subseteq wire /\ wire' \subseteq Request /\ repeats' \in 0..MaxRepeats
         /\ m \in Request /\ m.click \in Clicks
         /\ m.kind \in {"block_actions", "view_submission"} /\ m.rationale \in BOOLEAN
<1>1. wire \subseteq Request /\ repeats \in 0..MaxRepeats /\ MaxRepeats \in Nat
  BY SlackAssumption DEF SlackTypeOK
<1>2. m \in Request  BY <1>1
<1> QED  BY <1>1, <1>2 DEF Take, Request

LEMMA KeyIs ==
  ASSUME NEW m \in Request
  PROVE  /\ Key(m) \in {"trigger_id", "view_id"} \X Clicks
         /\ \A k : Key(m) = <<"view_id", k>> => k = m.click /\ m.kind = "view_submission"
         /\ m.kind = "view_submission" => Key(m) = <<"view_id", m.click>>
  BY DEF Key, Request

(***************************************************************************)
(* Requests.                                                               *)
(***************************************************************************)
LEMMA DedupedStep ==
  ASSUME SlackInv, NEW m \in wire, Deduped(m)
  PROVE  SlackInv'
<1> DEFINE k == m.click
<1>1. wire' \subseteq wire /\ wire' \subseteq Request /\ repeats' \in 0..MaxRepeats /\ k \in Clicks
  BY TakeEffect DEF SlackInv, Deduped
<1>2. /\ modal' \in [Clicks -> Modals] /\ \A q \in Clicks : q # k => modal'[q] = modal[q]
      /\ modal'[k].open \in BOOLEAN /\ modal'[k].open => modal[k].open
      /\ modal'[k].o = modal[k].o /\ modal'[k].r = modal[k].r
      /\ modal'[k].decision = modal[k].decision /\ modal'[k].tier = modal[k].tier
  <2>1. CASE m.kind = "view_submission"  BY <1>1, <2>1, OpenEffect DEF SlackInv, Deduped
  <2>2. CASE m.kind # "view_submission"
    <3>1. modal' = modal  BY <2>2 DEF Deduped
    <3>2. modal \in [Clicks -> Modals]  BY DEF SlackInv, SlackTypeOK, Modals
    <3> QED  BY <1>1, <3>1, <3>2 DEF Modals
  <2> QED  BY <2>1, <2>2
<1>3. SlackTypeOK'
  BY <1>1, <1>2 DEF SlackInv, SlackTypeOK, Deduped, gateVars, storeVars, Modals
<1>4. \A q \in Clicks : q # k => SameClick(q)  BY <1>1, <1>2 DEF SameClick, Deduped
<1>5. ClickOK(k)'
  <2>1. \A kind : OnWire(k, kind)' => OnWire(k, kind)  BY <1>1 DEF OnWire
  <2>2. ClickKnows(k)'
    BY <1>1, <1>2, <2>1, SMTT(30) DEF SlackInv, ClickOK, ClickKnows, Deduped, gateVars
  <2>3. RefreshOK(k)'
    <3>1. job' = job /\ reviews' = reviews  BY DEF Deduped, gateVars
    <3>2. RefreshOK(k)  BY <1>1 DEF SlackInv, ClickOK
    <3> QED  BY <1>2, <3>1, <3>2 DEF RefreshOK, TrueCard, HasReviewed
  <2>4. SubmissionOK(k)'
    BY <1>1, <1>2, <2>1 DEF SlackInv, ClickOK, SubmissionOK, Deduped
  <2> QED  BY <2>2, <2>3, <2>4 DEF ClickOK
<1>6. CardsOK'  BY CardsStay DEF SlackInv, Deduped, gateVars
<1> QED  BY <1>1, <1>3, <1>4, <1>5, <1>6, OneClick DEF Deduped, gateVars, storeVars

LEMMA BlockActionStep ==
  ASSUME SlackInv, NEW m \in wire, BlockAction(m)
  PROVE  SlackInv'
<1> DEFINE k == m.click
           tier == TierOf(modal[k].o)
<1>1. /\ wire' \subseteq wire /\ wire' \subseteq Request /\ repeats' \in 0..MaxRepeats
      /\ k \in Clicks /\ m \in Request /\ m.kind = "block_actions"
  BY TakeEffect DEF SlackInv, BlockAction
<1>2. modal[k].o \in Obligations
  BY <1>1 DEF SlackInv, SlackTypeOK, ClickOK, ClickKnows
<1>3. tier \in Tiers /\ (~restarted => tier = runTier[modal[k].o])
  BY <1>2, SlackAssumption DEF SlackInv, SlackTypeOK, TierOf, Tiers
<1>4. OnWire(k, "block_actions") /\ ~OnWire(k, "view_submission")
  BY <1>1 DEF SlackInv, ClickOK, SubmissionOK, OnWire
<1>5. PICK at \in JobPoints : at \in {"none", "done"} \cup Opening /\ job'[k].at = at /\ job' \in [Clicks -> Handlers]
                              /\ \A q \in Clicks : q # k => job'[q] = job[q]
  <2>1. CASE tier = "ESCALATE"
    <3>1. job' = job /\ job \in [Clicks -> Handlers]
      BY <2>1 DEF SlackInv, SlackTypeOK, BlockAction, Handlers
    <3> QED  BY <1>1, <3>1 DEF BlockAction, JobPoints
  <2>2. CASE tier # "ESCALATE"
    <3>1. PICK at \in {"claim", "gate"} : job' = [job EXCEPT ![k] = [NoJob EXCEPT !.at = at]]
      BY <2>2 DEF BlockAction
    <3>2. [NoJob EXCEPT !.at = at] \in Handlers /\ [NoJob EXCEPT !.at = at].at = at
      BY JobAt DEF JobPoints
    <3>3. PICK next \in Handlers : next.at = at /\ job' = [job EXCEPT ![k] = next]
      BY <3>1, <3>2
    <3> QED  BY <1>1, <3>3, JobEffect DEF SlackInv, JobPoints, Opening
  <2> QED  BY <2>1, <2>2
<1>6. /\ modal' \in [Clicks -> Modals] /\ \A q \in Clicks : q # k => modal'[q] = modal[q]
      /\ modal'[k].open = modal[k].open /\ modal'[k].o = modal[k].o /\ modal'[k].r = modal[k].r
      /\ modal'[k].decision = modal[k].decision
      /\ modal'[k].tier = tier \/ (modal'[k].tier = modal[k].tier /\ job' = job)
  <2>1. modal \in [Clicks -> Modals]  BY DEF SlackInv, SlackTypeOK, Modals
  <2>2. CASE tier = "ESCALATE"  BY <2>1, <2>2 DEF BlockAction
  <2>3. CASE tier # "ESCALATE"
    <3>1. PICK s \in Tiers : s = tier /\ modal' = [modal EXCEPT ![k].tier = s]
      BY <1>3, <2>3 DEF BlockAction
    <3> QED  BY <1>1, <2>1, <3>1 DEF Modals
  <2> QED  BY <2>2, <2>3
<1>7. /\ Key(m) \in {"trigger_id", "view_id"} \X Clicks /\ \A q : Key(m) # <<"view_id", q>>
  BY <1>1, KeyIs
<1> HIDE DEF tier
<1>8. SlackTypeOK'
  BY <1>1, <1>5, <1>6, <1>7 DEF SlackInv, SlackTypeOK, BlockAction, gateVars, storeVars, Modals, Handlers
<1>9. \A q \in Clicks : q # k => SameClick(q)
  BY <1>1, <1>5, <1>6, <1>7 DEF SameClick, BlockAction
<1>10. ClickOK(k)'
  <2>1. \A kind : OnWire(k, kind)' => OnWire(k, kind)  BY <1>1 DEF OnWire
  <2>2. ClickKnows(k)'
    BY <1>1, <1>2, <1>3, <1>4, <1>6, <1>7, <2>1, SlackAssumption DEF SlackInv, ClickOK, ClickKnows, BlockAction, gateVars
  <2>3. RefreshOK(k)'  BY <1>5 DEF RefreshOK, Refreshing, Opening
  <2>4. SubmissionOK(k)'
    BY <1>1, <1>4, <1>7, <2>1 DEF SlackInv, ClickOK, SubmissionOK, OnWire, BlockAction
  <2> QED  BY <2>2, <2>3, <2>4 DEF ClickOK
<1>11. CardsOK'  BY CardsStay DEF SlackInv, BlockAction, gateVars
<1> QED  BY <1>1, <1>8, <1>9, <1>10, <1>11, OneClick DEF BlockAction, gateVars, storeVars

\* Without mistakes the submission is complete, and the answer closes the modal.
LEMMA ViewSubmissionStep ==
  ASSUME SlackInv, NEW m \in wire, ViewSubmission(m)
  PROVE  SlackInv'
<1> DEFINE k == m.click
           taken == ~(modal[k].tier # "B" /\ ~m.rationale)
<1>1. /\ wire' \subseteq wire /\ wire' \subseteq Request /\ repeats' \in 0..MaxRepeats
      /\ k \in Clicks /\ m \in Request /\ m.kind = "view_submission"
  BY TakeEffect DEF SlackInv, ViewSubmission
<1>2. OnWire(k, "view_submission") /\ ~OnWire(k, "block_actions") /\ (~Mistakes => taken)
  BY <1>1 DEF SlackInv, ClickOK, SubmissionOK, OnWire
<1>3. modal[k].tier # None /\ modal[k].o # None  BY <1>1, <1>2 DEF SlackInv, ClickOK, ClickKnows
<1>4. /\ modal' \in [Clicks -> Modals] /\ \A q \in Clicks : q # k => modal'[q] = modal[q]
      /\ modal'[k].open => modal[k].open /\ ~taken
      /\ modal'[k].o = modal[k].o /\ modal'[k].r = modal[k].r
      /\ modal'[k].decision = modal[k].decision /\ modal'[k].tier = modal[k].tier
  <2>1. modal \in [Clicks -> Modals]  BY DEF SlackInv, SlackTypeOK, Modals
  <2>2. CASE taken
    <3>1. modal' = [modal EXCEPT ![k].open = FALSE]  BY <2>2 DEF ViewSubmission
    <3> HIDE DEF taken
    <3> QED  BY <1>1, <2>2, <3>1, OpenEffect DEF SlackInv
  <2>3. CASE ~taken  BY <2>1, <2>3 DEF ViewSubmission
  <2> QED  BY <2>2, <2>3
<1>5. /\ job' \in [Clicks -> Handlers] /\ \A q \in Clicks : q # k => job'[q] = job[q]
      /\ job'[k].at \in {"resume", "done"}
  <2>1. job \in [Clicks -> Handlers]  BY DEF SlackInv, SlackTypeOK, Handlers
  <2>2. CASE taken
    <3>1. job' = [job EXCEPT ![k] = [NoJob EXCEPT !.at = "resume"]]  BY <2>2 DEF ViewSubmission
    <3>2. PICK next \in Handlers : next.at = "resume" /\ next = [NoJob EXCEPT !.at = "resume"]
      BY JobAt DEF JobPoints
    <3> QED  BY <1>1, <3>1, <3>2, JobEffect DEF SlackInv
  <2>3. CASE ~taken  BY <2>1, <2>3 DEF ViewSubmission
  <2> QED  BY <2>2, <2>3
<1>6. /\ Key(m) \in {"trigger_id", "view_id"} \X Clicks /\ \A q : Key(m) = <<"view_id", q>> => q = k
  BY <1>1, KeyIs
<1> HIDE DEF taken
<1>7. SlackTypeOK'
  BY <1>1, <1>4, <1>5, <1>6 DEF SlackInv, SlackTypeOK, ViewSubmission, gateVars, storeVars, Modals, Handlers
<1>8. \A q \in Clicks : q # k => SameClick(q)
  BY <1>1, <1>4, <1>5, <1>6 DEF SameClick, ViewSubmission
<1>9. ClickOK(k)'
  <2>1. \A kind : OnWire(k, kind)' => OnWire(k, kind)  BY <1>1 DEF OnWire
  <2>2. ClickKnows(k)'
    BY <1>1, <1>3, <1>4 DEF SlackInv, ClickOK, ClickKnows, ViewSubmission, gateVars
  <2>3. RefreshOK(k)'  BY <1>5 DEF RefreshOK, Refreshing
  <2>4. SubmissionOK(k)'
    BY <1>1, <1>2, <1>4, <1>5, <2>1 DEF SlackInv, ClickOK, SubmissionOK, Opening
  <2> QED  BY <2>2, <2>3, <2>4 DEF ClickOK
<1>10. CardsOK'  BY CardsStay DEF SlackInv, ViewSubmission, gateVars
<1> QED  BY <1>1, <1>7, <1>8, <1>9, <1>10, OneClick DEF ViewSubmission, gateVars, storeVars

LEMMA ClickStep ==
  ASSUME SlackInv, NEW k \in Clicks, NEW o \in Obligations, NEW r \in Reviewers,
         NEW d \in Decisions, Click(k, o, r, d)
  PROVE  SlackInv'
<1> DEFINE m == [kind |-> "block_actions", click |-> k, rationale |-> FALSE]
           one == [modal[k] EXCEPT !.o = o]
           two == [one EXCEPT !.r = r]
           next == [two EXCEPT !.decision = d]
<1>1. modal \in [Clicks -> Modals] /\ modal[k] \in Modals  BY DEF SlackInv, SlackTypeOK, Modals
<1>2. one \in Modals /\ one.o = o /\ one.open = modal[k].open /\ one.tier = modal[k].tier
  BY <1>1 DEF Modals
<1>3. two \in Modals /\ two.o = o /\ two.r = r /\ two.open = modal[k].open /\ two.tier = modal[k].tier
  BY <1>2 DEF Modals
<1>4. /\ next \in Modals /\ next.o = o /\ next.r = r /\ next.decision = d
      /\ next.open = modal[k].open /\ next.tier = modal[k].tier
  BY <1>3 DEF Modals
<1>5. modal' = [modal EXCEPT ![k] = next]
  <2>1. [modal EXCEPT ![k].o = o] = [modal EXCEPT ![k] = one]  OBVIOUS
  <2>2. [[modal EXCEPT ![k] = one] EXCEPT ![k].r = r] = [modal EXCEPT ![k] = two]  BY <1>1
  <2>3. [[modal EXCEPT ![k] = two] EXCEPT ![k].decision = d] = [modal EXCEPT ![k] = next]  BY <1>1
  <2> QED  BY <2>1, <2>2, <2>3 DEF Click
<1> HIDE DEF next
<1>6. modal' \in [Clicks -> Modals] /\ modal'[k] = next /\ \A q \in Clicks : q # k => modal'[q] = modal[q]
  BY <1>1, <1>4, <1>5
<1>7. /\ m \in Request /\ m.click = k /\ m.kind = "block_actions" /\ wire' = wire \cup {m}
  BY DEF Click, Request
<1>8. /\ ~modal[k].open /\ modal[k].tier = None /\ job[k].at = "none"
      /\ (\A n \in wire : n.click # k) /\ <<"view_id", k>> \notin seen
  <2>1. modal[k].o = None  BY DEF Click
  <2> QED  BY <2>1 DEF SlackInv, ClickOK, ClickKnows
<1>9. SlackTypeOK'
  BY <1>6, <1>7 DEF SlackInv, SlackTypeOK, Click, gateVars, storeVars, Modals
<1>10. \A q \in Clicks : q # k => SameClick(q)  BY <1>6, <1>7 DEF SameClick, Click
<1>11. ClickOK(k)'
  <2>1. (\A n \in wire' : n.click = k => n = m) /\ OnWire(k, "view_submission")' = FALSE
    BY <1>7, <1>8 DEF OnWire
  <2>2. job'[k].at = "none" /\ <<"view_id", k>> \notin seen' /\ r # None /\ o # None
    BY <1>8, SlackAssumption DEF Click
  <2>3. ClickKnows(k)'  BY <1>4, <1>6, <1>8, <2>1, <2>2 DEF ClickKnows
  <2>4. RefreshOK(k)'  BY <2>2 DEF RefreshOK, Refreshing
  <2>5. SubmissionOK(k)'  BY <1>7, <2>1, <2>2 DEF SubmissionOK
  <2> QED  BY <2>3, <2>4, <2>5 DEF ClickOK
<1>12. CardsOK'  BY CardsStay DEF SlackInv, Click, gateVars
<1> QED  BY <1>9, <1>10, <1>11, <1>12, OneClick DEF Click, gateVars, storeVars

LEMMA SubmitStep ==
  ASSUME SlackInv, NEW k \in Clicks, NEW rationale \in BOOLEAN, Submit(k, rationale)
  PROVE  SlackInv'
<1> DEFINE m == [kind |-> "view_submission", click |-> k, rationale |-> rationale]
<1>1. /\ modal' \in [Clicks -> Modals] /\ \A q \in Clicks : q # k => modal'[q] = modal[q]
      /\ modal'[k].open = modal[k].open /\ modal'[k].o = modal[k].o /\ modal'[k].r = modal[k].r
      /\ modal'[k].decision = modal[k].decision /\ modal'[k].tier = modal[k].tier
  <2>1. modal \in [Clicks -> Modals]  BY DEF SlackInv, SlackTypeOK, Modals
  <2>2. modal' = [modal EXCEPT ![k].submitted = rationale]  BY DEF Submit
  <2> QED  BY <2>1, <2>2 DEF Modals
<1>2. /\ m \in Request /\ m.click = k /\ m.kind = "view_submission" /\ m.rationale = rationale
      /\ wire' = wire \cup {m}
  BY DEF Submit, Request
<1>3. /\ modal[k].open /\ (\A n \in wire : n.click # k)
      /\ ~Mistakes => rationale \/ modal[k].tier = "B"
  BY DEF Submit
<1> HIDE DEF m
<1>4. SlackTypeOK'  BY <1>1, <1>2 DEF SlackInv, SlackTypeOK, Submit, gateVars, storeVars, Modals
<1>5. \A q \in Clicks : q # k => SameClick(q)  BY <1>1, <1>2 DEF SameClick, Submit
<1>6. ClickOK(k)'
  <2>1. (\A n \in wire' : n.click = k => n = m) /\ ~OnWire(k, "block_actions")'
    BY <1>2, <1>3 DEF OnWire
  <2>2. ClickKnows(k)'
    BY <1>1, <1>3 DEF SlackInv, ClickOK, ClickKnows, Submit, gateVars
  <2>3. RefreshOK(k)'
    BY <1>1 DEF SlackInv, ClickOK, RefreshOK, TrueCard, HasReviewed, Submit, gateVars
  <2>4. SubmissionOK(k)'
    BY <1>1, <1>2, <1>3, <2>1 DEF SlackInv, ClickOK, SubmissionOK, Submit
  <2> QED  BY <2>2, <2>3, <2>4 DEF ClickOK
<1>7. CardsOK'  BY CardsStay DEF SlackInv, Submit, gateVars
<1> QED  BY <1>4, <1>5, <1>6, <1>7, OneClick DEF Submit, gateVars, storeVars

LEMMA ExpireStep ==
  ASSUME SlackInv, NEW key \in seen, Expire(key)
  PROVE  SlackInv'
<1>1. SlackTypeOK'  BY DEF SlackInv, SlackTypeOK, Expire, gateVars, storeVars
<1>2. \A q \in Clicks : SameClick(q)  BY DEF SameClick, Expire
<1>3. Grows  BY DEF Grows, HasReviewed, Expire, gateVars
<1>4. \A q \in Clicks : ClickOK(q)'  BY <1>2, <1>3, ClickKept DEF SlackInv
<1>5. CardsOK'  BY CardsStay DEF SlackInv, Expire, gateVars
<1> QED  BY <1>1, <1>4, <1>5 DEF SlackInv, ReviewsOK, Expire, gateVars, storeVars

(***************************************************************************)
(* The handler of a click.                                                 *)
(***************************************************************************)
\* A handler goes on to a point where it refreshes nothing.
LEMMA HandlerStep ==
  ASSUME SlackInv, NEW k \in Clicks,
         job[k].at \notin {"none", "done"},
         job' \in [Clicks -> Handlers], \A q \in Clicks : q # k => job'[q] = job[q],
         RefreshOK(k)',
         job'[k].at \in Opening => job[k].at \in Opening,
         slots' \in [Obligations -> Slots],
         UNCHANGED <<runTier, reviews, decided, storeVars, shown, seen, wire, repeats, modal, restarted>>
  PROVE  SlackInv'
<1>1. SlackTypeOK'  BY DEF SlackInv, SlackTypeOK, storeVars, Handlers
<1>2. \A q \in Clicks : q # k => SameClick(q)  BY DEF SameClick
<1>3. ClickKnows(k)'  BY DEF SlackInv, ClickOK, ClickKnows, OnWire
<1>4. SubmissionOK(k)'  BY DEF SlackInv, ClickOK, SubmissionOK, OnWire
<1>5. CardsOK'  BY CardsStay DEF SlackInv
<1> QED  BY <1>1, <1>2, <1>3, <1>4, <1>5, OneClick DEF ClickOK, storeVars

LEMMA JobFailsStep ==
  ASSUME SlackInv, NEW k \in Clicks, JobFails(k)
  PROVE  SlackInv'
<1>1. /\ job' \in [Clicks -> Handlers] /\ job'[k].at = "done"
      /\ \A q \in Clicks : q # k => job'[q] = job[q]
  BY FinishEffect DEF SlackInv, JobFails
<1>2. RefreshOK(k)'  BY <1>1 DEF RefreshOK, Refreshing
<1>3. slots' \in [Obligations -> Slots]  BY DEF SlackInv, SlackTypeOK, JobFails, gateVars
<1> QED  BY <1>1, <1>2, <1>3, HandlerStep DEF JobFails, gateVars, Opening

\* A handler that opens a modal goes on to the next of its calls.
LEMMA AtEffect ==
  ASSUME SlackTypeOK, NEW k \in Clicks, NEW at \in JobPoints, job' = [job EXCEPT ![k].at = at]
  PROVE  /\ job' \in [Clicks -> Handlers] /\ job'[k].at = at
         /\ \A q \in Clicks : q # k => job'[q] = job[q]
<1>1. job \in [Clicks -> Handlers]  BY DEF SlackTypeOK, Handlers
<1> QED  BY <1>1 DEF Handlers

LEMMA ClaimSlotStep ==
  ASSUME SlackInv, NEW k \in Clicks, ClaimSlot(k)
  PROVE  SlackInv'
<1> DEFINE o == modal[k].o
           r == modal[k].r
           slot == OpenSlot(o, r)
<1>1. job[k].at = "claim"  BY DEF ClaimSlot
<1>2. o \in Obligations /\ r \in Reviewers
  BY <1>1 DEF SlackInv, SlackTypeOK, ClickOK, ClickKnows
<1>3. slots' \in [Obligations -> Slots]
  <2>1. slots \in [Obligations -> Slots]  BY DEF SlackInv, SlackTypeOK
  <2>2. slot \in {"maker", "checker", None}  BY DEF OpenSlot
  <2>3. CASE slot = None  BY <2>1, <2>3 DEF ClaimSlot
  <2>4. CASE slot = "maker" /\ slot # None  BY <1>2, <2>1, <2>4 DEF ClaimSlot, Slots
  <2>5. CASE slot = "checker" /\ slot # None  BY <1>2, <2>1, <2>5 DEF ClaimSlot, Slots
  <2> QED  BY <2>2, <2>3, <2>4, <2>5
<1>4. /\ job' \in [Clicks -> Handlers] /\ job'[k].at \in {"gate", "done"}
      /\ \A q \in Clicks : q # k => job'[q] = job[q]
  <2>1. CASE Finish(k)  BY <2>1, FinishEffect DEF SlackInv
  <2>2. CASE job' = [job EXCEPT ![k].at = "gate"]  BY <2>2, AtEffect DEF SlackInv, JobPoints
  <2> QED  BY <2>1, <2>2 DEF ClaimSlot
<1>5. RefreshOK(k)'  BY <1>4 DEF RefreshOK, Refreshing
<1> HIDE DEF slot
<1> QED  BY <1>1, <1>3, <1>4, <1>5, HandlerStep DEF ClaimSlot, Opening

LEMMA ReadGateStep ==
  ASSUME SlackInv, NEW k \in Clicks, ReadGate(k)
  PROVE  SlackInv'
<1>1. /\ job' \in [Clicks -> Handlers] /\ job'[k].at = "open"
      /\ \A q \in Clicks : q # k => job'[q] = job[q]
  BY AtEffect DEF SlackInv, ReadGate, JobPoints
<1>2. RefreshOK(k)'  BY <1>1 DEF RefreshOK, Refreshing
<1>3. slots' \in [Obligations -> Slots]  BY DEF SlackInv, SlackTypeOK, ReadGate, gateVars
<1> QED  BY <1>1, <1>2, <1>3, HandlerStep DEF ReadGate, gateVars, Opening

\* The recipients of a refresh are reviewers: the finite set has a sequence.
LEMMA RecipientsType ==
  ASSUME NEW o
  PROVE  Recipients(o) \in Seq(Reviewers)
<1> DEFINE S == {r \in Reviewers : <<o, r>> \in sent}
<1>1. IsFiniteSet(S) /\ S \subseteq Reviewers  BY FS_Subset, SlackAssumption
<1>2. Cardinality(S) \in Nat /\ ExistsBijection(1..Cardinality(S), S)  BY <1>1, FS_CardinalityType
<1>3. \E f \in [1..Cardinality(S) -> S] : IsInjective(f)
  BY <1>2 DEF ExistsBijection, Bijection, Injection, IsInjective
<1>4. SetToSeq(S) \in [1..Cardinality(S) -> S]  BY <1>3 DEF SetToSeq
<1>5. SetToSeq(S) \in Seq(Reviewers)
  <2> DEFINE s == SetToSeq(S)
             n == Cardinality(S)
  <2>1. n \in Nat /\ s \in [1..n -> S] /\ S \subseteq Reviewers  BY <1>1, <1>2, <1>4
  <2> HIDE DEF s, n, S
  <2>2. s \in [1..n -> Reviewers]  BY <2>1
  <2>3. s \in Seq(Reviewers)  BY <2>1, <2>2, SeqDef
  <2> QED  BY <2>3 DEF s
<1> QED  BY <1>5 DEF Recipients

LEMMA StartRefreshEffect ==
  ASSUME SlackTypeOK, NEW k \in Clicks, NEW o, StartRefresh(k, o)
  PROVE  /\ job' \in [Clicks -> Handlers] /\ \A q \in Clicks : q # k => job'[q] = job[q]
         /\ job'[k].at \in {"done", "assemble"} /\ (job'[k].at = "assemble" => job'[k].todo # <<>>)
<1>1. CASE Recipients(o) = <<>>
  <2>1. Finish(k)  BY <1>1 DEF StartRefresh, Finish
  <2> QED  BY <2>1, FinishEffect
<1>2. CASE Recipients(o) # <<>>
  <2>1. PICK todo \in Seq(Reviewers) : todo = Recipients(o)  BY RecipientsType
  <2> DEFINE one == [NoJob EXCEPT !.at = "assemble"]
             next == [one EXCEPT !.todo = todo]
  <2>2. job' = [job EXCEPT ![k] = next]  BY <1>2, <2>1 DEF StartRefresh
  <2>3. one \in Handlers /\ one.at = "assemble"  BY JobAt DEF JobPoints
  <2> HIDE DEF one
  <2>4. next \in Handlers /\ next.at = "assemble" /\ next.todo = todo  BY <2>3 DEF Handlers
  <2> HIDE DEF next
  <2> QED  BY <1>2, <2>1, <2>2, <2>4, JobEffect
<1> QED  BY <1>1, <1>2

LEMMA OpenViewStep ==
  ASSUME SlackInv, NEW k \in Clicks, OpenView(k)
  PROVE  SlackInv'
<1>1. /\ modal' \in [Clicks -> Modals] /\ \A q \in Clicks : q # k => modal'[q] = modal[q]
      /\ modal'[k].open = TRUE /\ modal'[k].o = modal[k].o /\ modal'[k].r = modal[k].r
      /\ modal'[k].decision = modal[k].decision /\ modal'[k].tier = modal[k].tier
  BY OpenEffect DEF SlackInv, OpenView
<1>2. /\ job' \in [Clicks -> Handlers] /\ \A q \in Clicks : q # k => job'[q] = job[q]
      /\ job'[k].at \in {"done", "assemble"} /\ (job'[k].at = "assemble" => job'[k].todo # <<>>)
  <2>1. CASE Finish(k)  BY <2>1, FinishEffect DEF SlackInv
  <2>2. CASE StartRefresh(k, modal[k].o)  BY <2>2, StartRefreshEffect DEF SlackInv
  <2> QED  BY <2>1, <2>2 DEF OpenView
<1>3. SlackTypeOK'
  BY <1>1, <1>2 DEF SlackInv, SlackTypeOK, OpenView, gateVars, storeVars, Modals, Handlers
<1>4. \A q \in Clicks : q # k => SameClick(q)  BY <1>1, <1>2 DEF SameClick, OpenView
<1>5. ClickOK(k)'
  <2>1. job[k].at = "open"  BY DEF OpenView
  <2>2. ClickKnows(k)'
    BY <1>1, <2>1 DEF SlackInv, ClickOK, ClickKnows, OnWire, OpenView, gateVars
  <2>3. RefreshOK(k)'  BY <1>2 DEF RefreshOK, Refreshing
  <2>4. SubmissionOK(k)'
    BY <1>1, <2>1 DEF SlackInv, ClickOK, SubmissionOK, OnWire, Opening, OpenView
  <2> QED  BY <2>2, <2>3, <2>4 DEF ClickOK
<1>6. CardsOK'  BY CardsStay DEF SlackInv, OpenView, gateVars
<1> QED  BY <1>3, <1>4, <1>5, <1>6, OneClick DEF OpenView, gateVars, storeVars

\* The card made for a recipient says what that recipient may know.
LEMMA CardForIsTrue ==
  ASSUME SlackTypeOK, NEW o \in Obligations, NEW r \in Reviewers, NEW tier
  PROVE  CardFor(o, r, tier) \in Cards /\ TrueCard(CardFor(o, r, tier), o, r)
<1>1. Len(Visible(o, r)) >= 1 => HasReviewed(o, r)  BY DEF Visible
<1>2. Len(Visible(o, r)) >= 2 => HasReviewed(o, r) /\ Len(reviews[o]) >= 2  BY DEF Visible
<1>3. Len(Visible(o, r)) = 1 => HasReviewed(o, r)  BY DEF Visible
<1> QED  BY <1>1, <1>2, <1>3 DEF CardFor, TrueCard, Cards

LEMMA AssembleStep ==
  ASSUME SlackInv, NEW k \in Clicks, Assemble(k)
  PROVE  SlackInv'
<1> DEFINE o == modal[k].o
           r == Head(job[k].todo)
<1>1. job[k].at = "assemble"  BY DEF Assemble
<1>2. o \in Obligations  BY <1>1 DEF SlackInv, SlackTypeOK, ClickOK, ClickKnows
<1>3. job \in [Clicks -> Handlers] /\ job[k] \in Handlers  BY DEF SlackInv, SlackTypeOK, Handlers
<1>4. job[k].todo \in Seq(Reviewers) /\ job[k].todo # <<>> /\ r \in Reviewers
  BY <1>1, <1>3 DEF SlackInv, ClickOK, RefreshOK, Refreshing, Handlers
<1>5. PICK card \in Cards : card = CardFor(o, r, runTier[o]) /\ TrueCard(card, o, r)
  BY <1>2, <1>4, CardForIsTrue DEF SlackInv
<1> DEFINE one == [job[k] EXCEPT !.at = "update"]
           next == [one EXCEPT !.card = card]
<1>6. one \in Handlers /\ one.at = "update" /\ one.todo = job[k].todo  BY <1>3 DEF Handlers, JobPoints
<1>7. next \in Handlers /\ next.at = "update" /\ next.todo = job[k].todo /\ next.card = card
  BY <1>6 DEF Handlers
<1>8. job' = [job EXCEPT ![k] = next]
  <2>1. job' = [job EXCEPT ![k].at = "update", ![k].card = card]  BY <1>5 DEF Assemble
  <2>2. [job EXCEPT ![k].at = "update"] = [job EXCEPT ![k] = one]  OBVIOUS
  <2>3. [[job EXCEPT ![k] = one] EXCEPT ![k].card = card] = [job EXCEPT ![k] = next]  BY <1>3
  <2> QED  BY <2>1, <2>2, <2>3
<1> HIDE DEF next
<1>9. job' \in [Clicks -> Handlers] /\ job'[k] = next /\ \A q \in Clicks : q # k => job'[q] = job[q]
  BY <1>7, <1>8, JobEffect DEF SlackInv
<1>10. RefreshOK(k)'
  BY <1>4, <1>5, <1>7, <1>9 DEF RefreshOK, Refreshing, TrueCard, HasReviewed, Assemble, gateVars
<1>11. slots' \in [Obligations -> Slots]  BY DEF SlackInv, SlackTypeOK, Assemble, gateVars
<1> QED  BY <1>1, <1>7, <1>9, <1>10, <1>11, HandlerStep DEF Assemble, gateVars, Opening

LEMMA UpdateCardStep ==
  ASSUME SlackInv, NEW k \in Clicks, UpdateCard(k)
  PROVE  SlackInv'
<1> DEFINE o == modal[k].o
           r == Head(job[k].todo)
           rest == Tail(job[k].todo)
<1>1. job[k].at = "update"  BY DEF UpdateCard
<1>2. o \in Obligations  BY <1>1 DEF SlackInv, SlackTypeOK, ClickOK, ClickKnows
<1>3. job \in [Clicks -> Handlers] /\ job[k] \in Handlers  BY DEF SlackInv, SlackTypeOK, Handlers
<1>4. /\ job[k].todo \in Seq(Reviewers) /\ job[k].todo # <<>> /\ r \in Reviewers /\ rest \in Seq(Reviewers)
      /\ job[k].card \in Cards /\ TrueCard(job[k].card, o, r)
  BY <1>1, <1>3 DEF SlackInv, ClickOK, RefreshOK, Refreshing, Handlers
<1>5. /\ job' \in [Clicks -> Handlers] /\ \A q \in Clicks : q # k => job'[q] = job[q]
      /\ job'[k].at \in {"done", "assemble"} /\ (job'[k].at = "assemble" => job'[k].todo # <<>>)
  <2>1. CASE rest = <<>>
    <3>1. Finish(k)  BY <2>1 DEF UpdateCard, Finish
    <3> QED  BY <3>1, FinishEffect DEF SlackInv
  <2>2. CASE rest # <<>>
    <3> DEFINE one == [NoJob EXCEPT !.at = "assemble"]
               next == [one EXCEPT !.todo = rest]
    <3>1. job' = [job EXCEPT ![k] = next]  BY <2>2 DEF UpdateCard
    <3>2. one \in Handlers /\ one.at = "assemble"  BY JobAt DEF JobPoints
    <3> HIDE DEF one
    <3>3. next \in Handlers /\ next.at = "assemble" /\ next.todo = rest  BY <1>4, <3>2 DEF Handlers
    <3> HIDE DEF next
    <3> QED  BY <2>2, <3>1, <3>3, JobEffect DEF SlackInv
  <2> QED  BY <2>1, <2>2
<1>6. /\ shown' \in [Obligations \X Reviewers -> Cards] /\ shown'[<<o, r>>] = job[k].card
      /\ \A p \in Obligations, s \in Reviewers : <<p, s>> # <<o, r>> => shown'[<<p, s>>] = shown[<<p, s>>]
  BY <1>2, <1>4 DEF SlackInv, SlackTypeOK, UpdateCard
<1>7. SlackTypeOK'
  BY <1>5, <1>6 DEF SlackInv, SlackTypeOK, UpdateCard, gateVars, storeVars, Handlers
<1>8. \A q \in Clicks : q # k => SameClick(q)  BY <1>5 DEF SameClick, UpdateCard
<1>9. ClickOK(k)'
  <2>1. ClickKnows(k)'
    BY <1>1, <1>5 DEF SlackInv, ClickOK, ClickKnows, OnWire, UpdateCard, gateVars
  <2>2. RefreshOK(k)'  BY <1>5 DEF RefreshOK, Refreshing
  <2>3. SubmissionOK(k)'
    BY <1>5 DEF SlackInv, ClickOK, SubmissionOK, OnWire, Opening, UpdateCard
  <2> QED  BY <2>1, <2>2, <2>3 DEF ClickOK
<1>10. CardsOK'
  <2> SUFFICES ASSUME NEW p \in Obligations, NEW s \in Reviewers
               PROVE  TrueCard(shown[<<p, s>>], p, s)'
    BY DEF CardsOK
  <2>1. CASE <<p, s>> = <<o, r>>
    BY <1>4, <1>6, <2>1 DEF TrueCard, HasReviewed, UpdateCard, gateVars
  <2>2. CASE <<p, s>> # <<o, r>>
    BY <1>6, <2>2 DEF SlackInv, CardsOK, TrueCard, HasReviewed, UpdateCard, gateVars
  <2> QED  BY <2>1, <2>2
<1> QED  BY <1>7, <1>8, <1>9, <1>10, OneClick DEF UpdateCard, gateVars, storeVars

(***************************************************************************)
(* A decision reaches the gate, and a restart.                             *)
(***************************************************************************)
LEMMA OneMoreReview ==
  ASSUME NEW s \in Seq(Review), NEW review \in Review
  PROVE  /\ Append(s, review) \in Seq(Review) /\ Len(s) \in Nat
         /\ Len(Append(s, review)) = Len(s) + 1
         /\ \A i \in DOMAIN s : i \in DOMAIN Append(s, review) /\ Append(s, review)[i] = s[i]
         /\ Len(s) + 1 \in DOMAIN Append(s, review)
         /\ Append(s, review)[Len(s) + 1] = review
         /\ \A i \in DOMAIN Append(s, review) : i \in DOMAIN s \/ i = Len(s) + 1
  OBVIOUS

\* The gate adds a review of somebody who had made none.
LEMMA ReviewAdded ==
  ASSUME SlackTypeOK, NEW o \in Obligations, NEW r \in Reviewers, NEW review \in Review, review.reviewer = r,
         reviews' = [reviews EXCEPT ![o] = Append(reviews[o], review)]
  PROVE  /\ reviews' \in [Obligations -> Seq(Review)]
         /\ \A p \in Obligations : p # o => reviews'[p] = reviews[p]
         /\ Len(reviews[o]) \in Nat /\ Len(reviews'[o]) = Len(reviews[o]) + 1
         /\ HasReviewed(o, r)'
         /\ \A p \in Obligations : \A s : HasReviewed(p, s) => HasReviewed(p, s)'
         /\ \A p \in Obligations : Len(reviews[p]) >= 2 => Len(reviews'[p]) >= 2
         /\ ~HasReviewed(o, r) /\ ReviewsOK(o) =>
              \A i, j \in DOMAIN reviews'[o] : reviews'[o][i].reviewer = reviews'[o][j].reviewer => i = j
<1> DEFINE last == Len(reviews[o]) + 1
<1>1. reviews \in [Obligations -> Seq(Review)] /\ reviews[o] \in Seq(Review)  BY DEF SlackTypeOK
<1>2. /\ Append(reviews[o], review) \in Seq(Review) /\ Len(reviews[o]) \in Nat
      /\ Len(Append(reviews[o], review)) = Len(reviews[o]) + 1
      /\ \A i \in DOMAIN reviews[o] : /\ i \in DOMAIN Append(reviews[o], review)
                                      /\ Append(reviews[o], review)[i] = reviews[o][i]
      /\ last \in DOMAIN Append(reviews[o], review) /\ Append(reviews[o], review)[last] = review
      /\ \A i \in DOMAIN Append(reviews[o], review) : i \in DOMAIN reviews[o] \/ i = last
  BY <1>1, OneMoreReview
<1>3. /\ reviews' \in [Obligations -> Seq(Review)] /\ reviews'[o] = Append(reviews[o], review)
      /\ \A p \in Obligations : p # o => reviews'[p] = reviews[p]
  BY <1>1, <1>2
<1>4. Len(reviews'[o]) = Len(reviews[o]) + 1  BY <1>2, <1>3
<1>5. HasReviewed(o, r)'  BY <1>2, <1>3 DEF HasReviewed
<1>6. ASSUME NEW p \in Obligations, NEW s, HasReviewed(p, s) PROVE HasReviewed(p, s)'
  <2>1. PICK i \in DOMAIN reviews[p] : reviews[p][i].reviewer = s  BY <1>6 DEF HasReviewed
  <2>2. i \in DOMAIN reviews'[p] /\ reviews'[p][i] = reviews[p][i]
    <3>1. CASE p = o  BY <1>2, <1>3, <2>1, <3>1
    <3>2. CASE p # o  BY <1>3, <2>1, <3>2
    <3> QED  BY <3>1, <3>2
  <2> QED  BY <2>1, <2>2 DEF HasReviewed
<1>7. ASSUME NEW p \in Obligations, Len(reviews[p]) >= 2 PROVE Len(reviews'[p]) >= 2
  <2>1. CASE p = o  BY <1>2, <1>4, <1>7, <2>1
  <2>2. CASE p # o  BY <1>3, <1>7, <2>2
  <2> QED  BY <2>1, <2>2
<1>8. ASSUME ~HasReviewed(o, r), ReviewsOK(o), NEW i \in DOMAIN reviews'[o], NEW j \in DOMAIN reviews'[o],
             reviews'[o][i].reviewer = reviews'[o][j].reviewer
      PROVE  i = j
  <2>1. \A n \in DOMAIN reviews[o] : reviews'[o][n] = reviews[o][n] /\ reviews[o][n].reviewer # r
    BY <1>2, <1>3, <1>8 DEF HasReviewed
  <2>2. reviews'[o][last].reviewer = r  BY <1>2, <1>3
  <2>3. i \in DOMAIN reviews[o] \/ i = last  BY <1>2, <1>3
  <2>4. j \in DOMAIN reviews[o] \/ j = last  BY <1>2, <1>3
  <2>5. CASE i \in DOMAIN reviews[o] /\ j \in DOMAIN reviews[o]
    BY <1>8, <2>1, <2>5 DEF ReviewsOK
  <2>6. CASE i = last /\ j \in DOMAIN reviews[o]  BY <1>8, <2>1, <2>2, <2>6
  <2>7. CASE i \in DOMAIN reviews[o] /\ j = last  BY <1>8, <2>1, <2>2, <2>7
  <2> QED  BY <2>3, <2>4, <2>5, <2>6, <2>7
<1> QED  BY <1>2, <1>3, <1>4, <1>5, <1>6, <1>7, <1>8

\* A Tier B card is replaced by a confirmation for the one who decided.
LEMMA ConfirmEffect ==
  ASSUME SlackTypeOK, NEW k \in Clicks, NEW r \in Reviewers,
         job' = [job EXCEPT ![k] = [NoJob EXCEPT !.at = "update", !.todo = <<r>>, !.card = "closed"]]
  PROVE  /\ job' \in [Clicks -> Handlers] /\ \A q \in Clicks : q # k => job'[q] = job[q]
         /\ job'[k].at = "update" /\ job'[k].todo = <<r>> /\ job'[k].card = "closed"
<1> DEFINE one == [NoJob EXCEPT !.at = "update"]
           two == [one EXCEPT !.todo = <<r>>]
           next == [two EXCEPT !.card = "closed"]
<1>1. one \in Handlers /\ one.at = "update"  BY JobAt DEF JobPoints
<1>2. job' = [job EXCEPT ![k] = next]  OBVIOUS
<1>3. <<r>> \in Seq(Reviewers)  OBVIOUS
<1> HIDE DEF one
<1>4. two \in Handlers /\ two.at = "update" /\ two.todo = <<r>>  BY <1>1, <1>3 DEF Handlers
<1> HIDE DEF two
<1>5. next \in Handlers /\ next.at = "update" /\ next.todo = <<r>> /\ next.card = "closed"
  BY <1>4 DEF Handlers, Cards
<1> HIDE DEF next
<1> QED  BY <1>2, <1>5, JobEffect

LEMMA ResumeReviewStep ==
  ASSUME SlackInv, NEW k \in Clicks, ResumeReview(k)
  PROVE  SlackInv'
<1>1. job[k].at = "resume"  BY DEF ResumeReview
<1>2. PICK o \in Obligations, r \in Reviewers, tier \in Tiers :
        /\ o = modal[k].o /\ r = modal[k].r /\ tier = modal[k].tier
        /\ modal[k].decision \in Decisions /\ (~restarted => tier = runTier[o])
  BY <1>1 DEF SlackInv, SlackTypeOK, ClickOK, ClickKnows
<1>3. PICK review \in Review : review = [reviewer |-> r, decision |-> modal[k].decision] /\ review.reviewer = r
  <2> DEFINE new == [reviewer |-> r, decision |-> modal[k].decision]
  <2>1. new \in Review /\ new.reviewer = r  BY <1>2 DEF Review
  <2> HIDE DEF new
  <2>2. PICK review \in Review : review = new  BY <2>1
  <2> QED  BY <2>1, <2>2 DEF new
<1>4. slots' \in [Obligations -> Slots] /\ modal' = modal  BY DEF SlackInv, SlackTypeOK, ResumeReview
<1>5. CASE ~Accepts(o, r, tier)
  <2>1. StartRefresh(k, o) /\ UNCHANGED <<reviews, decided>>  BY <1>2, <1>5 DEF ResumeReview
  <2>2. /\ job' \in [Clicks -> Handlers] /\ \A q \in Clicks : q # k => job'[q] = job[q]
        /\ job'[k].at \in {"done", "assemble"} /\ (job'[k].at = "assemble" => job'[k].todo # <<>>)
    BY <2>1, StartRefreshEffect DEF SlackInv
  <2>3. RefreshOK(k)'  BY <2>2 DEF RefreshOK, Refreshing
  <2> QED  BY <1>1, <1>4, <2>1, <2>2, <2>3, HandlerStep DEF ResumeReview, Opening
<1>6. CASE Accepts(o, r, tier)
  <2>1. reviews' = [reviews EXCEPT ![o] = Append(reviews[o], review)]  BY <1>2, <1>3, <1>6 DEF ResumeReview
  <2>2. /\ reviews' \in [Obligations -> Seq(Review)]
        /\ \A p \in Obligations : p # o => reviews'[p] = reviews[p]
        /\ Len(reviews[o]) \in Nat /\ Len(reviews'[o]) = Len(reviews[o]) + 1
        /\ HasReviewed(o, r)'
        /\ \A p \in Obligations : \A s : HasReviewed(p, s) => HasReviewed(p, s)'
        /\ \A p \in Obligations : Len(reviews[p]) >= 2 => Len(reviews'[p]) >= 2
        /\ ~HasReviewed(o, r) /\ ReviewsOK(o) =>
             \A i, j \in DOMAIN reviews'[o] : reviews'[o][i].reviewer = reviews'[o][j].reviewer => i = j
    BY <1>3, <2>1, ReviewAdded DEF SlackInv
  <2>3. ~HasReviewed(o, r) /\ Len(reviews[o]) < Required(tier) /\ o \notin decided
    BY <1>6 DEF Accepts
  <2>4. decided' = IF Len(reviews[o]) + 1 = Required(tier) THEN decided \cup {o} ELSE decided
    BY <1>2, <1>6 DEF ResumeReview
  <2>5. Grows  BY <2>2 DEF Grows, ResumeReview
  <2>6. /\ job' \in [Clicks -> Handlers] /\ \A q \in Clicks : q # k => job'[q] = job[q]
        /\ job'[k].at \in {"done"} \cup Refreshing
        /\ job'[k].at \in Refreshing => job'[k].todo # <<>>
        /\ job'[k].at = "update" => job'[k].card = "closed" /\ Head(job'[k].todo) = r
    <3>1. CASE StartRefresh(k, o)  BY <3>1, StartRefreshEffect DEF SlackInv, Refreshing
    <3>2. CASE Finish(k)  BY <3>2, FinishEffect DEF SlackInv, Refreshing
    <3>3. CASE job' = [job EXCEPT ![k] = [NoJob EXCEPT !.at = "update", !.todo = <<r>>, !.card = "closed"]]
      <4>1. /\ job' \in [Clicks -> Handlers] /\ \A q \in Clicks : q # k => job'[q] = job[q]
            /\ job'[k].at = "update" /\ job'[k].todo = <<r>> /\ job'[k].card = "closed"
        BY <3>3, ConfirmEffect DEF SlackInv
      <4>2. <<r>> # <<>> /\ Head(<<r>>) = r  OBVIOUS
      <4> QED  BY <4>1, <4>2 DEF Refreshing
    <3> QED  BY <1>2, <1>6, <3>1, <3>2, <3>3 DEF ResumeReview, Finish
  <2>7. SlackTypeOK'
    BY <1>4, <2>2, <2>4, <2>6 DEF SlackInv, SlackTypeOK, ResumeReview, storeVars, Handlers
  <2>8. ClickOK(k)'
    <3>1. ClickKnows(k)'
      BY <1>1, <1>4 DEF SlackInv, ClickOK, ClickKnows, OnWire, ResumeReview
    <3>2. RefreshOK(k)'
      BY <1>2, <1>4, <2>2, <2>6 DEF RefreshOK, TrueCard
    <3>3. SubmissionOK(k)'
      BY <1>4, <2>6 DEF SlackInv, ClickOK, SubmissionOK, OnWire, Opening, Refreshing, ResumeReview
    <3> QED  BY <3>1, <3>2, <3>3 DEF ClickOK
  <2>9. ASSUME NEW q \in Clicks, q # k PROVE ClickOK(q)'
    <3>1. SameClick(q)  BY <1>4, <2>6, <2>9 DEF SameClick, ResumeReview
    <3> QED  BY <2>5, <3>1, ClickKept DEF SlackInv
  <2>10. ASSUME NEW p \in Obligations PROVE ReviewsOK(p)'
    <3>1. CASE p = o
      <4>1. ~restarted' /\ runTier'[o] # "B" /\ o \in decided' => Len(reviews'[o]) = 2
        BY <1>2, <2>2, <2>3, <2>4 DEF Required, ResumeReview
      <4>2. ReviewsOK(o)  BY DEF SlackInv
      <4> QED  BY <2>2, <2>3, <3>1, <4>1, <4>2 DEF ReviewsOK
    <3>2. CASE p # o
      BY <2>2, <2>4, <3>2 DEF SlackInv, ReviewsOK, ResumeReview
    <3> QED  BY <3>1, <3>2
  <2>11. CardsOK'
    BY <2>2 DEF SlackInv, CardsOK, TrueCard, ResumeReview
  <2> QED  BY <2>7, <2>8, <2>9, <2>10, <2>11 DEF SlackInv, ResumeReview, storeVars
<1> QED  BY <1>5, <1>6

\* A restart forgets the store, so that nothing is claimed of tiers after it.
LEMMA RestartStep ==
  ASSUME SlackInv, Restart
  PROVE  SlackInv'
<1>1. ASSUME NEW k \in Clicks
      PROVE  /\ job'[k] \in Handlers /\ job'[k].at \in {"none", "done"}
             /\ job'[k].at # "none" => job[k].at # "none"
  <2>1. PICK next \in Handlers : next.at = "done" /\ next = [NoJob EXCEPT !.at = "done"]
    BY JobAt DEF JobPoints
  <2>2. NoJob \in Handlers /\ NoJob.at = "none"  BY DEF NoJob, Handlers, JobPoints, Cards
  <2>3. job'[k] = IF job[k].at = "none" THEN NoJob ELSE next  BY <2>1 DEF Restart
  <2> QED  BY <2>1, <2>2, <2>3
<1>2. job' \in [Clicks -> Handlers]  BY <1>1 DEF Restart
<1>3. SlackTypeOK'  BY <1>2 DEF SlackInv, SlackTypeOK, Restart, gateVars, Handlers
<1>4. ASSUME NEW k \in Clicks PROVE ClickOK(k)'
  <2>1. ClickKnows(k)'
    BY <1>1 DEF SlackInv, ClickOK, ClickKnows, OnWire, Restart, gateVars
  <2>2. RefreshOK(k)'  BY <1>1 DEF RefreshOK, Refreshing
  <2>3. SubmissionOK(k)'  BY DEF SlackInv, ClickOK, SubmissionOK, OnWire, Restart
  <2> QED  BY <2>1, <2>2, <2>3 DEF ClickOK
<1>5. \A o \in Obligations : ReviewsOK(o)'  BY DEF SlackInv, ReviewsOK, Restart, gateVars
<1>6. CardsOK'  BY CardsStay DEF SlackInv, Restart, gateVars
<1> QED  BY <1>3, <1>4, <1>5, <1>6 DEF SlackInv, Restart

(***************************************************************************)
(* The theorems.                                                           *)
(***************************************************************************)
LEMMA SlackInvKept ==
  ASSUME SlackInv, [SlackNext]_slackVars
  PROVE  SlackInv'
<1>1. CASE \E k \in Clicks, o \in Obligations, r \in Reviewers, d \in Decisions : Click(k, o, r, d)
  BY <1>1, ClickStep
<1>2. CASE \E k \in Clicks, rationale \in BOOLEAN : Submit(k, rationale)  BY <1>2, SubmitStep
<1>3. CASE \E key \in seen : Expire(key)  BY <1>3, ExpireStep
<1>4. CASE \E m \in wire : Deduped(m) \/ BlockAction(m) \/ ViewSubmission(m)
  BY <1>4, DedupedStep, BlockActionStep, ViewSubmissionStep
<1>5. CASE \E k \in Clicks : JobStep(k)
  BY <1>5, ClaimSlotStep, ReadGateStep, OpenViewStep, AssembleStep, UpdateCardStep, ResumeReviewStep,
     JobFailsStep DEF JobStep
<1>6. CASE Restart  BY <1>6, RestartStep
<1>7. CASE UNCHANGED slackVars
  <2>1. SlackTypeOK'  BY <1>7 DEF SlackInv, SlackTypeOK, slackVars
  <2>2. Grows /\ \A k \in Clicks : SameClick(k)  BY <1>7 DEF Grows, HasReviewed, SameClick, slackVars
  <2>3. \A k \in Clicks : ClickOK(k)'  BY <2>2, ClickKept DEF SlackInv
  <2>4. CardsOK'  BY <1>7, CardsStay DEF SlackInv, slackVars
  <2> QED  BY <1>7, <2>1, <2>3, <2>4 DEF SlackInv, ReviewsOK, slackVars
<1> QED  BY <1>1, <1>2, <1>3, <1>4, <1>5, <1>6, <1>7 DEF SlackNext

\* Clicks, modals, handlers and cards stay in step with the gate through repeats,
\* failures, overlaps and a restart: the invariant the handlers keep together.
THEOREM SlackInvAlways == SlackSpec => []SlackInv
<1>1. SlackInit => SlackInv  BY InitSlack
<1>2. SlackInv /\ [SlackNext]_slackVars => SlackInv'  BY SlackInvKept
<1> QED  BY <1>1, <1>2, PTL DEF SlackSpec

\* Two distinct reviews make two reviewers.
LEMMA TwoReviewers ==
  ASSUME SlackTypeOK, NEW o \in Obligations, ReviewsOK(o), Len(reviews[o]) = 2
  PROVE  Cardinality({reviews[o][i].reviewer : i \in DOMAIN reviews[o]}) = 2
<1> DEFINE a == reviews[o][1].reviewer
           b == reviews[o][2].reviewer
<1>1. reviews[o] \in Seq(Review)  BY DEF SlackTypeOK
<1>2. DOMAIN reviews[o] = {1, 2}  BY <1>1
<1>3. a # b  BY <1>2 DEF ReviewsOK
<1>4. {reviews[o][i].reviewer : i \in DOMAIN reviews[o]} = {a} \cup {b}  BY <1>2
<1>5. IsFiniteSet({a}) /\ Cardinality({a}) = 1  BY FS_Singleton
<1> HIDE DEF a, b
<1>6. b \notin {a}  BY <1>3
<1>7. Cardinality({a} \cup {b}) = Cardinality({a}) + 1  BY <1>5, <1>6, FS_AddElement
<1> QED  BY <1>4, <1>5, <1>7

\* An obligation that was routed to two reviewers is decided by two of them, as
\* long as the process that sent the cards runs: the tier of each click is the
\* tier of the run (TierOf, handleBlockActions, resumeReviewStep).
THEOREM TwoAlwaysDecide == SlackSpec => []DualReviewNeedsTwo
<1>1. SlackSpec => []SlackInv  BY SlackInvAlways
<1>2. SlackInv => DualReviewNeedsTwo
  BY TwoReviewers DEF SlackInv, ReviewsOK, DualReviewNeedsTwo
<1> QED  BY <1>1, <1>2, PTL

\* A card that is locked, closed or reveals the reviews is true when it is shown
\* and stays true (assembleSlackCardModel, refreshAllCardsForObligation).
THEOREM CardsAlwaysTellFacts == SlackSpec => []CardsTellFacts
<1>1. SlackSpec => []SlackInv  BY SlackInvAlways
<1>2. SlackInv => CardsTellFacts
  BY DEF SlackInv, CardsOK, TrueCard, CardsTellFacts
<1> QED  BY <1>1, <1>2, PTL

\* What was routed to two reviewers is decided by two, and no card says of a
\* review what is not so or what its recipient must not see yet.
THEOREM SlackAlwaysTellsFacts == SlackSpec => []SlackTellsFacts
<1> QED  BY TwoAlwaysDecide, CardsAlwaysTellFacts, PTL DEF SlackTellsFacts

\* A modal is closed by the answer to a submission and by nothing else.
LEMMA OnlyAnswersClose ==
  ASSUME SlackTypeOK, SlackNext, NEW k \in Clicks, modal[k].open, ~modal'[k].open
  PROVE  \E m \in wire : Deduped(m) \/ ViewSubmission(m)
<1>1. modal \in [Clicks -> Modals]  BY DEF SlackTypeOK, Modals
<1>2. modal' # modal  OBVIOUS
<1>3. ASSUME NEW j \in Clicks, NEW o, NEW r, NEW d, Click(j, o, r, d) PROVE FALSE
  BY <1>1, <1>3 DEF Click, Modals
<1>4. ASSUME NEW j \in Clicks, NEW rationale, Submit(j, rationale) PROVE FALSE
  BY <1>1, <1>4 DEF Submit, Modals
<1>5. ASSUME NEW m \in wire, BlockAction(m) PROVE FALSE
  BY <1>1, <1>5 DEF BlockAction, Modals
<1>6. ASSUME NEW j \in Clicks, JobStep(j) PROVE FALSE
  <2>1. CASE OpenView(j)  BY <1>1, <2>1 DEF OpenView, Modals
  <2>2. CASE ~OpenView(j)
    BY <1>2, <1>6, <2>2 DEF JobStep, ClaimSlot, ReadGate, Assemble, UpdateCard, ResumeReview, JobFails
  <2> QED  BY <2>1, <2>2
<1>7. ASSUME NEW key \in seen, Expire(key) PROVE FALSE  BY <1>2, <1>7 DEF Expire
<1>8. ASSUME Restart PROVE FALSE  BY <1>2, <1>8 DEF Restart
<1> QED  BY <1>3, <1>4, <1>5, <1>6, <1>7, <1>8 DEF SlackNext

\* Reviewers who never submit a Tier C modal without a rationale: the answer that
\* closes the modal of a complete submission is the one that has it worked on; a
\* repeat that the cache drops closes none (handleViewSubmission).
THEOREM ClosedAlwaysProcessed ==
  ASSUME ~Mistakes
  PROVE  SlackSpec => ClosedMeansProcessed
<1>1. SlackSpec => []SlackInv  BY SlackInvAlways
<1>2. ASSUME SlackInv, SlackNext, NEW k \in Clicks, modal[k].open, ~modal'[k].open
      PROVE  job'[k].at = "resume"
  <2>1. PICK m \in wire : Deduped(m) \/ ViewSubmission(m)  BY <1>2, OnlyAnswersClose DEF SlackInv
  <2>2. CASE Deduped(m)
    <3>1. m \in Request /\ m.kind = "view_submission" /\ m.click = k
      BY <1>2, <2>1, <2>2 DEF SlackInv, SlackTypeOK, Deduped
    <3>2. <<"view_id", k>> \in seen  BY <2>2, <3>1, KeyIs DEF Deduped
    <3> QED  BY <1>2, <3>2 DEF SlackInv, ClickOK, SubmissionOK
  <2>3. CASE ViewSubmission(m)
    <3>1. modal' = [modal EXCEPT ![m.click].open = FALSE] /\ m.click = k
      BY <1>2, <2>3 DEF SlackInv, SlackTypeOK, ViewSubmission
    <3>2. job' = [job EXCEPT ![k] = [NoJob EXCEPT !.at = "resume"]]
      BY <1>2, <2>3, <3>1 DEF ViewSubmission
    <3>3. PICK next \in Handlers : next.at = "resume" /\ next = [NoJob EXCEPT !.at = "resume"]
      BY JobAt DEF JobPoints
    <3> QED  BY <1>2, <3>2, <3>3, JobEffect DEF SlackInv
  <2> QED  BY <2>1, <2>2, <2>3
<1>3. SlackInv /\ [SlackNext]_slackVars =>
        [\A k \in Clicks : modal[k].submitted /\ modal[k].open /\ ~modal'[k].open => job'[k].at = "resume"]_slackVars
  BY <1>2
<1> QED  BY <1>1, <1>3, PTL DEF SlackSpec, ClosedMeansProcessed

-----------------------------------------------------------------------------
(***************************************************************************)
(* The reminders.                                                          *)
(***************************************************************************)
Pairs == Obligations \X Claimants
PairOf(e) == <<e.o, e.r>>
OnTheWay(c) == {PairOf(e) : e \in ToSet(cycle[c].items)}

\* A pair that is never returned by the feed again.
Marked(p) == p \in marks \/ run[p[1]].step = "cleared"

CycleOK(c) ==
  LET items == cycle[c].items
  IN /\ cycle[c].at = "idle" => items = <<>>
     /\ cycle[c].at = "items" => items # <<>>
     /\ \A i, j \in DOMAIN items : PairOf(items[i]) = PairOf(items[j]) => i = j
     /\ \A p \in OnTheWay(c) : reminded[p] = 0 /\ Marked(p)

\* An entry is in one cycle, once, and neither what is on its way nor what was
\* sent is returned again.
ReminderInv ==
  /\ ReminderTypeOK
  /\ MarksAreAccounted
  /\ \A c \in Cycles : CycleOK(c)
  /\ \A c, d \in Cycles : c # d => OnTheWay(c) \cap OnTheWay(d) = {}
  /\ \A p \in Pairs : reminded[p] <= 1 /\ (reminded[p] = 1 => Marked(p))

-----------------------------------------------------------------------------
\* SetToSeq lists the members of a finite set, each once.
LEMMA SetToSeqLists ==
  ASSUME NEW S, IsFiniteSet(S)
  PROVE  LET s == SetToSeq(S)
         IN /\ s \in Seq(S) /\ ToSet(s) = S
            /\ \A i, j \in DOMAIN s : s[i] = s[j] => i = j
<1> DEFINE n == Cardinality(S)
           s == SetToSeq(S)
<1>1. n \in Nat /\ IsFiniteSet(1..n) /\ Cardinality(1..n) = n
  BY FS_CardinalityType, FS_Interval
<1>2. ExistsBijection(1..n, S)
  BY FS_CardinalityType
<1>3. \E f \in [1..n -> S] : IsInjective(f)
  BY <1>2 DEF ExistsBijection, Bijection, Injection
<1>4. s \in [1..n -> S] /\ IsInjective(s)
  BY <1>3 DEF SetToSeq
<1>5. s \in Injection(1..n, S)
  BY <1>4 DEF Injection
<1>6. s \in Surjection(1..n, S)
  BY <1>1, <1>5, FS_Injection
<1>7. \A x \in S : \E i \in 1..n : s[i] = x
  BY <1>6 DEF Surjection
<1> HIDE DEF s, n
<1>8. s \in Seq(S) /\ DOMAIN s = 1..n
  BY <1>1, <1>4
<1>9. ToSet(s) = S
  BY <1>4, <1>7, <1>8 DEF ToSet
<1>10. \A i, j \in DOMAIN s : s[i] = s[j] => i = j
  BY <1>4 DEF IsInjective
<1> QED  BY <1>8, <1>9, <1>10 DEF s

\* What the tail of a list of entries leaves.
LEMMA TailLeaves ==
  ASSUME NEW S, NEW s \in Seq(S), s # <<>>
  PROVE  /\ Head(s) \in ToSet(s) /\ Head(s) \in S /\ Tail(s) \in Seq(S)
         /\ ToSet(Tail(s)) \subseteq ToSet(s) /\ ToSet(s) = ToSet(Tail(s)) \cup {Head(s)}
         /\ 1 \in DOMAIN s /\ Head(s) = s[1]
         /\ \A i \in DOMAIN Tail(s) : i + 1 \in DOMAIN s /\ Tail(s)[i] = s[i + 1] /\ i \in Nat
<1>1. Len(s) \in Nat /\ Len(s) >= 1 /\ DOMAIN s = 1..Len(s)
  OBVIOUS
<1>2. /\ Tail(s) \in Seq(S) /\ DOMAIN Tail(s) = 1..(Len(s) - 1) /\ \A i \in 1..(Len(s) - 1) : Tail(s)[i] = s[i + 1]
  BY <1>1
<1>3. ToSet(Tail(s)) = {s[i + 1] : i \in 1..(Len(s) - 1)}
  BY <1>2 DEF ToSet
<1>4. ToSet(s) = {s[i] : i \in 1..Len(s)}
  BY <1>1 DEF ToSet
<1>5. Head(s) = s[1] /\ 1 \in DOMAIN s
  BY <1>1
<1>6. \A i \in 1..(Len(s) - 1) : i + 1 \in 1..Len(s)
  BY <1>1
<1>7. \A i \in 1..Len(s) : i = 1 \/ (i - 1 \in 1..(Len(s) - 1) /\ (i - 1) + 1 = i)
  BY <1>1
<1>8. ToSet(s) = ToSet(Tail(s)) \cup {Head(s)}
  <2>1. ToSet(Tail(s)) \cup {Head(s)} \subseteq ToSet(s)
    BY <1>1, <1>3, <1>4, <1>5, <1>6
  <2>2. ASSUME NEW i \in 1..Len(s) PROVE s[i] \in ToSet(Tail(s)) \cup {Head(s)}
    <3>1. CASE i = 1
      BY <1>5, <3>1
    <3>2. CASE i # 1
      <4>1. i - 1 \in 1..(Len(s) - 1) /\ s[(i - 1) + 1] = s[i]
        BY <1>7, <3>2
      <4> QED  BY <1>3, <4>1
    <3> QED  BY <3>1, <3>2
  <2> QED  BY <1>4, <2>1, <2>2
<1> QED  BY <1>1, <1>2, <1>5, <1>6, <1>8

\* The entries the feed returns are finitely many, one for each pair.
LEMMA FeedEntries ==
  ASSUME ReminderTypeOK
  PROVE  LET S == {EntryOf(p) : p \in DueReminders}
         IN /\ IsFiniteSet(S) /\ S \subseteq Entry /\ {PairOf(e) : e \in S} = DueReminders
            /\ \A e, f \in S : PairOf(e) = PairOf(f) => e = f
<1> DEFINE S == {EntryOf(p) : p \in DueReminders}
           f == [p \in DueReminders |-> EntryOf(p)]
<1>1. IsFiniteSet(DueReminders)
  <2>1. IsFiniteSet(Obligations \X Claimants)
    BY ReminderAssumption, FS_Product
  <2>2. DueReminders \subseteq Obligations \X Claimants
    BY DEF DueReminders
  <2> QED  BY <2>1, <2>2, FS_Subset
<1>2. f \in Surjection(DueReminders, S)
  BY DEF Surjection
<1>3. IsFiniteSet(S)
  BY <1>1, <1>2, FS_Surjection
<1>4. ASSUME NEW p \in DueReminders PROVE EntryOf(p) \in Entry /\ PairOf(EntryOf(p)) = p
  <2>1. p[1] \in Obligations /\ p[2] \in Claimants /\ p = <<p[1], p[2]>>
    BY DEF DueReminders
  <2>2. ComputeSlaDueAt(p[1]) \in 0..(MaxTime + REVIEW_SLA_HOURS_TIER_B)
    <3>1. run[p[1]] \in Runs
      BY <2>1 DEF ReminderTypeOK
    <3>2. run[p[1]].suspendedAt \in 0..MaxTime
      BY <3>1 DEF Runs, Hours
    <3> HIDE DEF Runs
    <3> QED  BY <3>2, ReminderAssumption DEF ComputeSlaDueAt, REVIEW_SLA_HOURS_TIER_B, REVIEW_SLA_HOURS_TIER_C
  <2>3. hour \in Hours
    BY DEF ReminderTypeOK
  <2> QED  BY <2>1, <2>2, <2>3 DEF EntryOf, Entry, PairOf
<1>5. S \subseteq Entry
  BY <1>4
<1>6. {PairOf(e) : e \in S} = DueReminders
  BY <1>4
<1>7. \A e, g \in S : PairOf(e) = PairOf(g) => e = g
  BY <1>4
<1> QED  BY <1>3, <1>5, <1>6, <1>7

-----------------------------------------------------------------------------
LEMMA ReminderInitInv == ReminderInit => ReminderInv
<1> SUFFICES ASSUME ReminderInit PROVE ReminderInv
  OBVIOUS
<1>1. ReminderTypeOK
  BY ReminderAssumption DEF ReminderInit, ReminderTypeOK, Hours, Runs, NoSlots, NoCycle
<1>2. \A c \in Cycles : cycle[c].at = "idle" /\ cycle[c].items = <<>> /\ OnTheWay(c) = {}
  BY DEF ReminderInit, NoCycle, OnTheWay, ToSet
<1>3. \A c \in Cycles : CycleOK(c)
  BY <1>2 DEF CycleOK
<1>4. MarksAreAccounted /\ \A p \in Pairs : reminded[p] = 0
  BY DEF ReminderInit, MarksAreAccounted, Pairs
<1> QED  BY <1>1, <1>2, <1>3, <1>4 DEF ReminderInv

\* Steps of the index and the clock: no cycle moves.
LEMMA IndexKeeps ==
  ASSUME ReminderInv, ReminderTypeOK', UNCHANGED <<cycle, reminded, lost>>, marks' \subseteq marks,
         \A p \in Pairs : Marked(p) => Marked(p)'
  PROVE  ReminderInv'
<1>1. \A c : OnTheWay(c)' = OnTheWay(c)
  BY DEF OnTheWay
<1>2. \A c \in Cycles : OnTheWay(c) \subseteq Pairs
  <2>1. \A c \in Cycles : cycle[c].items \in Seq(Entry)
    BY DEF ReminderInv, ReminderTypeOK
  <2>2. \A c \in Cycles : ToSet(cycle[c].items) \subseteq Entry
    BY <2>1 DEF ToSet
  <2> QED  BY <2>2 DEF OnTheWay, Entry, PairOf, Pairs
<1>3. \A c \in Cycles : CycleOK(c)'
  BY <1>1, <1>2 DEF ReminderInv, CycleOK
<1>4. MarksAreAccounted'
  BY DEF ReminderInv, MarksAreAccounted
<1> QED  BY <1>1, <1>3, <1>4 DEF ReminderInv

LEMMA ReminderTickKeeps == ASSUME ReminderInv, ReminderTick PROVE ReminderInv'
<1>1. ReminderTypeOK'
  BY ReminderAssumption DEF ReminderInv, ReminderTypeOK, ReminderTick, indexVars, Hours
<1> QED  BY <1>1, IndexKeeps DEF ReminderTick, indexVars, Marked

LEMMA RecordKeeps ==
  ASSUME ReminderInv, NEW o \in Obligations, NEW tier \in {"B", "C"}, NEW step \in {"awaitHumanReview", "awaitSecondHumanReview"},
         Record(o, step, tier)
  PROVE  ReminderInv'
<1>1. ReminderTypeOK'
  BY DEF ReminderInv, ReminderTypeOK, Record, Runs
<1>2. \A p \in Pairs : Marked(p) => Marked(p)'
  BY DEF ReminderInv, ReminderTypeOK, Record, Marked, Pairs
<1> QED  BY <1>1, <1>2, IndexKeeps DEF Record

LEMMA ClaimKeeps == ASSUME ReminderInv, NEW o \in Obligations, NEW r \in Claimants, Claim(o, r) PROVE ReminderInv'
<1>1. ReminderTypeOK'
  BY ZenonT(60) DEF ReminderInv, ReminderTypeOK, Claim
<1> QED  BY <1>1, IndexKeeps DEF Claim, Marked

LEMMA ClearKeeps == ASSUME ReminderInv, NEW o \in Obligations, Clear(o) PROVE ReminderInv'
<1>1. ReminderTypeOK'
  BY ZenonT(60) DEF ReminderInv, ReminderTypeOK, Clear, Runs, NoSlots
<1>2. \A p \in Pairs : Marked(p) => Marked(p)'
  BY DEF ReminderInv, ReminderTypeOK, Clear, Marked, Pairs
<1> QED  BY <1>1, <1>2, IndexKeeps DEF Clear

-----------------------------------------------------------------------------
LEMMA FeedKeeps == ASSUME ReminderInv, NEW c \in Cycles, Feed(c) PROVE ReminderInv'
<1> DEFINE S == {EntryOf(p) : p \in DueReminders}
           s == SetToSeq(S)
<1>1. /\ IsFiniteSet(S) /\ S \subseteq Entry /\ {PairOf(e) : e \in S} = DueReminders
      /\ \A e, f \in S : PairOf(e) = PairOf(f) => e = f
  BY FeedEntries DEF ReminderInv
<1>2. cycle' = [cycle EXCEPT ![c] = [at |-> "answer", items |-> s]] /\ cycle[c].at = "idle"
      /\ marks' = marks \cup DueReminders /\ UNCHANGED <<hour, run, claims, reminded, lost>>
  BY DEF Feed
<1> HIDE DEF S
<1>3. s \in Seq(S) /\ ToSet(s) = S /\ \A i, j \in DOMAIN s : s[i] = s[j] => i = j
  BY <1>1, SetToSeqLists
<1> HIDE DEF s
<1>4. s \in Seq(Entry) /\ \A i \in DOMAIN s : s[i] \in S
  BY <1>1, <1>3 DEF ToSet
<1>5. cycle'[c] = [at |-> "answer", items |-> s] /\ \A d \in Cycles \ {c} : cycle'[d] = cycle[d]
  BY <1>2 DEF ReminderInv, ReminderTypeOK
<1>6. OnTheWay(c)' = DueReminders /\ OnTheWay(c) = {} /\ \A d \in Cycles \ {c} : OnTheWay(d)' = OnTheWay(d)
  <2>1. OnTheWay(c)' = DueReminders
    BY <1>1, <1>3, <1>5 DEF OnTheWay
  <2>2. OnTheWay(c) = {}
    BY <1>2 DEF ReminderInv, CycleOK, OnTheWay, ToSet
  <2>3. \A d \in Cycles \ {c} : OnTheWay(d)' = OnTheWay(d)
    BY <1>5 DEF OnTheWay
  <2> QED  BY <2>1, <2>2, <2>3
<1>7. \A p \in DueReminders : p \in Pairs /\ ~Marked(p)
  BY DEF DueReminders, DueSoon, Suspended, Marked, Pairs
<1>8. \A p \in DueReminders : reminded[p] = 0 /\ \A d \in Cycles : p \notin OnTheWay(d)
  <2>1. \A p \in Pairs : reminded[p] \in {0, 1, 2}
    BY DEF ReminderInv, ReminderTypeOK, Pairs
  <2> QED  BY <1>7, <2>1 DEF ReminderInv, CycleOK
<1>9. \A p : Marked(p) => Marked(p)'
  BY <1>2 DEF Marked
<1>10. ReminderTypeOK'
  <2>1. marks' \subseteq Obligations \X Claimants
    BY <1>2, <1>7 DEF ReminderInv, ReminderTypeOK, Pairs
  <2>2. cycle' \in [Cycles -> [at: {"idle", "answer", "items"}, items: Seq(Entry)]]
    BY <1>2, <1>4 DEF ReminderInv, ReminderTypeOK
  <2> QED  BY <1>2, <2>1, <2>2 DEF ReminderInv, ReminderTypeOK
<1>11. MarksAreAccounted'
  <2>1. SUFFICES ASSUME NEW p \in marks'
                 PROVE  reminded'[p] > 0 \/ p \in lost' \/ \E d \in Cycles : p \in OnTheWay(d)'
    BY DEF MarksAreAccounted, OnTheWay, PairOf
  <2>2. CASE p \in DueReminders
    BY <1>6, <2>2
  <2>3. CASE p \in marks
    <3>1. reminded[p] > 0 \/ p \in lost \/ \E d \in Cycles : p \in OnTheWay(d)
      BY <2>3 DEF ReminderInv, MarksAreAccounted, OnTheWay, PairOf
    <3> QED  BY <1>2, <1>6, <3>1
  <2> QED  BY <1>2, <2>2, <2>3
<1>12. CycleOK(c)'
  <2>1. \A i, j \in DOMAIN s : PairOf(s[i]) = PairOf(s[j]) => i = j
    BY <1>1, <1>3, <1>4
  <2>2. \A p \in DueReminders : reminded'[p] = 0 /\ Marked(p)'
    BY <1>2, <1>8 DEF Marked
  <2> QED  BY <1>5, <1>6, <2>1, <2>2 DEF CycleOK
<1>13. \A d \in Cycles \ {c} : CycleOK(d)'
  BY <1>2, <1>5, <1>6, <1>9 DEF ReminderInv, CycleOK
<1>14. \A a, b \in Cycles : a # b => OnTheWay(a)' \cap OnTheWay(b)' = {}
  BY <1>6, <1>8 DEF ReminderInv
<1>15. \A p \in Pairs : reminded'[p] <= 1 /\ (reminded'[p] = 1 => Marked(p)')
  BY <1>2, <1>9 DEF ReminderInv
<1> QED  BY <1>10, <1>11, <1>12, <1>13, <1>14, <1>15 DEF ReminderInv

\* A cycle goes on with the same entries, or fewer; the ones it drops are sent
\* or lost.
LEMMA CycleGoesOn ==
  ASSUME ReminderInv, NEW c \in Cycles, NEW at \in {"idle", "answer", "items"}, NEW s \in Seq(Entry),
         cycle' = [cycle EXCEPT ![c] = [at |-> at, items |-> s]], UNCHANGED <<hour, indexVars>>,
         at = "idle" => s = <<>>, at = "items" => s # <<>>,
         \A i, j \in DOMAIN s : PairOf(s[i]) = PairOf(s[j]) => i = j,
         {PairOf(e) : e \in ToSet(s)} \subseteq OnTheWay(c),
         lost \subseteq lost', lost' \subseteq Pairs, reminded' \in [Pairs -> 0..2],
         \A p \in Pairs : reminded'[p] = reminded[p]
                            \/ (reminded'[p] = 1 /\ p \in OnTheWay(c) /\ p \notin {PairOf(e) : e \in ToSet(s)}),
         \A p \in OnTheWay(c) \ {PairOf(e) : e \in ToSet(s)} : reminded'[p] > 0 \/ p \in lost'
  PROVE  ReminderInv'
<1>1. cycle'[c] = [at |-> at, items |-> s] /\ \A d \in Cycles \ {c} : cycle'[d] = cycle[d]
  BY DEF ReminderInv, ReminderTypeOK
<1>2. OnTheWay(c)' = {PairOf(e) : e \in ToSet(s)} /\ \A d \in Cycles \ {c} : OnTheWay(d)' = OnTheWay(d)
  BY <1>1 DEF OnTheWay
<1>3. \A d \in Cycles : OnTheWay(d) \subseteq Pairs
  <2>1. \A d \in Cycles : cycle[d].items \in Seq(Entry)
    BY DEF ReminderInv, ReminderTypeOK
  <2>2. \A d \in Cycles : ToSet(cycle[d].items) \subseteq Entry
    BY <2>1 DEF ToSet
  <2> QED  BY <2>2 DEF OnTheWay, Entry, PairOf, Pairs
<1>4. \A p : Marked(p)' <=> Marked(p)
  BY DEF Marked, indexVars
<1>5. ReminderTypeOK'
  <2>1. cycle' \in [Cycles -> [at: {"idle", "answer", "items"}, items: Seq(Entry)]]
    BY DEF ReminderInv, ReminderTypeOK
  <2>2. reminded' \in [Obligations \X Claimants -> 0..2] /\ lost' \subseteq Obligations \X Claimants
    BY DEF Pairs
  <2> QED  BY <2>1, <2>2 DEF ReminderInv, ReminderTypeOK, indexVars
<1>6. MarksAreAccounted'
  <2>1. SUFFICES ASSUME NEW p \in marks
                 PROVE  reminded'[p] > 0 \/ p \in lost' \/ \E d \in Cycles : p \in OnTheWay(d)'
    BY DEF MarksAreAccounted, OnTheWay, PairOf, indexVars
  <2>2. p \in Pairs
    BY DEF ReminderInv, ReminderTypeOK, Pairs
  <2>3. reminded[p] > 0 \/ p \in lost \/ \E d \in Cycles : p \in OnTheWay(d)
    BY DEF ReminderInv, MarksAreAccounted, OnTheWay, PairOf
  <2>4. CASE reminded[p] > 0
    BY <2>2, <2>4
  <2>5. CASE \E d \in Cycles : p \in OnTheWay(d)
    BY <1>2, <2>5
  <2> QED  BY <2>3, <2>4, <2>5
<1>7. \A d \in Cycles : CycleOK(d)'
  <2>1. \A p \in OnTheWay(c)' : reminded'[p] = 0 /\ Marked(p)'
    BY <1>2, <1>3, <1>4 DEF ReminderInv, CycleOK
  <2>2. CycleOK(c)'
    BY <1>1, <2>1 DEF CycleOK
  <2>3. ASSUME NEW d \in Cycles \ {c} PROVE CycleOK(d)'
    <3>1. \A p \in OnTheWay(d) : p \in Pairs /\ p \notin OnTheWay(c)
      BY <1>3 DEF ReminderInv
    <3>2. \A p \in OnTheWay(d) : reminded'[p] = reminded[p]
      BY <3>1
    <3> QED  BY <1>1, <1>2, <1>4, <3>2 DEF ReminderInv, CycleOK
  <2> QED  BY <2>2, <2>3
<1>8. \A a, b \in Cycles : a # b => OnTheWay(a)' \cap OnTheWay(b)' = {}
  BY <1>2 DEF ReminderInv
<1>9. \A p \in Pairs : reminded'[p] <= 1 /\ (reminded'[p] = 1 => Marked(p)')
  BY <1>4 DEF ReminderInv, CycleOK
<1> QED  BY <1>5, <1>6, <1>7, <1>8, <1>9 DEF ReminderInv

LEMMA AnsweredKeeps == ASSUME ReminderInv, NEW c \in Cycles, Answered(c) PROVE ReminderInv'
<1> DEFINE s == cycle[c].items
           at == IF s = <<>> THEN "idle" ELSE "items"
<1>1. s \in Seq(Entry) /\ at \in {"idle", "answer", "items"}
  BY DEF ReminderInv, ReminderTypeOK
<1>2. cycle' = [cycle EXCEPT ![c] = [at |-> at, items |-> s]] /\ UNCHANGED <<hour, indexVars, reminded, lost>>
  BY DEF Answered, After, NoCycle
<1>3. {PairOf(e) : e \in ToSet(s)} = OnTheWay(c) /\ \A i, j \in DOMAIN s : PairOf(s[i]) = PairOf(s[j]) => i = j
  BY DEF OnTheWay, ReminderInv, CycleOK
<1>4. reminded \in [Pairs -> 0..2] /\ lost \subseteq Pairs
  BY DEF ReminderInv, ReminderTypeOK, Pairs
<1>5. (at = "idle" => s = <<>>) /\ (at = "items" => s # <<>>)
  OBVIOUS
<1> HIDE DEF s, at
<1> QED  BY <1>1, <1>2, <1>3, <1>4, <1>5, CycleGoesOn

LEMMA FeedFailsKeeps == ASSUME ReminderInv, NEW c \in Cycles, FeedFails(c) PROVE ReminderInv'
<1>1. /\ cycle' = [cycle EXCEPT ![c] = [at |-> "idle", items |-> <<>>]] /\ UNCHANGED <<hour, indexVars, reminded>>
      /\ lost' = lost \cup OnTheWay(c)
  BY DEF FeedFails, NoCycle, OnTheWay, PairOf
<1>2. OnTheWay(c) \subseteq Pairs
  <2>1. cycle[c].items \in Seq(Entry)
    BY DEF ReminderInv, ReminderTypeOK
  <2>2. ToSet(cycle[c].items) \subseteq Entry
    BY <2>1 DEF ToSet
  <2> QED  BY <2>2 DEF OnTheWay, Entry, PairOf, Pairs
<1>3. reminded \in [Pairs -> 0..2] /\ lost \subseteq Pairs
  BY DEF ReminderInv, ReminderTypeOK, Pairs
<1>4. <<>> \in Seq(Entry) /\ ToSet(<<>>) = {} /\ DOMAIN <<>> = {} /\ {PairOf(e) : e \in ToSet(<<>>)} = {}
  BY DEF ToSet
<1> QED  BY <1>1, <1>2, <1>3, <1>4, CycleGoesOn

LEMMA RemindKeeps == ASSUME ReminderInv, NEW c \in Cycles, Remind(c) PROVE ReminderInv'
<1> DEFINE s == cycle[c].items
           e == Head(s)
           here == PairOf(e)
           rest == Tail(s)
           at == IF rest = <<>> THEN "idle" ELSE "items"
<1>1. s \in Seq(Entry) /\ s # <<>> /\ CycleOK(c)
  BY SMTT(30) DEF Remind, ReminderInv, ReminderTypeOK, CycleOK
<1>2. /\ cycle' = [cycle EXCEPT ![c] = [at |-> at, items |-> rest]] /\ UNCHANGED <<hour, indexVars>>
      /\ \/ reminded' = [reminded EXCEPT ![here] = @ + 1] /\ lost' = lost
         \/ lost' = lost \cup {here} /\ reminded' = reminded
  BY DEF Remind, After, NoCycle, PairOf
<1>3. /\ e \in ToSet(s) /\ e \in Entry /\ rest \in Seq(Entry) /\ ToSet(s) = ToSet(rest) \cup {e}
      /\ 1 \in DOMAIN s /\ e = s[1]
      /\ \A i \in DOMAIN rest : i + 1 \in DOMAIN s /\ rest[i] = s[i + 1] /\ i \in Nat
  BY <1>1, TailLeaves
<1>4. at \in {"idle", "answer", "items"} /\ (at = "idle" => rest = <<>>) /\ (at = "items" => rest # <<>>)
  OBVIOUS
<1>5. \A i, j \in DOMAIN s : PairOf(s[i]) = PairOf(s[j]) => i = j
  BY <1>1 DEF CycleOK
<1> HIDE DEF rest, e, at
<1>6. OnTheWay(c) = {PairOf(x) : x \in ToSet(rest)} \cup {here}
  BY <1>3 DEF OnTheWay
<1>7. here \in Pairs /\ here \in OnTheWay(c)
  BY <1>3, <1>6 DEF Entry, PairOf, Pairs
<1>8. reminded[here] = 0
  BY <1>1, <1>7 DEF CycleOK
<1>9. here \notin {PairOf(x) : x \in ToSet(rest)}
  <2>1. SUFFICES ASSUME NEW i \in DOMAIN rest, PairOf(rest[i]) = here PROVE FALSE
    BY DEF ToSet
  <2>2. i + 1 = 1 /\ i \in Nat /\ i # 0
    <3>1. i \in 1..Len(rest)
      BY <1>3
    <3> QED  BY <1>3, <1>5, <2>1, <3>1
  <2> QED  BY <2>2
<1>10. \A i, j \in DOMAIN rest : PairOf(rest[i]) = PairOf(rest[j]) => i = j
  BY <1>3, <1>5
<1>11. reminded \in [Pairs -> 0..2] /\ lost \subseteq Pairs
  BY DEF ReminderInv, ReminderTypeOK, Pairs
<1> HIDE DEF here
<1>12. CASE reminded' = [reminded EXCEPT ![here] = @ + 1] /\ lost' = lost
  <2>1. reminded' \in [Pairs -> 0..2] /\ reminded'[here] = 1 /\ \A p \in Pairs \ {here} : reminded'[p] = reminded[p]
    BY <1>7, <1>8, <1>11, <1>12
  <2>2. \A p \in Pairs : reminded'[p] = reminded[p]
                            \/ (reminded'[p] = 1 /\ p \in OnTheWay(c) /\ p \notin {PairOf(x) : x \in ToSet(rest)})
    BY <1>7, <1>9, <2>1
  <2>3. \A p \in OnTheWay(c) \ {PairOf(x) : x \in ToSet(rest)} : reminded'[p] > 0 \/ p \in lost'
    BY <1>6, <2>1
  <2> QED  BY <1>2, <1>3, <1>4, <1>6, <1>10, <1>11, <1>12, <2>1, <2>2, <2>3, CycleGoesOn
<1>13. CASE lost' = lost \cup {here} /\ reminded' = reminded
  BY <1>2, <1>3, <1>4, <1>6, <1>7, <1>9, <1>10, <1>11, <1>13, CycleGoesOn, ZenonT(60)
<1> QED  BY <1>2, <1>12, <1>13

-----------------------------------------------------------------------------
\* The invariant of the reminders holds in every state
\* (handleSlaBreachFeedRequest, runSlaSchedulerCycle).
THEOREM ReminderInvAlways == ReminderSpec => []ReminderInv
<1>1. ReminderInit => ReminderInv
  BY ReminderInitInv
<1>2. ReminderInv /\ [ReminderNext]_remVars => ReminderInv'
  <2> SUFFICES ASSUME ReminderInv, [ReminderNext]_remVars PROVE ReminderInv'
    OBVIOUS
  <2>1. ASSUME NEW c \in Cycles, Feed(c) \/ Answered(c) \/ FeedFails(c) \/ Remind(c) PROVE ReminderInv'
    BY <2>1, FeedKeeps, AnsweredKeeps, FeedFailsKeeps, RemindKeeps
  <2>2. CASE UNCHANGED remVars
    <3>1. UNCHANGED <<hour, run, claims, marks, cycle, reminded, lost>>
      BY <2>2 DEF remVars
    <3>2. ReminderTypeOK' /\ \A p : Marked(p) => Marked(p)'
      BY <3>1 DEF ReminderInv, ReminderTypeOK, Marked
    <3> QED  BY <3>1, <3>2, IndexKeeps
  <2> QED  BY <2>1, <2>2, ReminderTickKeeps, RecordKeeps, ClaimKeeps, ClearKeeps DEF ReminderNext
<1> QED  BY <1>1, <1>2, PTL DEF ReminderSpec

\* However cycles overlap and whatever of them fails, a reviewer is reminded of
\* an obligation at most once, and what the feed marked was sent, is on its way
\* or failed by itself (sendDueSoonReminder).
THEOREM RemindersAlwaysExact == ReminderSpec => []RemindersAreExact
<1>1. ReminderInv => RemindersAreExact
  BY DEF ReminderInv, RemindersAreExact, RemindedOnce, Pairs
<1> QED  BY <1>1, ReminderInvAlways, PTL

=============================================================================
