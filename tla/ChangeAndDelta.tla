---------------------------- MODULE ChangeAndDelta ----------------------------
(***************************************************************************)
(* The change-and-delta agent (change-and-delta.core.ts): from an amending *)
(* circular and the live obligations of the circular it amends to a        *)
(* proposal of which obligations to supersede, repeal and add.  Each read  *)
(* of the graph and each call of the alignment model ends an action; runs  *)
(* of the workflow close obligations in between, and the model answers     *)
(* what it likes, or not at all.                                           *)
(*                                                                         *)
(* A text is a sequence of words; numbering tokens are fields of its       *)
(* lines.  Similarities and confidences are in hundredths.                 *)
(***************************************************************************)
EXTENDS NoValue, Naturals, Sequences, FiniteSets, SequencesExt, FiniteSetsExt

CONSTANTS
  Events,       \* trigger events
  OldClauses,   \* clauses of the target circular: [id, ref, text]
  TargetObligations,  \* obligations under the target
  ClauseOf,     \* of each, its clause
  TaskOf,       \* of each obligation, its process task, or None
  Quotes,       \* texts the model may quote
  Confidences,  \* confidences it may report
  MAX_ALIGNMENT_BATCH_SIZE,
  MaxClosures   \* obligations other runs close meanwhile

VARIABLES
  event,
  targetLive,   \* graph: the target's valid_to is NULL
  liveIn,       \* graph: obligations with valid_to = NULL
  at,
  liveObligations,  \* as read
  firstUnder,   \* of each paragraph, the one the read returned first
  unmatched,    \* candidates of the alignment still to be sent
  attempt,
  diffs,        \* clauseDiffs
  diffEntries,  \* what becomes of the obligations
  oldTasks,     \* as read
  heard,        \* history: the answers of the model
  proposal

deltaVars == <<event, targetLive, liveIn, at, liveObligations, firstUnder, unmatched, attempt, diffs, diffEntries, oldTasks, heard, proposal>>

\* Confidences, the model's and the extraction's, are percentages.
ASSUME DeltaAssumption ==
  /\ IsFiniteSet(OldClauses)
  /\ \A o \in TargetObligations : ClauseOf[o] \in OldClauses
  /\ \A e \in Events :
       /\ e.confidence \in 0..100
       /\ e.clauses \in Seq(ToSet(e.clauses)) /\ None \notin ToSet(e.clauses)
       /\ \A c \in ToSet(e.clauses) :
            c.proposals \in Seq(ToSet(c.proposals)) /\ \A p \in ToSet(c.proposals) : p.score \in 0..100
  /\ Confidences \subseteq 0..100
  /\ MAX_ALIGNMENT_BATCH_SIZE \in Nat \ {0}
  /\ None \notin OldClauses /\ None \notin TargetObligations

CLAUSE_SIMILARITY_UNCHANGED_THRESHOLD == 98
LLM_ALIGNMENT_CONFIDENCE_THRESHOLD == 60
SINGLE_PARAGRAPH_DIRECT_CONFIDENCE == 95
MARKER_SPLIT_CONFIDENCE == 95
FULL_DOC_DIRECT_MATCH_CONFIDENCE == 100
SOURCE_MATCH_MIN_SIMILARITY == 10

AlignmentMethod == {"single_paragraph_direct", "marker_regex_split", "llm_aligned", "unresolved"}
ObligationDiffAction == {"superseded", "newly_added", "repealed", "unaffected"}
Scopes == {"paragraph_amendment", "full_document_supersession", "not_applicable"}

ClauseTextDiff(d) ==
  /\ d.old \in OldClauses \cup {None}
  /\ d.similarity \in 0..100 /\ d.confidence \in 0..100
  /\ d.method \in AlignmentMethod
  /\ d.materiality \in {"unchanged", "material"}

ObligationDiffEntry(e) ==
  /\ e.action \in ObligationDiffAction
  /\ ClauseTextDiff(e.diff)
  /\ e.action \in {"superseded", "repealed"} => e.old \in TargetObligations
  /\ e.action = "newly_added" => e.old = None
  /\ (e.new # None) = (e.action \in {"superseded", "newly_added"})

UnresolvedAlignment(u) ==
  u.reason \in {"no_confident_deterministic_split", "llm_confidence_below_threshold", "old_clause_not_found"}

ChangeProposal(p) ==
  /\ \A s \in p.supersessions : s.old \in TargetObligations /\ s.redline \in {"new", "modified"}
  /\ \A s \in p.additions : s.redline = "new"
  /\ p.repeals \subseteq TargetObligations
  /\ \A u \in p.unresolvedAlignments : UnresolvedAlignment(u)
  /\ p.overallConfidence \in 0..100

\* The live obligations of a paragraph, as read.
Under(ref) == {o \in liveObligations : ClauseOf[o].ref = ref}

DeltaTypeOK ==
  /\ event \in Events /\ targetLive \in BOOLEAN
  /\ liveIn \subseteq TargetObligations /\ liveObligations \subseteq TargetObligations
  /\ \A r \in DOMAIN firstUnder : firstUnder[r] \in Under(r)
  /\ at \in {"circular", "live", "pair", "align", "classify", "tasks", "done", "failed"}
  /\ attempt \in 0..1
  /\ \A k \in DOMAIN unmatched : unmatched[k] \in OldClauses
  /\ \A d \in diffs : ClauseTextDiff(d)
  /\ \A e \in diffEntries : ObligationDiffEntry(e)
  /\ proposal = None \/ ChangeProposal(proposal)
  /\ oldTasks \subseteq TargetObligations \X {TaskOf[o] : o \in TargetObligations}

(***************************************************************************)
(* Texts.                                                                  *)
(***************************************************************************)
\* An event: its changeType, the circulars it names, the paragraphs it amends
\* (refs), the confidence of that context, and its clauses in order.  A clause
\* has its ref, its lines, the words of its preamble ("... shall read as"), and
\* what the agents upstream made of it: for each proposal of an obligation its
\* confidence and whether it is excluded, as contradictory or as not mapped.
Words(clause) == FlattenSeq([i \in DOMAIN clause.lines |-> clause.lines[i].words])

Refs == {c.ref : c \in OldClauses} \cup UNION {{e.clauses[i].ref : i \in DOMAIN e.clauses} \cup e.refs : e \in Events}

Occurrences(text, word) == Cardinality({i \in DOMAIN text : text[i] = word})

\* Dice's coefficient of the two bags of words.
Similarity(old, new) ==
  LET common == FoldSet(LAMBDA w, n : n + Min({Occurrences(old, w), Occurrences(new, w)}), 0, ToSet(old) \cap ToSet(new))
  IN IF old = <<>> /\ new = <<>> THEN 100
     ELSE IF old = <<>> \/ new = <<>> THEN 0
     ELSE (200 * common) \div (Len(old) + Len(new))

\* stripAmendmentPreamble: the text an amendment states, if it has the marker.
Stated(clause) ==
  LET text == Words(clause)
  IN IF clause.preamble = 0 \/ clause.preamble >= Len(text) THEN None
     ELSE SubSeq(text, clause.preamble + 1, Len(text))

\* splitByNumbering: lines belong to the last numbering token before them.
SplitByNumbering(lines) ==
  LET Add(found, line) ==
        LET ref == IF line.ref # None THEN line.ref ELSE found.ref
        IN [ref |-> ref,
            text |-> [r \in Refs |-> IF r # ref THEN found.text[r]
                                     ELSE IF found.text[r] = None THEN line.words ELSE found.text[r] \o line.words]]
      all == FoldLeft(Add, [ref |-> None, text |-> [r \in Refs |-> None]], lines)
  IN all.text

\* markerSplit: only if the tokens are exactly the amended paragraphs and no
\* text is empty or stands twice.
MarkerSplit(clauses, refs) ==
  LET text == SplitByNumbering(FlattenSeq([i \in DOMAIN clauses |-> clauses[i].lines]))
  IN IF /\ refs # {} /\ {r \in Refs : text[r] # None} = refs
        /\ \A r \in refs : text[r] # <<>> /\ \A s \in refs \ {r} : text[s] # text[r]
     THEN text ELSE None

(***************************************************************************)
(* The trigger, and what other runs do meanwhile.                          *)
(***************************************************************************)
Scope ==
  CASE event.changeType = "new" /\ event.target # None -> "paragraph_amendment"
    [] event.changeType = "amendment" /\ event.supersedes # None -> "full_document_supersession"
    [] OTHER -> "not_applicable"

DeltaInit ==
  /\ event \in Events
  /\ targetLive \in BOOLEAN /\ liveIn \in SUBSET TargetObligations
  /\ at = "circular"
  /\ liveObligations = {} /\ firstUnder = <<>> /\ unmatched = <<>> /\ attempt = 0
  /\ diffs = {} /\ diffEntries = {} /\ oldTasks = {} /\ heard = {}
  /\ proposal = None

Close(o) ==
  /\ at \notin {"done", "failed"}
  /\ o \in liveIn /\ Cardinality(TargetObligations \ liveIn) < MaxClosures
  /\ liveIn' = liveIn \ {o}
  /\ UNCHANGED <<event, targetLive, at, liveObligations, firstUnder, unmatched, attempt, diffs, diffEntries, oldTasks, heard, proposal>>

(***************************************************************************)
(* Clause pairing.                                                         *)
(***************************************************************************)
\* getClauseByParaRef takes any clause that has the ref.
OldClauseOf(ref) == {c \in OldClauses : c.ref = ref}

Resolution(ref, old, text, method, confidence, reason) ==
  [ref |-> ref, old |-> old, text |-> text, method |-> method, confidence |-> confidence, reason |-> reason]

\* resolutionToDiff
ToDiff(r) ==
  LET similarity == IF r.text = None THEN IF r.method = "unresolved" THEN 0 ELSE 100
                    ELSE IF r.old = None THEN 0 ELSE Similarity(r.old.text, r.text)
  IN [ref |-> r.ref, old |-> r.old, text |-> r.text, method |-> r.method, confidence |-> r.confidence,
      reason |-> r.reason, similarity |-> similarity,
      materiality |-> IF similarity >= CLAUSE_SIMILARITY_UNCHANGED_THRESHOLD THEN "unchanged" ELSE "material"]

RepealDiff(clause) ==
  [ref |-> clause.ref, old |-> clause, text |-> None, method |-> "single_paragraph_direct",
   confidence |-> FULL_DOC_DIRECT_MATCH_CONFIDENCE, reason |-> None, similarity |-> 0, materiality |-> "material"]

Direct(ref, old, text) == ToDiff(Resolution(ref, old, text, "single_paragraph_direct", FULL_DOC_DIRECT_MATCH_CONFIDENCE, None))

\* A choice of old clause for each amended paragraph.
OldChoices == {f \in [event.refs -> OldClauses \cup {None}] :
                 \A r \in event.refs : IF OldClauseOf(r) = {} THEN f[r] = None ELSE f[r] \in OldClauseOf(r)}

PairParagraphs(old) ==
  LET sole == Cardinality(event.refs) = 1 /\ Len(event.clauses) = 1
      stated == IF sole THEN Stated(event.clauses[1]) ELSE None
      split == IF sole THEN None ELSE MarkerSplit(event.clauses, event.refs)
      candidates == {r \in event.refs : old[r] # None}
  IN CASE stated # None ->
            /\ diffs' = {ToDiff(Resolution(r, old[r], stated, "single_paragraph_direct", SINGLE_PARAGRAPH_DIRECT_CONFIDENCE, None)) : r \in event.refs}
            /\ at' = "classify" /\ UNCHANGED unmatched
       [] stated = None /\ split # None ->
            /\ diffs' = {ToDiff(Resolution(r, old[r], split[r], "marker_regex_split", MARKER_SPLIT_CONFIDENCE, None)) : r \in event.refs}
            /\ at' = "classify" /\ UNCHANGED unmatched
       [] OTHER ->
            /\ diffs' = {ToDiff(Resolution(r, None, None, "unresolved", 0, "old_clause_not_found")) : r \in event.refs \ candidates}
            /\ unmatched' = SetToSeq({old[r] : r \in candidates})
            /\ at' = IF candidates = {} THEN "classify" ELSE "align"

\* Paragraphs with the same number are compared; the others are candidates of
\* the alignment.
PairDocument ==
  LET newOf(ref) == {i \in DOMAIN event.clauses : event.clauses[i].ref = ref}
      matched == {c \in OldClauses : newOf(c.ref) # {}}
  IN /\ diffs' = {Direct(c.ref, c, Words(event.clauses[Max(newOf(c.ref))])) : c \in matched}
     /\ unmatched' = SetToSeq(OldClauses \ matched)
     /\ at' = IF OldClauses = matched THEN "classify" ELSE "align"

(***************************************************************************)
(* Obligations.                                                            *)
(***************************************************************************)
\* findSourceUpstream: the clause with that number, or the most alike one.
Source(diff) ==
  LET same == {i \in DOMAIN event.clauses : event.clauses[i].ref = diff.ref}
      Score(i) == Similarity(diff.text, Words(event.clauses[i]))
      alike == {i \in DOMAIN event.clauses : Score(i) >= SOURCE_MATCH_MIN_SIMILARITY}
      best == {i \in alike : \A j \in alike : Score(i) >= Score(j)}
  IN IF same # {} THEN event.clauses[Min(same)]
     ELSE IF best = {} THEN None ELSE event.clauses[Max(best)]

\* lookupSourceProposal: the first proposal that is mapped and not excluded.
Usable(source) == {i \in DOMAIN source.proposals : ~source.proposals[i].excluded}

LookupStatus(source) ==
  CASE source = None -> "not_found"
    [] source # None /\ source.proposals = <<>> -> "informational_only"
    [] source # None /\ source.proposals # <<>> -> IF Usable(source) = {} THEN "contradiction_excluded" ELSE "found"

DiffEntry(action, diff, old, new, score) == [action |-> action, diff |-> diff, old |-> old, new |-> new, score |-> score]

\* One entry, of several obligations for the first.
Unaffected(diff, matching) ==
  {DiffEntry("unaffected", diff, IF matching = {} THEN None ELSE firstUnder[diff.ref], None, None)}

\* What becomes of the obligations of a paragraph.
EntriesOf(diff) ==
  LET matching == Under(diff.ref)
      source == Source(diff)
      status == LookupStatus(source)
      repealed == {DiffEntry("repealed", diff, o, None, None) : o \in matching}
      proposed == source.proposals[Min(Usable(source))]
      New(action, o) == DiffEntry(action, diff, o, source.ref, proposed.score)
  IN CASE diff.method = "unresolved" -> Unaffected(diff, matching)
       [] diff.method # "unresolved" /\ diff.text = None ->
            IF diff.materiality = "material" /\ matching # {} THEN repealed ELSE Unaffected(diff, matching)
       [] diff.method # "unresolved" /\ diff.text # None /\ diff.old # None /\ diff.materiality = "unchanged" ->
            Unaffected(diff, matching)
       [] OTHER ->
            CASE status = "contradiction_excluded" -> Unaffected(diff, matching)
              [] status \in {"not_found", "informational_only"} ->
                   IF matching # {} THEN repealed ELSE Unaffected(diff, {})
              [] status = "found" ->
                   IF matching = {} THEN {New("newly_added", None)} ELSE {New("superseded", o) : o \in matching}

(***************************************************************************)
(* computeChangeProposal.                                                  *)
(***************************************************************************)
Fail == at' = "failed" /\ UNCHANGED <<event, targetLive, liveIn, liveObligations, firstUnder, unmatched, attempt, diffs, diffEntries, oldTasks, heard, proposal>>

\* A read of the graph throws.
GraphFails == at \in {"circular", "live", "pair", "tasks"} /\ Fail

GetCircular ==
  /\ at = "circular"
  /\ IF Scope = "not_applicable" \/ ~targetLive THEN Fail
     ELSE /\ at' = "live"
          /\ UNCHANGED <<event, targetLive, liveIn, liveObligations, firstUnder, unmatched, attempt, diffs, diffEntries, oldTasks, heard, proposal>>

\* In the order the query returns them, which it does not fix.
GetLiveObligations ==
  /\ at = "live"
  /\ liveObligations' = liveIn
  /\ firstUnder' \in {f \in [{ClauseOf[o].ref : o \in liveIn} -> liveIn] : \A r \in DOMAIN f : ClauseOf[f[r]].ref = r}
  /\ at' = "pair"
  /\ UNCHANGED <<event, targetLive, liveIn, unmatched, attempt, diffs, diffEntries, oldTasks, heard, proposal>>

Pair ==
  /\ at = "pair"
  /\ IF Scope = "paragraph_amendment" THEN \E old \in OldChoices : PairParagraphs(old) ELSE PairDocument
  /\ UNCHANGED <<event, targetLive, liveIn, liveObligations, firstUnder, attempt, diffEntries, oldTasks, heard, proposal>>

\* All candidates of a paragraph amendment go in one call.
Batch ==
  IF Scope = "paragraph_amendment" \/ Len(unmatched) < MAX_ALIGNMENT_BATCH_SIZE THEN unmatched
  ELSE SubSeq(unmatched, 1, MAX_ALIGNMENT_BATCH_SIZE)

Answers == [confidence : Confidences, text : Quotes \cup {None}]

Unresolved(clause, text, confidence, reason) == ToDiff(Resolution(clause.ref, clause, text, "unresolved", confidence, reason))

RepealUnanswered(clause) == RepealDiff(clause)  \* mutation: a missing answer means removed

NoAnswer(clause) == Unresolved(clause, None, 0, "no_confident_deterministic_split")

\* A paragraph that is in no answer is unresolved, one answered with little
\* confidence too.  An answer of no text means "not addressed" in a paragraph
\* amendment and "removed" in a new document, there at any confidence.
AnswerDiff(clause, answer) ==
  LET sure == answer.confidence >= LLM_ALIGNMENT_CONFIDENCE_THRESHOLD
      repeals == Scope = "full_document_supersession" /\ answer.text = None
  IN CASE repeals -> RepealDiff(clause)
       [] ~repeals /\ sure -> ToDiff(Resolution(clause.ref, clause, answer.text, "llm_aligned", answer.confidence, None))
       [] ~repeals /\ ~sure -> Unresolved(clause, answer.text, answer.confidence, "llm_confidence_below_threshold")

\* The rest of the batches, or the new paragraphs that match no old one.
NextBatch(found) ==
  LET all == diffs \cup found
      renumbered == {d.text : d \in {x \in all : x.method = "llm_aligned"}}
      added == {i \in DOMAIN event.clauses : OldClauseOf(event.clauses[i].ref) = {} /\ Words(event.clauses[i]) \notin renumbered}
  IN /\ attempt' = 0
     /\ unmatched' = SubSeq(unmatched, Len(Batch) + 1, Len(unmatched))
     /\ at' = IF Len(unmatched) = Len(Batch) THEN "classify" ELSE "align"
     /\ diffs' = IF Len(unmatched) > Len(Batch) \/ Scope = "paragraph_amendment" THEN all
                 ELSE all \cup {Direct(event.clauses[i].ref, None, Words(event.clauses[i])) : i \in added}

Align ==
  /\ at = "align"
  /\ \E answered \in SUBSET ToSet(Batch) : \E answers \in [answered -> Answers] :
       /\ NextBatch({IF c \in answered THEN AnswerDiff(c, answers[c]) ELSE NoAnswer(c) : c \in ToSet(Batch)})
       /\ heard' = heard \cup {<<c.ref, answers[c]>> : c \in answered}
  /\ UNCHANGED <<event, targetLive, liveIn, liveObligations, firstUnder, diffEntries, oldTasks, proposal>>

\* The call fails or its answer does not parse: one more attempt.
AlignFails ==
  /\ at = "align"
  /\ IF attempt = 0 THEN attempt' = 1 /\ UNCHANGED <<unmatched, at, diffs>>
     ELSE NextBatch({NoAnswer(c) : c \in ToSet(Batch)})
  /\ UNCHANGED <<event, targetLive, liveIn, liveObligations, firstUnder, diffEntries, oldTasks, heard, proposal>>

Classify ==
  /\ at = "classify"
  /\ diffEntries' = UNION {EntriesOf(d) : d \in diffs}
  /\ at' = "tasks"
  /\ UNCHANGED <<event, targetLive, liveIn, liveObligations, firstUnder, unmatched, attempt, diffs, oldTasks, heard, proposal>>

Superseded == {e \in diffEntries : e.action = "superseded"}

\* getLiveProcessTaskForObligation: the task is closed with its obligation.
GetTask(o) ==
  /\ at = "tasks"
  /\ o \in {e.old : e \in Superseded} \ {x[1] : x \in oldTasks}
  /\ oldTasks' = oldTasks \cup {<<o, IF o \in liveIn THEN TaskOf[o] ELSE None>>}
  /\ UNCHANGED <<event, targetLive, liveIn, at, liveObligations, firstUnder, unmatched, attempt, diffs, diffEntries, heard, proposal>>

\* buildProcessTaskRedline: it is "modified" when the old task was found.
Redline(o) == IF <<o, None>> \in oldTasks THEN "new" ELSE "modified"

\* synthesizeAmendmentContext: a new document limits no confidence.
ContextConfidence == IF Scope = "paragraph_amendment" THEN event.confidence ELSE 100

\* assembleChangeProposal
Assemble ==
  LET used == Superseded \cup {e \in diffEntries : e.action = "newly_added"}
  IN /\ at = "tasks"
     /\ {e.old : e \in Superseded} = {x[1] : x \in oldTasks}
     /\ proposal' =
          [supersessions |-> {[old |-> e.old, new |-> e.new, redline |-> Redline(e.old)] : e \in Superseded},
           additions |-> {[new |-> e.new, redline |-> "new"] : e \in used \ Superseded},
           repeals |-> {e.old : e \in {x \in diffEntries : x.action = "repealed"}},
           circularSupersession |-> Scope = "full_document_supersession",
           unresolvedAlignments |-> {[ref |-> d.ref, reason |-> d.reason] : d \in {x \in diffs : x.method = "unresolved"}},
           overallConfidence |-> Min({ContextConfidence} \cup {e.diff.confidence : e \in used} \cup {e.score : e \in used}),
           usedLlmAlignment |-> \E e \in diffEntries : e.diff.method = "llm_aligned"]
     /\ at' = "done"
     /\ UNCHANGED <<event, targetLive, liveIn, liveObligations, firstUnder, unmatched, attempt, diffs, diffEntries, oldTasks, heard>>

DeltaNext ==
  \/ GetCircular \/ GetLiveObligations \/ Pair \/ Align \/ AlignFails \/ Classify \/ Assemble \/ GraphFails
  \/ \E o \in TargetObligations : Close(o) \/ GetTask(o)

DeltaSpec == DeltaInit /\ [][DeltaNext]_deltaVars

(***************************************************************************)
(* Properties.                                                             *)
(***************************************************************************)
Fates(o) == {s.new : s \in {x \in proposal.supersessions : x.old = o}} \cup {"repealed" : x \in {o} \cap proposal.repeals}

UnresolvedRefs == {u.ref : u \in proposal.unresolvedAlignments}

\* In a new document the old clauses are compared one by one, and nothing
\* makes their numbers distinct: what several clauses with one number are found
\* to be applies to each obligation under that number.
ComparedOnce(o) ==
  Scope = "paragraph_amendment" \/ \A c \in OldClauses : c.ref = ClauseOf[o].ref => c = ClauseOf[o]

\* A proposal closes only what was live when the agent looked; and each
\* obligation of a paragraph that is compared once at most once, and not if the
\* proposal names the paragraph as unresolved.
ClosedOnce ==
  \A o \in TargetObligations :
    /\ Fates(o) # {} => o \in liveObligations
    /\ ComparedOnce(o) =>
         Cardinality(Fates(o)) <= 1 /\ (Fates(o) # {} => ClauseOf[o].ref \notin UnresolvedRefs)

\* An obligation is closed for a text that was stated, numbered or quoted with
\* confidence and that differs from what stands, or because the model answered
\* that a new document has no counterpart of it: never because an answer
\* failed or was missing.
ClosedForCause ==
  \A o \in TargetObligations : Fates(o) # {} =>
    \E d \in diffs :
      /\ d.ref = ClauseOf[o].ref
      /\ d.text = None => proposal.circularSupersession /\ \E h \in heard : h[1] = d.ref /\ h[2].text = None
      /\ d.text # None /\ d.old # None => ~(Similarity(d.old.text, d.text) >= CLAUSE_SIMILARITY_UNCHANGED_THRESHOLD)
      /\ d.method = "llm_aligned" => <<d.ref, [confidence |-> d.confidence, text |-> d.text]>> \in heard /\ d.confidence >= LLM_ALIGNMENT_CONFIDENCE_THRESHOLD

\* The agent's account of the target is complete: of each paragraph a new
\* document leaves or takes away, and of each an amendment names, there is an
\* entry, about a live obligation if the paragraph has any; the obligations of
\* a paragraph share one fate, so none of them stays behind when the others are
\* closed; and what is proposed is not trusted more than the alignments used.
NothingIsDropped ==
  /\ \A r \in IF proposal.circularSupersession THEN {ClauseOf[o].ref : o \in liveObligations} ELSE event.refs :
       \E e \in diffEntries : e.diff.ref = r /\ (Under(r) # {} => e.old \in Under(r))
  /\ \A o, p \in liveObligations : ClauseOf[o].ref = ClauseOf[p].ref => Fates(o) = Fates(p)
  /\ \A h \in heard : h[2].text # None /\ h[2].confidence < LLM_ALIGNMENT_CONFIDENCE_THRESHOLD => h[1] \in UnresolvedRefs
  /\ \A s \in proposal.supersessions \cup proposal.additions :
       \E d \in diffs : d.method # "unresolved" /\ proposal.overallConfidence <= d.confidence

\* The task of an obligation that is replaced is carried over, unless it has
\* none or another run closed it since the agent looked.
TasksAreCarried ==
  \A s \in proposal.supersessions :
    IF s.redline = "modified" THEN TaskOf[s.old] # None ELSE TaskOf[s.old] = None \/ s.old \notin liveIn

\* However the model answers and whatever other runs close meanwhile.
ObligationsHaveOneFate == at = "done" => ClosedOnce /\ ClosedForCause /\ NothingIsDropped /\ TasksAreCarried

=============================================================================
