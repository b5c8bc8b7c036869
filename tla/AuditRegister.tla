---------------------------- MODULE AuditRegister ----------------------------
(***************************************************************************)
(* What an auditor sees: the search over reviews (a page and its total,    *)
(* two statements that each see the graph as committed when they run) and  *)
(* the compliance register (a count, then the rows, flattened and written  *)
(* as a workbook or as a document).  Meanwhile obligations are proposed,   *)
(* reviewed, decided and superseded.                                       *)
(***************************************************************************)
EXTENDS Naturals, Sequences, FiniteSets, SequencesExt

CONSTANTS
  Register,     \* the obligations, in the order of category and id
  TasksOf,      \* function from obligations to sets of tasks
  CategoryOf,   \* function from obligations to categories
  Requests,     \* exports asked for: [asOf, category, tier]
  Filters,      \* searches asked for: [tier, page]
  PageSize,
  LinesPerPage, \* floor((TOP_Y - BOTTOM_Y) / LEADING)
  Today,        \* the date at which an obligation is superseded
  None

VARIABLES
  obligation, \* the Obligation node: status, reviews, tier of the reviews, valid_to
  trail,      \* the reviews in the order of decided_at
  reader,      \* the request that is answered
  undisturbed \* nothing was written since the first statement of the request

registerVars == <<obligation, trail, reader, undisturbed>>

Registered == ToSet(Register)

Dual == {"tier_c_review", "escalated"}

NoReader == [at |-> "idle", request |-> None, count |-> 0, rows |-> <<>>]

Init ==
  /\ obligation = [o \in Registered |-> None]
  /\ trail = <<>>
  /\ reader = NoReader
  /\ undisturbed = FALSE

(***************************************************************************)
(* What others write.                                                      *)
(***************************************************************************)
Written == undisturbed' = FALSE /\ UNCHANGED reader

\* The reviews of an escalated obligation carry tier "C".
Propose(o) ==
  /\ obligation[o] = None
  /\ \E status \in {"tier_a_committed", "tier_b_review"} \cup Dual :
       obligation' = [obligation EXCEPT ![o] = [status |-> status, signed |-> 0, to |-> None,
                                                 tier |-> IF status \in Dual THEN "C" ELSE "B"]]
  /\ UNCHANGED trail /\ Written

Needed(o) == CASE obligation[o].status \in Dual -> 2 [] obligation[o].status = "tier_b_review" -> 1 [] OTHER -> 0

Submit(o) ==
  /\ obligation[o] # None /\ obligation[o].signed < Needed(o)
  /\ obligation' = [obligation EXCEPT ![o].signed = @ + 1]
  /\ trail' = Append(trail, <<o, obligation[o].signed + 1>>)
  /\ Written

Decide(o) ==
  /\ obligation[o] # None /\ Needed(o) > 0 /\ obligation[o].signed = Needed(o)
  /\ obligation' = [obligation EXCEPT ![o].status = "committed"]
  /\ UNCHANGED trail /\ Written

Supersede(o) ==
  /\ obligation[o] # None /\ obligation[o].to = None /\ obligation[o].status \in {"committed", "tier_a_committed"}
  /\ obligation' = [obligation EXCEPT ![o].to = Today]
  /\ UNCHANGED trail /\ Written

(***************************************************************************)
(* Queries.                                                                *)
(***************************************************************************)
InGraph == {o \in Registered : obligation[o] # None}

GuardsTierCOnly(o) == obligation[o].status = "tier_c_review"  \* mutation: an escalated obligation is left out

\* FR_11A_GUARD
Guarded(o) == obligation[o].tier = "C" /\ obligation[o].status \in Dual

OfTier(o, tier) == tier \in {None, obligation[o].tier}

\* The filters of a search and the guard stand in the WHERE of its last OPTIONAL
\* MATCH: they decide whether a row has its tasks, not whether there is a row.
Matches(o, tier) == ~Guarded(o) /\ OfTier(o, tier)

\* Newest first.
SearchRows(tier) ==
  [i \in DOMAIN trail |->
     LET review == Reverse(trail)[i]
     IN [review |-> review, tasks |-> IF Matches(review[1], tier) THEN TasksOf[review[1]] ELSE {}]]

\* The WHERE of the total belongs to an OPTIONAL MATCH too: every review counts.
SearchTotal == Cardinality(ToSet(trail))

\* SKIP and LIMIT
Page(found, n) ==
  LET skip == (n - 1) * PageSize
  IN SubSeq(found, skip + 1, IF Len(found) < skip + PageSize THEN Len(found) ELSE skip + PageSize)

\* pointInTimeWhereClause: every obligation of the model is valid from the first date.
InForce(o, asOf) == o \in InGraph /\ (obligation[o].to = None \/ obligation[o].to > asOf)

InRegister(request) ==
  SelectSeq(Register, LAMBDA o : InForce(o, request.asOf) /\ request.category \in {None, CategoryOf[o]})

\* The WHERE of the optional match: the row stays when its reviews do not match.
RegisterReviews(o, tier) == IF Matches(o, tier) THEN {<<o, n>> : n \in 1..obligation[o].signed} ELSE {}

\* The order of a collection is the database's.
Orders(S) == {s \in [1..Cardinality(S) -> S] : ToSet(s) = S}

\* findRegisterAsOf: one row per obligation, with its tasks and reviews.
RegisterRows(request) ==
  LET os == InRegister(request)
      Row(i, tasks, reviews) == [obligation |-> os[i], status |-> obligation[os[i]].status, tasks |-> tasks, reviews |-> reviews]
      RowsOf(i) == {Row(i, ts, rs) : ts \in Orders(TasksOf[os[i]]), rs \in Orders(RegisterReviews(os[i], request.tier))}
  IN {rows \in [DOMAIN os -> UNION {RowsOf(i) : i \in DOMAIN os}] : \A i \in DOMAIN os : rows[i] \in RowsOf(i)}

AtLeastOne(n) == IF n = 0 THEN 1 ELSE n

\* countRegisterAsOf
RegisterCount(request) ==
  FoldLeft(LAMBDA sum, o : sum + AtLeastOne(Cardinality(TasksOf[o])) * AtLeastOne(Cardinality(RegisterReviews(o, request.tier))),
           0, InRegister(request))

(***************************************************************************)
(* Flattening: every task beside every review, and None where there is none.*)
(***************************************************************************)
Slots(items) == IF items = <<>> THEN <<None>> ELSE items

\* A row without review is Tier A only when the obligation's status says so.
BuildRow(row, task, review) ==
  [obligation |-> row.obligation, status |-> row.status, task |-> task, review |-> review,
   decision |-> IF review # None THEN "decided" ELSE IF row.status = "tier_a_committed" THEN "auto-committed" ELSE None]

PairsByIndex(row) ==  \* mutation: tasks and reviews side by side
  [i \in DOMAIN Slots(row.tasks) |-> BuildRow(row, Slots(row.tasks)[i], IF i \in DOMAIN row.reviews THEN row.reviews[i] ELSE None)]

CrossProduct(row) ==
  FlattenSeq([t \in DOMAIN Slots(row.tasks) |->
    [r \in DOMAIN Slots(row.reviews) |-> BuildRow(row, Slots(row.tasks)[t], Slots(row.reviews)[r])]])

ToRegisterRows(rows) == FlattenSeq([i \in DOMAIN rows |-> CrossProduct(rows[i])])

\* The digest of the rows in the order of the columns.
IntegrityHash(flat) == <<"sha256", flat>>

(***************************************************************************)
(* The workbook: sheets in a ZIP archive, found through its directory.     *)
(***************************************************************************)
\* A sheet has a header and a line per row; the second one has the metadata.
Workbook(flat) ==
  << [name |-> "types", nameSize |-> 3, size |-> 5, data |-> None], [name |-> "relations", nameSize |-> 2, size |-> 4, data |-> None],
     [name |-> "sheet1", nameSize |-> 4, size |-> 1 + Len(flat), data |-> flat],
     [name |-> "sheet2", nameSize |-> 4, size |-> 7, data |-> [rowCount |-> Len(flat), integrity |-> IntegrityHash(flat)]] >>

LocalHeaderSize == 30

\* Where the local header of each part begins, and where the directory does.
RunningOffsets(parts) ==
  FoldLeft(LAMBDA offsets, p : Append(offsets, Last(offsets) + LocalHeaderSize + p.nameSize + p.size), <<0>>, parts)

BuildZip(parts) ==
  LET offsets == RunningOffsets(parts)
  IN [stream |-> FlattenSeq([i \in DOMAIN parts |-> << [size |-> LocalHeaderSize, part |-> parts[i].name], [size |-> parts[i].nameSize, part |-> None],
                                                        [size |-> parts[i].size, part |-> parts[i].data] >>]),
      directory |-> [i \in DOMAIN parts |-> [name |-> parts[i].name, offset |-> offsets[i]]],
      end |-> [records |-> Len(parts), offset |-> Last(offsets)]]

\* The chunk of an archive that begins at an offset, and what a reader finds there.
ChunkAt(zip, offset) ==
  LET starts == FoldLeft(LAMBDA ss, c : Append(ss, Last(ss) + c.size), <<0>>, zip.stream)
  IN CHOOSE i \in 0..Len(zip.stream) : IF \E j \in DOMAIN zip.stream : starts[j] = offset THEN i > 0 /\ starts[i] = offset ELSE i = 0

ReadZip(zip, name) ==
  LET record == CHOOSE i \in DOMAIN zip.directory : zip.directory[i].name = name
      at == ChunkAt(zip, zip.directory[record].offset)
  IN IF at > 0 /\ zip.stream[at].part = name THEN zip.stream[at + 2].part ELSE None

(***************************************************************************)
(* The document: one section per obligation, pages of LinesPerPage lines.  *)
(***************************************************************************)
Line(kind, what) == <<kind, what>>

CoverLines(flat) == <<Line("title", None), Line("rowCount", Len(flat)), Line("integrity", IntegrityHash(flat))>>

\* groupByObligation: in the order of their first rows; each task and review once.
Once(items) == FoldLeft(LAMBDA seen, x : IF x = None \/ Contains(seen, x) THEN seen ELSE Append(seen, x), <<>>, items)

GroupRows(flat, o) == SelectSeq(flat, LAMBDA row : row.obligation = o)

Section(flat, o) ==
  LET rows == GroupRows(flat, o)
      tasks == Once([i \in DOMAIN rows |-> rows[i].task])
      reviews == Once([i \in DOMAIN rows |-> rows[i].review])
  IN <<Line("obligation", o), Line("tasks", None)>>
     \o (IF tasks = <<>> THEN <<Line("no task", o)>> ELSE [i \in DOMAIN tasks |-> Line("task", tasks[i])])
     \o <<Line("reviews", None)>>
     \o (CASE reviews # <<>> -> [i \in DOMAIN reviews |-> Line("review", reviews[i])]
           [] reviews = <<>> /\ (\E i \in DOMAIN rows : rows[i].decision = "auto-committed") -> <<Line("auto-committed", o)>>
           [] OTHER -> <<Line("no review yet", o)>>)
     \o <<Line("blank", None)>>

ContentLines(flat) ==
  LET groups == Once([i \in DOMAIN flat |-> flat[i].obligation])
  IN IF groups = <<>> THEN <<Line("no records", None)>> ELSE FlattenSeq([i \in DOMAIN groups |-> Section(flat, groups[i])])

ChunkLines(lines) ==
  IF lines = <<>> THEN <<lines>>
  ELSE [p \in 1..((Len(lines) + LinesPerPage - 1) \div LinesPerPage) |->
          SubSeq(lines, (p - 1) * LinesPerPage + 1, IF Len(lines) < p * LinesPerPage THEN Len(lines) ELSE p * LinesPerPage)]

\* Catalog, pages and font, the pages, their contents: numbered in this order.
AssemblePdf(pages) ==
  LET firstPage == 4
      firstContent == firstPage + Len(pages)
  IN [n \in 1..(firstContent + Len(pages) - 1) |->
        CASE n = 1 -> [type |-> "Catalog", pages |-> 2]
          [] n = 2 -> [type |-> "Pages", kids |-> [i \in DOMAIN pages |-> firstPage + i - 1]]
          [] n = 3 -> [type |-> "Font"]
          [] n \in firstPage..(firstContent - 1) -> [type |-> "Page", contents |-> firstContent + n - firstPage]
          [] OTHER -> [type |-> "stream", lines |-> pages[n - firstContent + 1]]]

GeneratePdf(flat) == AssemblePdf(ChunkLines(CoverLines(flat)) \o ChunkLines(ContentLines(flat)))

ReadPdf(objects) ==
  LET kids == objects[objects[1].pages].kids
  IN FlattenSeq([i \in DOMAIN kids |-> objects[objects[kids[i]].contents].lines])

(***************************************************************************)
(* Requests, one at a time.                                                *)
(***************************************************************************)
Quiet == undisturbed' = TRUE /\ UNCHANGED <<obligation, trail>>
StillQuiet == UNCHANGED <<obligation, trail, undisturbed>>

\* search: the page, then, in the same transaction, the total.
SearchPage(filter) ==
  /\ reader.at = "idle"
  /\ reader' = [NoReader EXCEPT !.at = "page", !.request = filter, !.rows = Page(SearchRows(filter.tier), filter.page)]
  /\ Quiet

SearchCount ==
  /\ reader.at = "page"
  /\ reader' = [reader EXCEPT !.at = "found", !.count = SearchTotal]
  /\ StillQuiet

\* The count of an export decides how it is run; its rows are read afterwards.
EstimateExport(request) ==
  /\ reader.at = "idle"
  /\ reader' = [NoReader EXCEPT !.at = "estimated", !.request = request, !.count = RegisterCount(request)]
  /\ Quiet

GenerateRegisterFile ==
  /\ reader.at = "estimated"
  /\ \E rows \in RegisterRows(reader.request) : reader' = [reader EXCEPT !.at = "filed", !.rows = rows]
  /\ StillQuiet

\* The answer is read, the file is downloaded.
Finish ==
  /\ reader.at \in {"found", "filed"}
  /\ reader' = NoReader
  /\ undisturbed' = FALSE /\ UNCHANGED <<obligation, trail>>

Next ==
  \/ \E o \in Registered : Propose(o) \/ Submit(o) \/ Decide(o) \/ Supersede(o)
  \/ \E filter \in Filters : SearchPage(filter)
  \/ \E request \in Requests : EstimateExport(request)
  \/ SearchCount \/ GenerateRegisterFile \/ Finish

Spec == Init /\ [][Next]_registerVars

(***************************************************************************)
(* Properties.                                                             *)
(***************************************************************************)
TypeOK ==
  /\ \A o \in InGraph : /\ obligation[o].status \in {"tier_a_committed", "tier_b_review", "committed"} \cup Dual
                        /\ obligation[o].signed \in 0..2 /\ obligation[o].to \in {None, Today}
  /\ trail \in Seq({<<o, n>> : o \in Registered, n \in 1..2})
  /\ reader.at \in {"idle", "page", "found", "estimated", "filed"} /\ reader.count \in Nat
  /\ undisturbed \in BOOLEAN

Flat == ToRegisterRows(reader.rows)

\* A register never shows the first of two reviews of an obligation that is not
\* decided, although the file outlives its query.
UndecidedIsHidden ==
  reader.at = "filed" => \A row \in ToSet(Flat) : row.review # None => obligation[row.review[1]].status \notin Dual

\* FR-11a for the search: no row of a page is the first of two reviews of an
\* obligation that is not decided.
SearchIsGuarded ==
  reader.at = "page" /\ undisturbed => \A row \in ToSet(reader.rows) : ~Guarded(row.review[1])

\* The two statements of a search and the two of an export, written apart,
\* agree unless something was written in between: the page is that of the
\* total, and the estimate is the number of rows.
StatementsAgree ==
  /\ reader.at = "found" /\ undisturbed =>
       /\ Len(reader.rows) = Len(Page([i \in 1..reader.count |-> i], reader.request.page))
       /\ \A i, j \in DOMAIN reader.rows : i # j => reader.rows[i] # reader.rows[j]
  /\ reader.at = "filed" /\ undisturbed => reader.count = Len(Flat)

\* Both formats of a register, read back, list what the query returned: every
\* obligation in force, every task and every review once or with each of the
\* other, the number of rows and the digest of these very rows.
FilesReadBack ==
  LET zip == BuildZip(Workbook(Flat))
      sheet == ReadZip(zip, "sheet1")
      lines == ReadPdf(GeneratePdf(Flat))
      Printed(kind) == [i \in DOMAIN SelectSeq(lines, LAMBDA l : l[1] = kind) |-> SelectSeq(lines, LAMBDA l : l[1] = kind)[i][2]]
      rows == reader.rows
  IN reader.at = "filed" =>
       /\ sheet = Flat
       /\ zip.end.records = Len(zip.directory)
       /\ ReadZip(zip, "sheet2") = [rowCount |-> Len(sheet), integrity |-> IntegrityHash(sheet)]
       /\ \A i \in DOMAIN rows : \A task \in ToSet(Slots(rows[i].tasks)), review \in ToSet(Slots(rows[i].reviews)) :
            \E row \in ToSet(sheet) : row.obligation = rows[i].obligation /\ row.task = task /\ row.review = review
       /\ Printed("integrity") = <<IntegrityHash(sheet)>> /\ Printed("rowCount") = <<Len(sheet)>>
       /\ Printed("obligation") = [i \in DOMAIN rows |-> rows[i].obligation]
       /\ Printed("task") = FlattenSeq([i \in DOMAIN rows |-> rows[i].tasks])
       /\ Printed("review") = FlattenSeq([i \in DOMAIN rows |-> rows[i].reviews])

\* A register that is not limited to a tier calls an obligation committed
\* without review only when it is Tier A, and not reviewed only while no
\* decision of it may be shown.
SilenceIsExplained ==
  reader.at = "filed" /\ reader.request.tier = None =>
    \A row \in ToSet(Flat) : row.review = None =>
      IF row.decision = "auto-committed" THEN obligation[row.obligation].status = "tier_a_committed"
      ELSE row.status \in {"tier_b_review"} \cup Dual

RegisterIsTrue == UndecidedIsHidden /\ StatementsAgree /\ FilesReadBack /\ SilenceIsExplained

=============================================================================
