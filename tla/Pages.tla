-------------------------------- MODULE Pages -------------------------------
(***************************************************************************)
(* The console's record pages: the listings of intents and batches         *)
(* (Intents.tsx, Batches.tsx, components.tsx Pagination), the live metrics *)
(* and the imported comparison (Performance.tsx,                           *)
(* ExperimentComparison.tsx), the form for signed intents, and the routes  *)
(* and run filter around them (App.tsx).  A page polls with usePoll        *)
(* (hooks.ts) through request (lib/api.ts); the relayer's listing queries  *)
(* (api.ts, store.ts) answer.                                              *)
(*                                                                         *)
(* One thread: a step is what runs between two awaits.  React flushes the  *)
(* effects of a click, a submitted form and a changed hash with the event; *)
(* those of refresh(), called after an await, come later (`due`).  Left    *)
(* out: the UI preview, which shows fixtures, the wording of errors, and   *)
(* what a detail page polls for, one record whose view never changes       *)
(* (Console.tla has such polls).                                           *)
(***************************************************************************)
EXTENDS Integers, Sequences, FiniteSets, FiniteSetsExt

CONSTANTS
  Items,         \* intents and batches
  Kind,          \* Kind[i]: the page that lists item i, "intents" or "batches"
  RunOf,         \* RunOf[i]: its runId
  Rank,          \* Rank[i]: the place of its id among all ids
  Filters,       \* run filters the user may apply, All for none
  All,
  PageSize,      \* 25 in the console
  Files,         \* comparison files the user may import
  Valid,         \* those that parseBenchmark accepts
  Ending,        \* bound on the items that reach a terminal state
  MaxMs,         \* bound on the relayer's clock
  MaxDead,       \* bound on requests of effects gone, when another effect goes
  MaxPosts       \* bound on submissions under way

ASSUME ItemsAssumption ==
  /\ IsFiniteSet(Items) /\ Kind \in [Items -> {"intents", "batches"}] /\ Rank \in [Items -> Nat]
  /\ \A i, j \in Items : Rank[i] = Rank[j] => i = j
  /\ "none" \notin Items \union Files /\ Valid \subseteq Files
  /\ All \in Filters /\ All \notin {RunOf[i] : i \in Items}
ASSUME BoundsAssumption ==
  /\ PageSize \in Nat \ {0} /\ MaxMs \in Nat \ {0} /\ MaxDead \in Nat /\ MaxPosts \in Nat

VARIABLES
  (* the relayer *)
  ms,          \* its clock
  at,          \* at[i]: received_at or created_at, 0 before the row exists
  final,       \* the items in a terminal state
  (* App *)
  page, detail,  \* the route: one of the pages, or a record of it
  run,         \* the run filter
  offset,
  (* the page's usePoll *)
  poll,        \* the effect's chain of polls
  dead,        \* requests under way of effects that were cleaned up
  data,        \* what is shown
  due,         \* refresh() was called and the effect has not run since
  (* the form *)
  form,
  posts,       \* submissions under way, be it of a form that is gone
  (* the comparison *)
  comparison,
  (* what was shown before *)
  above        \* items on the pages of this listing the user has turned

storeVars == <<ms, at, final>>
viewVars == <<page, detail, run, offset>>
hookVars == <<poll, dead, data, due>>
formVars == <<form, posts>>
vars == <<storeVars, viewVars, hookVars, formVars, comparison, above>>

None == "none"
PageNames == {"agents", "intents", "batches", "performance"}
Of(kind) == {i \in Items : Kind[i] = kind}
Intents == Of("intents")

Keys == [page : PageNames, run : Filters, offset : Nat]
NoKey == [page |-> "agents", run |-> All, offset |-> 0]
Nothing == [key |-> NoKey, rows |-> << >>]
Off == [at |-> "off", key |-> NoKey, rows |-> << >>]

(* A row as answered: the item, and whether it was final. *)
Rows == Seq(Items \X BOOLEAN)
ItemsIn(rows) == {rows[n][1] : n \in DOMAIN rows}
FinalIn(rows) == {rows[n][1] : n \in {m \in DOMAIN rows : rows[m][2]}}

Recorded == {"steady", "burst"}

TypeOK ==
  /\ ms \in 1 .. MaxMs /\ at \in [Items -> 0 .. MaxMs] /\ final \subseteq Items
  /\ page \in PageNames /\ run \in Filters /\ offset \in Nat
  /\ detail \in BOOLEAN
  /\ poll.at \in {"off", "asking", "answered", "timer"}
  /\ \A r \in {poll, data} \union dead : r.key \in Keys /\ r.rows \in Rows
  /\ form.busy \in BOOLEAN /\ form.accepted \in Intents \union {None}
  /\ comparison.selection \in Recorded \union {"imported"}
  /\ comparison.imported \in Valid \union {None} /\ comparison.reading \subseteq Files

EmptyForm == [busy |-> FALSE, accepted |-> None]
FirstComparison == [selection |-> "steady", imported |-> None, reading |-> {}]

Init ==
  /\ ms = 1 /\ at = [i \in Items |-> 0] /\ final = {}
  /\ page = "agents" /\ detail = FALSE /\ run = All /\ offset = 0
  /\ poll = Off /\ dead = {} /\ data = Nothing /\ due = FALSE
  /\ form = EmptyForm /\ posts = {}
  /\ comparison = FirstComparison
  /\ above = {}

-----------------------------------------------------------------------------
(* The relayer's answers.                                                  *)

StoredItems == {i \in Items : at[i] # 0}

(* ORDER BY received_at, id; ORDER BY created_at, id *)
ById(i, j) == Rank[i] < Rank[j]
Before(i, j) == at[i] < at[j] \/ (at[i] = at[j] /\ Rank[i] < Rank[j])

Matching(kind, filter) ==
  {i \in StoredItems : Kind[i] = kind /\ (filter = All \/ RunOf[i] = filter)}

Earlier(S, i) == {j \in S : Before(j, i)}
InOrder(S) == [n \in 1 .. Cardinality(S) |-> CHOOSE i \in S : Cardinality(Earlier(S, i)) = n - 1]
Row(i) == <<i, i \in final>>
RowsOf(S) == LET items == InOrder(S) IN [n \in DOMAIN items |-> Row(items[n])]

(* GET /intents, GET /batches: LIMIT and OFFSET. *)
Listing(key) ==
  LET rows == RowsOf(Matching(key.page, key.run))
  IN  SubSeq(rows, key.offset + 1, Min({Len(rows), key.offset + PageSize}))

(* GET /metrics: the figures of one run, here the states they count. *)
Counted(key) == RowsOf(Matching("intents", IF key.run = All THEN "default" ELSE key.run))

Answer(key) == IF key.page = "performance" THEN Counted(key) ELSE Listing(key)

-----------------------------------------------------------------------------
(* usePoll                                                                 *)

Ask(key) == [at |-> "asking", key |-> key, rows |-> << >>]
WithAnswer(r) == [r EXCEPT !.at = "answered", !.rows = Answer(r.key)]

(* A request under way is left to itself.  Of its answers the one that can *)
(* do most harm is the oldest: if there is none yet, that of this moment.  *)
Abandoned ==
  IF poll.at = "asking" THEN {WithAnswer(poll)}
  ELSE IF poll.at = "answered" THEN {poll} ELSE {}

(* The effect runs for a key, NoKey if the page has no listing: the        *)
(* cleanup, then the new effect, which forgets what is shown.              *)
Rerun(key) ==
  /\ Cardinality(dead) < MaxDead
  /\ dead' = dead \union Abandoned
  /\ poll' = IF key = NoKey THEN Off ELSE Ask(key)
  /\ data' = Nothing /\ due' = FALSE

Key(p, r, o) == IF p = "agents" THEN NoKey ELSE [page |-> p, run |-> r, offset |-> o]
CurrentKey == Key(page, run, offset)

RunEffect ==
  /\ due /\ Rerun(CurrentKey)
  /\ UNCHANGED <<storeVars, viewVars, formVars, comparison, above>>

TimerFires ==
  /\ poll.at = "timer" /\ poll' = Ask(poll.key)
  /\ UNCHANGED <<storeVars, viewVars, dead, data, due, formVars, comparison, above>>

ApiAnswers ==
  /\ poll.at = "asking" /\ poll' = WithAnswer(poll)
  /\ UNCHANGED <<storeVars, viewVars, dead, data, due, formVars, comparison, above>>

Show(r) == data' = [key |-> r.key, rows |-> r.rows]

OnSuccessOnly(ok, r) == IF ok THEN [r EXCEPT !.at = "timer", !.rows = << >>] ELSE Off
Rearmed(ok, r) == [r EXCEPT !.at = "timer", !.rows = << >>]

PollReturns ==
  /\ poll.at = "answered" /\ Show(poll) /\ poll' = Rearmed(TRUE, poll)
  /\ UNCHANGED <<storeVars, viewVars, dead, due, formVars, comparison, above>>

(* No answer within eight seconds, no JSON, or an error. *)
PollThrows ==
  /\ poll.at \in {"asking", "answered"} /\ poll' = Rearmed(FALSE, poll)
  /\ UNCHANGED <<storeVars, viewVars, dead, data, due, formVars, comparison, above>>

(* The answer to an effect that was cleaned up: `active` is false.         *)
IgnoresActive(r) == Show(r)
Drop(r) == UNCHANGED data

DeadReturns ==
  /\ \E r \in dead : dead' = dead \ {r} /\ Drop(r)
  /\ UNCHANGED <<storeVars, viewVars, poll, due, formVars, comparison, above>>

-----------------------------------------------------------------------------
(* The user.                                                               *)

(* A submission outlives its form.  Once the listing it would refresh is   *)
(* gone as well, it is an Arrive like those of other clients.              *)
Orphans == {[p EXCEPT !.form = FALSE] : p \in posts}

(* The page changes: the listing starts over.                              *)
Navigate(p, d) ==
  /\ p # page /\ page' = p /\ detail' = d /\ (d => p \in {"intents", "batches"})
  /\ offset' = 0 /\ above' = {} /\ Rerun(Key(p, run, 0))
  /\ form' = EmptyForm /\ posts' = {} /\ comparison' = FirstComparison
  /\ UNCHANGED <<storeVars, run>>

(* A detail opens or closes: the listing behind it goes on polling.        *)
ToggleDetail ==
  /\ page \in {"intents", "batches"} /\ detail' = ~detail
  /\ form' = EmptyForm /\ posts' = Orphans
  /\ UNCHANGED <<storeVars, page, run, offset, hookVars, comparison, above>>

(* Intents and Batches are keyed by the filter, Performance is not.        *)
ApplyRun(r) ==
  /\ page # "agents" /\ ~detail /\ r # run /\ run' = r
  /\ offset' = 0 /\ above' = {} /\ Rerun(Key(page, r, 0))
  /\ IF page = "performance" THEN UNCHANGED formVars
     ELSE form' = EmptyForm /\ posts' = {}
  /\ UNCHANGED <<storeVars, page, detail, comparison>>

ListIsOpen == page \in {"intents", "batches"} /\ ~detail

Turn(o) ==
  /\ ListIsOpen /\ offset' = o /\ Rerun(Key(page, run, o))
  /\ above' = above \union ItemsIn(data.rows)
  /\ UNCHANGED <<storeVars, page, detail, run, formVars, comparison>>

NextPage == Len(data.rows) >= PageSize /\ Turn(offset + PageSize)
PreviousPage == offset # 0 /\ Turn(IF offset < PageSize THEN 0 ELSE offset - PageSize)

Refresh ==
  /\ ListIsOpen /\ Rerun(CurrentKey)
  /\ UNCHANGED <<storeVars, viewVars, formVars, comparison, above>>

-----------------------------------------------------------------------------
(* The form for signed intents, below the open listing.                    *)

HasForm == page = "intents" /\ ~detail

Post(i) == [item |-> i, accepted |-> FALSE, form |-> TRUE]

Submit(i) ==
  /\ HasForm /\ ~form.busy /\ Cardinality(posts) < MaxPosts
  /\ form' = [EmptyForm EXCEPT !.busy = TRUE] /\ posts' = posts \union {Post(i)}
  /\ UNCHANGED <<storeVars, viewVars, hookVars, comparison, above>>

(* Not the JSON of a signed intent: the last result goes, nothing is sent. *)
SubmitMalformed ==
  /\ HasForm /\ ~form.busy /\ form' = EmptyForm
  /\ UNCHANGED <<storeVars, viewVars, hookVars, posts, comparison, above>>

Insert(i) == at' = (IF at[i] = 0 THEN [at EXCEPT ![i] = ms] ELSE at)

(* POST /intents: inserted or found; a refusal is a PostFails.            *)
ApiHandlesPost(p) ==
  /\ ~p.accepted /\ Insert(p.item)
  /\ posts' = (posts \ {p}) \union {[p EXCEPT !.accepted = TRUE]}
  /\ UNCHANGED <<ms, final, viewVars, hookVars, form, comparison, above>>

(* The listing is told to refresh, after an await. *)
NoRefresh == UNCHANGED due
Refreshed == due' = TRUE

PostReturns(p) ==
  /\ p.accepted /\ posts' = posts \ {p} /\ Refreshed
  /\ form' = IF p.form THEN [EmptyForm EXCEPT !.accepted = p.item] ELSE form
  /\ UNCHANGED <<storeVars, viewVars, poll, dead, data, comparison, above>>

(* A refusal, or no answer in time: one that arrives later is an Arrive.   *)
PostFails(p) ==
  /\ posts' = posts \ {p} /\ form' = IF p.form THEN EmptyForm ELSE form
  /\ UNCHANGED <<storeVars, viewVars, hookVars, comparison, above>>

-----------------------------------------------------------------------------
(* The imported comparison.                                                *)

(* acceptResults, on the text of file f: what is drawn changes only once   *)
(* the text is found valid.                                                *)
SelectsFirst(c, f) ==
  LET selected == [c EXCEPT !.selection = "imported"]
  IN  IF f \in Valid THEN [selected EXCEPT !.imported = f] ELSE selected
Accepted(c, f) ==
  IF f \in Valid THEN [c EXCEPT !.imported = f, !.selection = "imported"] ELSE c

Compare(c) ==
  /\ page = "performance" /\ comparison' = c
  /\ UNCHANGED <<storeVars, viewVars, hookVars, formVars, above>>

ChooseFile(f) == Compare([comparison EXCEPT !.reading = @ \union {f}])

Read(f) == [comparison EXCEPT !.reading = @ \ {f}]
ReadReturns(f) == f \in comparison.reading /\ Compare(Accepted(Read(f), f))
ReadFails(f) == f \in comparison.reading /\ Compare(Read(f))

Paste(f) == Compare(Accepted(comparison, f))

Workloads == Recorded \union (IF comparison.imported = None THEN {} ELSE {"imported"})
SelectWorkload(w) ==
  w \in Workloads /\ Compare([comparison EXCEPT !.selection = w])

-----------------------------------------------------------------------------
(* The relayer goes on: other clients submit intents, its coordinator      *)
(* prepares batches, both reach their ends.                                *)

RelayerStep == UNCHANGED <<viewVars, hookVars, formVars, comparison, above>>

Tick == ms < MaxMs /\ ms' = ms + 1 /\ UNCHANGED <<at, final>> /\ RelayerStep
Arrive(i) == at[i] = 0 /\ Insert(i) /\ UNCHANGED <<ms, final>> /\ RelayerStep
Finalize(i) ==
  /\ i \in (StoredItems \intersect Ending) \ final /\ final' = final \union {i}
  /\ UNCHANGED <<ms, at>> /\ RelayerStep

Next ==
  \/ \E p \in PageNames, d \in BOOLEAN : Navigate(p, d)
  \/ ToggleDetail \/ NextPage \/ PreviousPage \/ Refresh
  \/ \E r \in Filters : ApplyRun(r)
  \/ RunEffect \/ TimerFires \/ ApiAnswers \/ PollReturns \/ PollThrows \/ DeadReturns
  \/ \E i \in Intents : Submit(i)
  \/ SubmitMalformed
  \/ \E p \in posts : ApiHandlesPost(p) \/ PostReturns(p) \/ PostFails(p)
  \/ \E f \in Files : ChooseFile(f) \/ ReadReturns(f) \/ ReadFails(f) \/ Paste(f)
  \/ \E w \in Recorded \union {"imported"} : SelectWorkload(w)
  \/ Tick
  \/ \E i \in Items : Arrive(i) \/ Finalize(i)

(* Effects and timers run; the relayer does not fail a page every time.    *)
Fairness ==
  WF_vars(RunEffect) /\ WF_vars(TimerFires) /\ SF_vars(ApiAnswers) /\ SF_vars(PollReturns)

Spec == Init /\ [][Next]_vars /\ Fairness

-----------------------------------------------------------------------------
(* Properties.                                                             *)

Shown == ItemsIn(data.rows)

(* A page shows the answer to its own request, never one for the route,    *)
(* filter or page before (hooks.ts: active).                               *)
ShowsItsOwn == data # Nothing => data.key = CurrentKey /\ poll.key = CurrentKey

(* An outcome on display is not taken back by a late answer: what follows  *)
(* it is as recent, or the page is cleared.                                *)
OutcomesStay == FinalIn(data.rows) \intersect Shown' \subseteq FinalIn(data.rows)'

(* An intent the console reports as accepted is in the listing it then     *)
(* loads, unless it belongs to another page or another run.                *)
AcceptedIsListed ==
  LET i == form.accepted
  IN  (i # None /\ ~due /\ data # Nothing /\ run \in {All, RunOf[i]}) =>
        \/ i \in Shown
        \/ Len(data.rows) = PageSize /\ \A j \in Shown : Before(j, i)
        \/ offset > 0 /\ \A j \in Shown : Before(i, j)

(* Turning pages skips no intent and no batch, though rows arrive between  *)
(* two pages; only one of the same millisecond as a row shown can slip in  *)
(* behind the reader.                                                      *)
NothingSkipped ==
  LET seen == above \union Shown
  IN  page \in {"intents", "batches"} =>
        \A i \in Matching(page, run) \ seen :
          (\E j \in Shown : Before(i, j)) => \E j \in seen : at[j] = at[i]

(* What the comparison draws is a file: the imported one is there whenever *)
(* it is selected (ExperimentComparison.tsx: `imported!`).                 *)
ComparisonIsDefined == comparison.selection = "imported" => comparison.imported # None

(* The pages tell the truth: each of the above, always.                    *)
PagesTellTheTruth ==
  /\ [](TypeOK /\ ShowsItsOwn /\ AcceptedIsListed /\ NothingSkipped /\ ComparisonIsDefined)
  /\ [][OutcomesStay]_vars

-----------------------------------------------------------------------------
(* The inductive invariant behind PagesTellTheTruth.                       *)

Polls == [at : {"off", "asking", "answered", "timer"}, key : Keys, rows : Rows]

PagesTyped ==
  /\ TypeOK /\ poll \in Polls /\ dead \subseteq Polls /\ data \in [key : Keys, rows : Rows]
  /\ due \in BOOLEAN
  /\ form \in [busy : BOOLEAN, accepted : Intents \union {None}]
  /\ posts \subseteq [item : Intents, accepted : BOOLEAN, form : BOOLEAN]
  /\ comparison \in [selection : Recorded \union {"imported"},
                     imported : Valid \union {None}, reading : SUBSET Files]

KeysFollow ==
  /\ poll.at # "off" => poll.key = CurrentKey
  /\ poll.at # "answered" => poll.rows = << >>
  /\ data # Nothing => poll.at # "off" /\ data.key = CurrentKey

(* What was answered was so and stays so; later answers know more.         *)
RowsWereTrue ==
  /\ \A rows \in {poll.rows, data.rows} : ItemsIn(rows) \subseteq StoredItems /\ FinalIn(rows) \subseteq final
  /\ FinalIn(data.rows) \intersect ItemsIn(poll.rows) \subseteq FinalIn(poll.rows)

(* Where a stored intent is, seen from the rows of a page.                 *)
Located(i, rows) ==
  \/ i \in ItemsIn(rows)
  \/ Len(rows) = PageSize /\ \A j \in ItemsIn(rows) : Before(j, i)
  \/ offset > 0 /\ \A j \in ItemsIn(rows) : Before(i, j)

FormFollows ==
  /\ form.accepted # None => HasForm /\ form.accepted \in StoredItems
  /\ \A p \in posts :
       page = "intents" /\ (p.form => HasForm) /\ (p.accepted => p.item \in StoredItems)
  /\ form.accepted # None /\ ~due /\ run \in {All, RunOf[form.accepted]} =>
       /\ poll.at = "answered" => Located(form.accepted, poll.rows)
       /\ data # Nothing => Located(form.accepted, data.rows)

(* Of the first o rows of the listing, each was seen or shares its         *)
(* millisecond with one that was.                                          *)
Covered(o, seen) ==
  LET listing == Matching(page, run)
  IN  /\ o <= Cardinality(listing)
      /\ \A i \in listing :
           Cardinality(Earlier(listing, i)) < o => \E j \in seen : at[j] = at[i]

PagesFollow ==
  /\ above \subseteq StoredItems /\ Covered(offset, above)
  /\ page \in {"intents", "batches"} =>
       \A rows \in {poll.rows, data.rows} :
         LET seen == above \union ItemsIn(rows)
         IN  /\ Covered(offset + Len(rows), seen)
             /\ \A i \in Matching(page, run), j \in ItemsIn(rows) :
                  Before(i, j) => \E k \in seen : at[k] = at[i]

StoreFollows == \A i \in Items : at[i] <= ms

PagesInv ==
  /\ PagesTyped /\ StoreFollows /\ KeysFollow /\ RowsWereTrue /\ FormFollows /\ PagesFollow
  /\ ComparisonIsDefined

(* While the user stays, the page is again and again up to date with the   *)
(* relayer, whatever requests fail on the way.                             *)
ChangesAppear ==
  \/ []<><<viewVars' # viewVars>>_vars
  \/ []<>(CurrentKey # NoKey => data.rows = Answer(CurrentKey))
=============================================================================
