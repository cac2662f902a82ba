--------------------------- MODULE SnapshotPages ---------------------------
(***************************************************************************)
(* The operator's read side: the bounded, consistent snapshot that `ralph  *)
(* status` and the surfaces ask for, and the keyset pages a client walks   *)
(* through while the supervisor keeps writing.                             *)
(*                                                                         *)
(* One list of one project is walked.  Plans and tasks are keyed by text   *)
(* and may be inserted anywhere in the order; events and messages are      *)
(* AUTOINCREMENT rows that only grow, messages read oldest first and       *)
(* events newest first.  Deleting a plan takes its rows with it.  Each     *)
(* page is one read-only transaction of several queries, with writers free *)
(* to commit between any two of them.                                      *)
(*                                                                         *)
(* Source: internal/store/operator_snapshot.go, operator_messages.go,      *)
(* internal/observe/snapshot.go, internal/supervisor/observe.go and the    *)
(* status and messages commands.                                           *)
(***************************************************************************)
EXTENDS Integers, Sequences, FiniteSets, SequencesExt

CONSTANTS
  MaxRowId,        \* bound on the keys a list may use
  DefaultLimit,    \* the page size a query that names none gets
  MaxLimit,        \* the largest page size a query may ask for
  AskedLimits,     \* the page sizes the client may ask for
  MaxActive,       \* MaxOperatorActiveWorkers
  MaxWrites        \* bound on the writers' commits

ASSUME PagesAssumption ==
  /\ DefaultLimit \in 1..MaxLimit
  /\ {MaxRowId, MaxLimit, MaxActive, MaxWrites} \subseteq Nat

VARIABLES
  list,        \* which list is walked: "plans" | "messages" | "events"
  asked,       \* the page size the client asks for
  db,          \* the committed rows and running workers
  top,         \* the last AUTOINCREMENT key handed out
  view,        \* what the open read transaction sees
  query,       \* where the query stands
  after,       \* the client's cursor, 0 for the first page
  answer,      \* the response under construction
  during,      \* the committed states since the query began
  shown,       \* the rows the walk has shown, in order
  throughout,  \* the rows that were there since the walk began
  writes       \* commits made so far

pageVars == <<list, asked, db, top, view, query, after, answer, during, shown,
              throughout, writes>>

Lists  == {"plans", "messages", "events"}
Blank  == [total |-> 0, cursor |-> 0, items |-> <<>>, hasMore |-> FALSE,
           next |-> 0, workers |-> 0]

-----------------------------------------------------------------------------
(* The writers: the supervisor adding rows, an operator deleting a plan.   *)

Commit(state) ==
  /\ writes < MaxWrites
  /\ writes' = writes + 1
  /\ db' = state
  /\ during' = during \cup {state}
  /\ throughout' = throughout \cap state.rows
  /\ UNCHANGED <<list, asked, view, query, after, answer, shown>>

Insert(r) ==
  /\ IF list = "plans" THEN r \notin db.rows ELSE r = top + 1
  /\ top' = IF r > top THEN r ELSE top
  /\ Commit([db EXCEPT !.rows = @ \cup {r}])

DeleteRow(r) ==
  /\ r \in db.rows
  /\ Commit([db EXCEPT !.rows = @ \ {r}])
  /\ UNCHANGED top

Workers(n) ==
  /\ n # db.workers
  /\ Commit([db EXCEPT !.workers = n])
  /\ UNCHANGED top

-----------------------------------------------------------------------------
(* One page.                                                               *)

\* Zero asks for the default; anything outside 1..max is refused.
ValidLimit(n) == n \in 0..MaxLimit

NormalizeLimit(n) == IF n = 0 THEN DefaultLimit ELSE n

\* The order a list is read in.
Precedes(a, b) == IF list = "events" THEN a > b ELSE a < b

PastCursor(rows, c) == {r \in rows : c = 0 \/ Precedes(c, r)}

\* ORDER BY
Sorted(rows) ==
  CHOOSE s \in [1..Cardinality(rows) -> rows] :
    /\ ToSet(s) = rows
    /\ \A i, j \in DOMAIN s : i < j => Precedes(s[i], s[j])

\* Up to limit + 1 rows past the cursor: the extra one says there are more.
Fetch(rows, c, limit) ==
  LET found == Sorted(PastCursor(rows, c))
  IN  SubSeq(found, 1, IF Len(found) > limit THEN limit + 1 ELSE Len(found))

\* Mutant: the cursor is the look-ahead row, which the next page then skips.
PageOfLookAhead(rows, c, limit) ==
  LET items == Fetch(rows, c, limit)
      more  == Len(items) > limit
  IN  [items   |-> IF more THEN SubSeq(items, 1, limit) ELSE items,
       hasMore |-> more,
       next    |-> IF more THEN items[limit + 1] ELSE 0]

\* Mutant: the last page carries a cursor too.
PageOfCursorAlways(rows, c, limit) ==
  LET items == Fetch(rows, c, limit)
      more  == Len(items) > limit
      kept  == IF more THEN SubSeq(items, 1, limit) ELSE items
  IN  [items |-> kept, hasMore |-> more,
       next  |-> IF kept # <<>> THEN kept[Len(kept)] ELSE 0]

PageOf(rows, c, limit) ==
  LET items == Fetch(rows, c, limit)
      more  == Len(items) > limit
      kept  == IF more THEN SubSeq(items, 1, limit) ELSE items
  IN  [items |-> kept, hasMore |-> more,
       next  |-> IF more THEN kept[limit] ELSE 0]

\* Mutant: the queries run outside a transaction.
VisibleLive == db

\* What the queries of one read-only transaction see.
Visible == view

FailQuery ==
  /\ query' = "failed"
  /\ UNCHANGED <<list, asked, db, top, view, after, answer, during, shown,
                 throughout, writes>>

Proceed(to, a) ==
  /\ query' = to
  /\ answer' = a
  /\ UNCHANGED <<list, asked, db, top, view, after, during, shown,
                 throughout, writes>>

\* The client asks; the limits are checked before the transaction begins,
\* and its first read fixes what all of its queries see.
BeginRead ==
  /\ query = "ask"
  /\ ValidLimit(asked)
  /\ query' = "begun"
  /\ view' = db
  /\ during' = {db}
  /\ answer' = Blank
  /\ UNCHANGED <<list, asked, db, top, after, shown, throughout, writes>>

RefuseLimit == query = "ask" /\ ~ValidLimit(asked) /\ FailQuery

\* The cursor must still name a row of the scope.
CheckCursor ==
  /\ query = "begun"
  /\ after = 0 \/ after \in Visible.rows
  /\ Proceed("scoped", answer)

RefuseCursor ==
  /\ query = "begun"
  /\ ~(after = 0 \/ after \in Visible.rows)
  /\ FailQuery

ReadCounts ==
  /\ query = "scoped"
  /\ Proceed("counted", [answer EXCEPT !.total = Cardinality(Visible.rows)])

\* The active workers are never truncated: past the cap the query fails.
ReadWorkers ==
  /\ query = "counted"
  /\ Visible.workers <= MaxActive
  /\ Proceed("workers", [answer EXCEPT !.workers = Visible.workers])

RefuseWorkers ==
  /\ query = "counted"
  /\ Visible.workers > MaxActive
  /\ FailQuery

ReadEventCursor ==
  /\ query = "workers"
  /\ Proceed("placed",
       [answer EXCEPT !.cursor = LET R == Visible.rows
                                 IN IF R = {} THEN 0
                                    ELSE CHOOSE m \in R : \A r \in R : r <= m])

ReadPage ==
  /\ query = "placed"
  /\ LET p == PageOf(Visible.rows, after, NormalizeLimit(asked))
     IN  Proceed("read", [answer EXCEPT !.items = p.items, !.next = p.next,
                                        !.hasMore = p.hasMore])

-----------------------------------------------------------------------------
(* The client.                                                             *)

InOrder(s) == \A i \in 1..(Len(s) - 1) : Precedes(s[i], s[i + 1])

\* What the client insists on before it shows a response.
ValidResponse(a) ==
  /\ Len(a.items) <= MaxLimit
  /\ a.hasMore <=> a.next > 0
  /\ a.workers <= MaxActive
  /\ list = "events" => \A i \in DOMAIN a.items : a.items[i] <= a.cursor
  /\ list # "plans" => InOrder(a.items)

\* A response that fails the validation is an error, never shown.
ShowPage ==
  /\ query = "read"
  /\ IF ValidResponse(answer)
       THEN /\ shown' = shown \o answer.items
            /\ after' = answer.next
            /\ query' = IF answer.hasMore THEN "ask" ELSE "done"
       ELSE query' = "failed" /\ UNCHANGED <<shown, after>>
  /\ UNCHANGED <<list, asked, db, top, view, answer, during, throughout,
                 writes>>

PagesInit ==
  /\ list \in Lists
  /\ asked \in AskedLimits
  /\ \E n \in 0..MaxRowId :
        /\ top = n
        /\ \E R \in SUBSET (1..n) : db = [rows |-> R, workers |-> 0]
  /\ view = db
  /\ query = "ask"
  /\ after = 0
  /\ answer = Blank
  /\ during = {db}
  /\ shown = <<>>
  /\ throughout = db.rows
  /\ writes = 0

ReadStep ==
  \/ BeginRead \/ RefuseLimit \/ CheckCursor \/ RefuseCursor \/ ReadCounts
  \/ ReadWorkers \/ RefuseWorkers \/ ReadEventCursor \/ ReadPage
  \/ ShowPage

PagesNext ==
  \/ \E r \in 1..MaxRowId : Insert(r) \/ DeleteRow(r)
  \/ \E n \in 0..(MaxActive + 1) : Workers(n)
  \/ ReadStep

PagesSpec == PagesInit /\ [][PagesNext]_pageVars

-----------------------------------------------------------------------------
(* The parts of one response (totals, workers, page) are the parts of one  *)
(* database state that existed while the query ran.                        *)
AnInstant ==
  query = "read" =>
    \E s \in during :
      /\ answer.total = Cardinality(s.rows)
      /\ answer.workers = s.workers
      /\ LET p == PageOf(s.rows, after, NormalizeLimit(asked))
         IN  answer.items = p.items /\ answer.hasMore = p.hasMore

(* A walk through the pages is exact.  Each response is one instant of the *)
(* database and passes the client's validation, so that a refusal there    *)
(* means a broken peer and not a busy one; and a walk that reaches its end *)
(* has shown every row that was in the list from its first page to its     *)
(* last, once and in order, however many rows came and went in between.    *)
PagesAreExact ==
  /\ AnInstant
  /\ query = "read" => ValidResponse(answer)
  /\ InOrder(shown)
  /\ query = "done" => throughout \subseteq ToSet(shown)
=============================================================================
