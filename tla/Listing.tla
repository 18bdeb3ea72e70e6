------------------------------ MODULE Listing ------------------------------
(***************************************************************************)
(* The two list endpoints, and a client that walks through one of them.    *)
(* A page and its total are two statements, nothing pins the rows between  *)
(* them or from one page to the next, and pages are cut by LIMIT and       *)
(* OFFSET: what does a client that reads page after page get to see?       *)
(*                                                                         *)
(* A row is its rank in ORDER BY created_at DESC, id DESC, which never     *)
(* changes.  A row may appear anywhere in that order (an older project the *)
(* user is added to, a sandbox whose transaction began earlier) and only   *)
(* the operator removes one (a membership revoked, a project deleted).     *)
(***************************************************************************)
EXTENDS Integers, FiniteSets

CONSTANTS
  Ranks,         \* the rows there can be, by rank
  DefaultLimit, MaxLimit,
  MaxInt32,      \* the largest value of the width of limit and offset in SQL
  RawNumbers,    \* what limit and offset parse to
  MaxChanges,    \* a bound: insertions, and removals, of a behaviour
  Null           \* a parameter that is missing or is not a number

ASSUME ListingAssumption ==
  /\ Ranks \subseteq Int /\ IsFiniteSet(Ranks)
  /\ MaxInt32 \in Nat /\ RawNumbers \subseteq Int /\ Null \notin Int
  /\ MaxLimit \in 1..MaxInt32 /\ DefaultLimit \in 1..MaxLimit
  /\ Cardinality(Ranks) <= MaxInt32

VARIABLES
  rows,          \* per list, the rows its WHERE clause selects
  walk,          \* the client's walk, with the request it is waiting for
  due,           \* history: the rows the walk set out to see
  seen,          \* history: the rows it was sent
  repeated,      \* history: how many rows it was sent more than once
  inserted, removed   \* history: changes since the walk began

vars == <<rows, walk, due, seen, repeated, inserted, removed>>

Lists == {"projects", "sandboxes"}

Params == [limit : 1..MaxLimit, offset : 0..MaxInt32]

-----------------------------------------------------------------------------
(* The request. *)

\* A conversion to int32 keeps the low bits.
Int32(n) == ((n + MaxInt32 + 1) % (2 * (MaxInt32 + 1))) - (MaxInt32 + 1)

Least(m, n) == IF m < n THEN m ELSE n

\* A mutation: the offset is not clamped before it is converted.
ParsePagination_NoClamp(l, o) ==
  [limit  |-> Int32(IF l # Null /\ l > 0 THEN Least(l, MaxLimit) ELSE DefaultLimit),
   offset |-> Int32(IF o # Null /\ o >= 0 THEN o ELSE 0)]

ParsePagination(l, o) ==
  [limit  |-> Int32(IF l # Null /\ l > 0 THEN Least(l, MaxLimit) ELSE DefaultLimit),
   offset |-> Int32(IF o # Null /\ o >= 0 THEN Least(o, MaxInt32) ELSE 0)]

\* How many rows of a list come before x.
Index(x, list) == Cardinality({y \in list : y < x})

\* A mutation: the page starts one row early.
Window_Early(list, p) ==
  {x \in list : p.offset - 1 <= Index(x, list) /\ Index(x, list) < p.offset + p.limit}

\* LIMIT and OFFSET.
Window(list, p) ==
  {x \in list : p.offset <= Index(x, list) /\ Index(x, list) < p.offset + p.limit}

ListProjectsByUser(p) == Window(rows["projects"], p)
ListSandboxesByProject(p) == Window(rows["sandboxes"], p)
CountProjectsByUser == Cardinality(rows["projects"])
CountSandboxesByProject == Cardinality(rows["sandboxes"])

\* The last page of NewResponse: total / limit, rounded up.
TotalPages(total, limit) == (total + limit - 1) \div limit

-----------------------------------------------------------------------------
Init ==
  /\ rows \in [Lists -> SUBSET Ranks]
  /\ walk \in [list : Lists, pc : {"idle"}, params : {Null}, page : {{}}, total : {0}]
  /\ \A l \in Lists \ {walk.list} : rows[l] = {}   \* it plays no part
  /\ due = {} /\ seen = {} /\ repeated = 0 /\ inserted = 0 /\ removed = 0

Listed == rows[walk.list]

\* The first statement of a request reads the page, the second the total.
Statements_CountFirst == <<"total", "page">>
Statements == <<"page", "total">>

\* The request for the next page, or for the same one again.
Ask(l, o) ==
  walk' = [walk EXCEPT !.pc = Statements[1], !.params = ParsePagination(l, o),
                       !.page = {}, !.total = 0]

\* A client sets out with any limit, from any offset.
Start(l, o) ==
  /\ walk.pc = "idle"
  /\ Ask(l, o)
  /\ due' = {x \in Listed : Index(x, Listed) >= ParsePagination(l, o).offset}
  /\ UNCHANGED <<rows, seen, repeated, inserted, removed>>

Statement(page, total) ==
  /\ \/ walk.pc = "page" /\ walk' =
          [walk EXCEPT !.page = page,
                       !.pc = IF Statements[2] = "page" THEN "reply" ELSE Statements[2]]
     \/ walk.pc = "total" /\ walk' =
          [walk EXCEPT !.total = total,
                       !.pc = IF Statements[2] = "total" THEN "reply" ELSE Statements[2]]
  /\ UNCHANGED <<rows, due, seen, repeated, inserted, removed>>

\* ProjectService.ListByUser.
ListByUser ==
  walk.list = "projects" /\ Statement(ListProjectsByUser(walk.params), CountProjectsByUser)

\* SandboxService.ListByProject.
ListByProject ==
  /\ walk.list = "sandboxes"
  /\ Statement(ListSandboxesByProject(walk.params), CountSandboxesByProject)

Walking == walk.pc \in {"page", "total", "reply"}

\* A statement fails, or the answer is lost: the client asks for the page again.
Fail ==
  /\ Walking
  /\ Ask(walk.params.limit, walk.params.offset)
  /\ UNCHANGED <<rows, due, seen, repeated, inserted, removed>>

\* The page the client is on is, by the total it was told, the last one.
LastPage ==
  (walk.params.offset \div walk.params.limit) + 1 >= TotalPages(walk.total, walk.params.limit)

\* The answer arrives; the client goes on from where the answered page ends.
Reply ==
  /\ walk.pc = "reply"
  /\ seen' = seen \cup walk.page
  /\ repeated' = repeated + Cardinality(walk.page \cap seen)
  /\ IF LastPage THEN walk' = [walk EXCEPT !.pc = "over"]
     ELSE Ask(walk.params.limit, walk.params.offset + walk.params.limit)
  /\ UNCHANGED <<rows, due, inserted, removed>>

\* What changes before or after a walk does not concern it.
Insert(x) ==
  /\ Walking /\ x \notin Listed /\ inserted < MaxChanges
  /\ rows' = [rows EXCEPT ![walk.list] = @ \cup {x}]
  /\ inserted' = inserted + 1
  /\ UNCHANGED <<walk, due, seen, repeated, removed>>

Remove(x) ==
  /\ Walking /\ x \in Listed /\ removed < MaxChanges
  /\ rows' = [rows EXCEPT ![walk.list] = @ \ {x}]
  /\ removed' = removed + 1
  /\ UNCHANGED <<walk, due, seen, repeated, inserted>>

Over == walk.pc = "over" /\ UNCHANGED vars

Next ==
  \/ \E l, o \in RawNumbers \cup {Null} : Start(l, o)
  \/ ListByUser \/ ListByProject \/ Fail \/ Reply
  \/ \E x \in Ranks : Insert(x) \/ Remove(x)
  \/ Over

Spec == Init /\ [][Next]_vars

-----------------------------------------------------------------------------
\* Whatever a client sends, what reaches SQL is a limit the service allows and
\* an offset that is not negative (parsePagination and its int32 conversions).
TypeOK ==
  /\ rows \in [Lists -> SUBSET Ranks]
  /\ walk \in [list : Lists, pc : {"idle", "page", "total", "reply", "over"},
               params : Params \cup {Null}, page : SUBSET Ranks, total : Nat]
  /\ walk.pc # "idle" => walk.params \in Params
  /\ due \subseteq Ranks /\ seen \subseteq Ranks
  /\ repeated \in Nat /\ inserted \in Nat /\ removed \in Nat

\* Rows that were there from beginning to end and that the client never got.
Missed == (due \cap Listed) \ seen

\* A walk that has ended missed at most one row per row removed meanwhile, and
\* none for those inserted, though the total that ended it was read after the
\* page (ListByUser, ListByProject: first the page, then the count).
MissedAtMostRemoved ==
  walk.pc = "over" => Cardinality(Missed) <= removed

\* A walk gets at most one row twice per row inserted meanwhile, and none for
\* those removed (LIMIT and OFFSET over an order that is total).
RepeatedAtMostInserted == repeated <= inserted

=============================================================================
