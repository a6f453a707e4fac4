------------------------- MODULE ContentPublishing -------------------------
(***************************************************************************)
(* The content rows that editors publish: projects on the one hand, posts, *)
(* services and courses on the other, with the categories they belong to.  *)
(* A call reads and then writes in a statement of its own, except that     *)
(* bulk publishing writes in one transaction of two statements.  Several   *)
(* editors work at once, and every statement sees what is committed when   *)
(* it runs.  What only the caches see is in ContentCache.                  *)
(***************************************************************************)
EXTENDS Naturals

CONSTANTS
    Rows,               \* identifiers of rows
    Projects,           \* those of projects
    Categories,         \* identifiers of categories
    ProjectCategories,  \* those of categories of projects
    Editors,            \* calls that may be under way at the same time
    None,               \* no category
    MaxNow              \* bound: the days that are told apart

ASSUME ConstantsAssumption ==
    /\ None \notin Categories
    /\ MaxNow \in Nat \ {0}

VARIABLES
    now,        \* today
    rows,       \* the table
    categories, \* categories[c]: "new", "there" or "gone"
    call,       \* call[e]: what e does and how far it is
    touched     \* touched[e]: the rows others have written since e read
                \* (for the properties only)

vars == <<now, rows, categories, call, touched>>

\* PLANNED stands for IN_PROGRESS and COMPLETED too: nothing tells them apart.
ProjectStatus == {"PROFILED", "DRAFT", "PLANNED", "ARCHIVED"}
ContentStatus == {"DRAFT", "PUBLISHED", "ARCHIVED"}
StatusesOf(r) == IF r \in Projects THEN ProjectStatus ELSE ContentStatus
PublishedAs(r) == IF r \in Projects THEN "PROFILED" ELSE "PUBLISHED"

NoDate == 0
Dates == 1..MaxNow
Row == [status : ProjectStatus \cup ContentStatus \cup {"ABSENT"},
        date : Dates \cup {NoDate},         \* publishedAt
        deleted : BOOLEAN,                  \* deletedAt is set
        category : Categories \cup {None}]
Absent == [status |-> "ABSENT", date |-> NoDate, deleted |-> FALSE, category |-> None]

Call == [pc : {"idle", "update", "status", "bulk", "publish", "category"},
         on : SUBSET Rows,                  \* the rows it is about
         date : Dates \cup {NoDate},        \* the date that status() has read
         held : SUBSET Rows,                \* rows its transaction has locked
         category : Categories \cup {None}] \* the category it deletes
Idle == [pc |-> "idle", on |-> {}, date |-> NoDate, held |-> {}, category |-> None]

TypeOK ==
    /\ now \in Dates
    /\ rows \in [Rows -> Row]
    /\ \A r \in Rows : rows[r].status \in StatusesOf(r) \cup {"ABSENT"}
    /\ categories \in [Categories -> {"new", "there", "gone"}]
    /\ call \in [Editors -> Call]
    /\ touched \in [Editors -> SUBSET Rows]

Init ==
    /\ now = 1
    /\ rows = [r \in Rows |-> Absent]
    /\ categories = [c \in Categories |-> "new"]
    /\ call = [e \in Editors |-> Idle]
    /\ touched = [e \in Editors |-> {}]

Exists(r) == rows[r].status # "ABSENT"
Live(r) == Exists(r) /\ ~rows[r].deleted
\* What the public endpoints show, if it is not deleted.
Public(r) == Exists(r) /\ rows[r].status \notin {"DRAFT", "ARCHIVED"}

\* The categories a write may name: the foreign key refuses others.
CategoriesFor(r) ==
    {c \in Categories : categories[c] = "there" /\ (c \in ProjectCategories <=> r \in Projects)}
        \cup (IF r \in Projects THEN {} ELSE {None})

\* A statement that writes a row waits for the transaction that holds it.
Free(e, written) == \A x \in Editors \ {e} : written \cap call[x].held = {}

\* Call e reads and goes on at pc; the rows others write are noted from now on.
Goes(e, next) ==
    /\ call' = [call EXCEPT ![e] = next]
    /\ touched' = [touched EXCEPT ![e] = {}]

\* The rows that matter to call x: to delete a category, all of them.
About(x) == IF call[x].pc = "category" THEN Rows ELSE call[x].on

\* The call of e ends and has written the rows in written.
Ends(e, written) ==
    /\ call' = [call EXCEPT ![e] = Idle]
    /\ touched' = [x \in Editors |->
                      IF x = e \/ call[x] = Idle THEN {} ELSE touched[x] \cup (written \cap About(x))]

-----------------------------------------------------------------------------
(* Create, update and remove. *)

\* The date that is stored when status s and date d are given.
WriteData(s, d) == IF s = "PUBLISHED" /\ d = NoDate THEN now ELSE d

Create(e, r, s, d, c) ==
    /\ call[e] = Idle
    /\ ~Exists(r)
    /\ s \in StatusesOf(r)
    /\ c \in CategoriesFor(r)
    /\ rows' = [rows EXCEPT ![r] =
                   [status |-> s, date |-> WriteData(s, d), deleted |-> FALSE, category |-> c]]
    /\ Ends(e, {r})
    /\ UNCHANGED <<now, categories>>

\* mutant of Detail: deleted rows are found too
DetailDeleted(e, r) ==
    /\ call[e] = Idle
    /\ Exists(r)
    /\ \/ Goes(e, [Idle EXCEPT !.pc = "update", !.on = {r}])
       \/ Goes(e, [Idle EXCEPT !.pc = "status", !.on = {r}, !.date = rows[r].date])
    /\ UNCHANGED <<now, rows, categories>>

\* update() and status() look at the row first.
Detail(e, r) ==
    /\ call[e] = Idle
    /\ Live(r)
    /\ \/ Goes(e, [Idle EXCEPT !.pc = "update", !.on = {r}])
       \/ Goes(e, [Idle EXCEPT !.pc = "status", !.on = {r}, !.date = rows[r].date])
    /\ UNCHANGED <<now, rows, categories>>

\* Each of status, date and category may be given or left as it is.  To give
\* PUBLISHED without a date is to date the row today.
Update(e, r) ==
    /\ call[e].pc = "update" /\ r \in call[e].on
    /\ Free(e, {r})
    /\ \E c \in CategoriesFor(r) \cup {rows[r].category} :
          \/ \E s \in StatusesOf(r), d \in Dates \cup {NoDate} :
                rows' = [rows EXCEPT ![r].status = s, ![r].date = WriteData(s, d), ![r].category = c]
          \/ \E s \in (StatusesOf(r) \ {"PUBLISHED"}) \cup {rows[r].status} :
                rows' = [rows EXCEPT ![r].status = s, ![r].category = c]
          \/ \E d \in Dates \cup {NoDate} :
                rows' = [rows EXCEPT ![r].date = d, ![r].category = c]
    /\ Ends(e, {r})
    /\ UNCHANGED <<now, categories>>

\* A row that is deleted already stays as it is, and the call succeeds.
Remove(e, r) ==
    /\ call[e] = Idle
    /\ Live(r)
    /\ Free(e, {r})
    /\ rows' = [rows EXCEPT ![r].deleted = TRUE]
    /\ Ends(e, {r})
    /\ UNCHANGED <<now, categories>>

-----------------------------------------------------------------------------
(* Publishing. *)

StatusDate(s, date) ==
    IF s \in {"DRAFT", "ARCHIVED"} THEN NoDate ELSE IF date # NoDate THEN date ELSE now

\* mutant of Status: publishing again dates the row again
StatusDatesAgain(e, r, s) ==
    /\ call[e].pc = "status" /\ r \in call[e].on
    /\ s \in StatusesOf(r)
    /\ Free(e, {r})
    /\ rows' = [rows EXCEPT ![r].status = s, ![r].date = StatusDate(s, NoDate)]
    /\ Ends(e, {r})
    /\ UNCHANGED <<now, categories>>

\* mutant of Status: one list of statuses for every kind of row
StatusUnchecked(e, r, s) ==
    /\ call[e].pc = "status" /\ r \in call[e].on
    /\ Free(e, {r})
    /\ rows' = [rows EXCEPT ![r].status = s, ![r].date = StatusDate(s, call[e].date)]
    /\ Ends(e, {r})
    /\ UNCHANGED <<now, categories>>

\* The date that was read is written back.
Status(e, r, s) ==
    /\ call[e].pc = "status" /\ r \in call[e].on
    /\ s \in StatusesOf(r)
    /\ Free(e, {r})
    /\ rows' = [rows EXCEPT ![r].status = s, ![r].date = StatusDate(s, call[e].date)]
    /\ Ends(e, {r})
    /\ UNCHANGED <<now, categories>>

\* Bulk actions are about rows of one table, all of which must be live.
BulkFind(e, ids) ==
    /\ call[e] = Idle
    /\ ids # {} /\ (ids \subseteq Projects \/ ids \cap Projects = {})
    /\ \A r \in ids : Live(r)
    /\ Goes(e, [Idle EXCEPT !.pc = "bulk", !.on = ids])
    /\ UNCHANGED <<now, rows, categories>>

BulkData(action, row) ==
    CASE action = "delete"    -> [row EXCEPT !.deleted = TRUE]
      [] action = "archive"   -> [row EXCEPT !.status = "ARCHIVED"]
      [] action = "unpublish" -> [row EXCEPT !.status = "DRAFT", !.date = NoDate]

BulkWrite(e, action) ==
    /\ call[e].pc = "bulk"
    /\ Free(e, call[e].on)
    /\ rows' = [r \in Rows |-> IF r \in call[e].on THEN BulkData(action, rows[r]) ELSE rows[r]]
    /\ Ends(e, call[e].on)
    /\ UNCHANGED <<now, categories>>

\* The first statement of the transaction: the rows that have a date.
PublishDated(e) ==
    LET dated == {r \in call[e].on : rows[r].date # NoDate}
    IN  /\ call[e].pc = "bulk"
        /\ Free(e, dated)
        /\ call' = [call EXCEPT ![e].pc = "publish", ![e].held = dated]
        /\ UNCHANGED <<now, rows, categories, touched>>

\* mutant of PublishUndated: only the first statement is sent
PublishUndatedNever(e) ==
    /\ call[e].pc = "publish"
    /\ rows' = [r \in Rows |->
                   IF r \in call[e].held THEN [rows[r] EXCEPT !.status = PublishedAs(r)] ELSE rows[r]]
    /\ Ends(e, call[e].held)
    /\ UNCHANGED <<now, categories>>

\* The second statement, the rows that have none, and the commit.
PublishUndated(e) ==
    LET undated == {r \in call[e].on : rows[r].date = NoDate}
        written == call[e].held \cup undated
    IN  /\ call[e].pc = "publish"
        /\ Free(e, undated)
        /\ rows' = [r \in Rows |->
                       IF r \in written
                       THEN [rows[r] EXCEPT !.status = PublishedAs(r), !.date = IF @ = NoDate THEN now ELSE @]
                       ELSE rows[r]]
        /\ Ends(e, written)
        /\ UNCHANGED <<now, categories>>

-----------------------------------------------------------------------------
(* Categories.  A change of their names is not modelled. *)

CreateCategory(e, c) ==
    /\ call[e] = Idle
    /\ categories[c] = "new"
    /\ categories' = [categories EXCEPT ![c] = "there"]
    /\ UNCHANGED <<now, rows, call, touched>>

\* mutant of CountCategory: only what the public sees counts
CountCategoryPublic(e, c) ==
    /\ call[e] = Idle
    /\ \A r \in Rows : ~(Live(r) /\ Public(r) /\ rows[r].category = c)
    /\ Goes(e, [Idle EXCEPT !.pc = "category", !.category = c])
    /\ UNCHANGED <<now, rows, categories>>

\* A category that live rows belong to is not deleted.
CountCategory(e, c) ==
    /\ call[e] = Idle
    /\ \A r \in Rows : ~(Live(r) /\ rows[r].category = c)
    /\ Goes(e, [Idle EXCEPT !.pc = "category", !.category = c])
    /\ UNCHANGED <<now, rows, categories>>

\* The foreign key of projects refuses (deleted projects count), that of posts
\* takes the category from the rows that have it.
DeleteCategory(e, c) ==
    LET users == {r \in Rows : rows[r].category = c}
    IN  /\ call[e].pc = "category" /\ call[e].category = c
        /\ categories[c] = "there"
        /\ users \cap Projects = {}
        /\ Free(e, users)
        /\ categories' = [categories EXCEPT ![c] = "gone"]
        /\ rows' = [r \in Rows |-> IF r \in users THEN [rows[r] EXCEPT !.category = None] ELSE rows[r]]
        /\ Ends(e, users)
        /\ UNCHANGED now

-----------------------------------------------------------------------------

\* A refusal, an error, or the process stops: a transaction is rolled back.
Fails(e) ==
    /\ call[e] # Idle
    /\ Ends(e, {})
    /\ UNCHANGED <<now, rows, categories>>

Tick ==
    /\ now < MaxNow
    /\ now' = now + 1
    /\ UNCHANGED <<rows, categories, call, touched>>

RowStep(e, r) ==
    \/ \E s \in StatusesOf(r), d \in Dates \cup {NoDate}, c \in CategoriesFor(r) : Create(e, r, s, d, c)
    \/ Detail(e, r) \/ Update(e, r) \/ Remove(e, r)
    \/ \E s \in ProjectStatus \cup ContentStatus : Status(e, r, s)

EditorStep(e) ==
    \/ \E r \in Rows : RowStep(e, r)
    \/ \E ids \in SUBSET Rows : BulkFind(e, ids)
    \/ \E action \in {"delete", "archive", "unpublish"} : BulkWrite(e, action)
    \/ PublishDated(e) \/ PublishUndated(e)
    \/ \E c \in Categories : CreateCategory(e, c) \/ CountCategory(e, c) \/ DeleteCategory(e, c)
    \/ Fails(e)

Next == (\E e \in Editors : EditorStep(e)) \/ Tick

Spec == Init /\ [][Next]_vars

-----------------------------------------------------------------------------
(* Properties. *)

\* A row that stays public keeps its publication date (admin.service.ts:307,
\* :329): bulk publishing never changes it, whatever happens between its two
\* statements, and a change of status only if the row was written between the
\* reading of the date and its writing.  Editing may set the date.
DateKept(r) ==
    Public(r) /\ Public(r)' /\ rows[r].date # NoDate /\ rows'[r].date # rows[r].date
        => \E e \in Editors :
              /\ r \in call[e].on /\ call'[e] = Idle
              /\ call[e].pc = "update" \/ (call[e].pc = "status" /\ r \in touched[e])
DatesKept == [][\A r \in Rows : DateKept(r)]_vars

\* When bulk publishing commits, each of its rows is public, unless another
\* editor wrote that row in the meantime: one that gets its date between the
\* two statements is matched by neither.
PublishedAll(e) ==
    PublishUndated(e) => \A r \in call[e].on : Public(r)' \/ r \in touched[e]
BulkPublishes == [][\A e \in Editors : PublishedAll(e)]_vars

\* A live row loses its category without being edited only if it was put there
\* between the counting and the deleting: the count of deleteCategory and the
\* foreign keys leave no other way (docs/admin-cms.md:5 knows no exception).
CategoryKept(r) ==
    Live(r) /\ Live(r)' /\ rows'[r].category = None /\ rows[r].category # None
        => \E e \in Editors :
              /\ call'[e] = Idle
              /\ \/ call[e].pc = "update" /\ r \in call[e].on
                 \/ call[e].pc = "category" /\ call[e].category = rows[r].category /\ r \in touched[e]
CategoriesKept == [][\A r \in Rows : CategoryKept(r)]_vars

\* A deleted row changes its status or date only by a call that found it before
\* it was deleted, and no call brings it back.
DeletedSpared(r) ==
    rows[r].deleted /\ rows'[r] # rows[r]
        => /\ rows'[r].deleted
           /\ <<rows'[r].status, rows'[r].date>> # <<rows[r].status, rows[r].date>>
                => \E e \in Editors : r \in call[e].on /\ call'[e] = Idle /\ r \in touched[e]
DeletedAreSpared == [][\A r \in Rows : DeletedSpared(r)]_vars
=============================================================================
