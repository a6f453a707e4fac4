---------------------- MODULE ContentPublishingProofs ----------------------
(***************************************************************************)
(* Proofs about ContentPublishing.  What an editor has read holds of the   *)
(* rows that nobody has touched since: that is the inductive invariant,    *)
(* and every property follows from it step by step.                        *)
(***************************************************************************)
EXTENDS ContentPublishing, TLAPS

\* What a call has read still holds of the rows that others have not written.
ReadBy(e, r) ==
    /\ Live(r)
    /\ call[e].pc = "status" => call[e].date = rows[r].date
    /\ call[e].pc = "publish" /\ r \notin call[e].held => rows[r].date = NoDate
ReadInv == \A e \in Editors : \A r \in call[e].on \ touched[e] : ReadBy(e, r)

\* The live rows of a category that was counted as unused have come since.
CountInv ==
    \A e \in Editors : call[e].pc = "category" =>
        /\ call[e].category \in Categories
        /\ \A r \in Rows : Live(r) /\ rows[r].category = call[e].category => r \in touched[e]

\* A transaction holds rows it is about, and calls are about rows that exist.
HeldInv == \A e \in Editors :
              call[e].held \subseteq call[e].on /\ \A r \in call[e].on : Exists(r)
AbsentInv == \A r \in Rows : Exists(r) \/ rows[r] = Absent

IInv == TypeOK /\ ReadInv /\ CountInv /\ HeldInv /\ AbsentInv

-----------------------------------------------------------------------------
(* The two ways in which a call goes on. *)

\* A step that ends a call keeps what the others have read, if it reports every
\* row that it writes.
LEMMA EndsKeeps ==
    ASSUME IInv, NEW e \in Editors, NEW written \in SUBSET Rows, Ends(e, written),
           \A r \in Rows \ written : rows'[r] = rows[r],
           \A r \in written : Exists(r)'
    PROVE  /\ call' \in [Editors -> Call] /\ touched' \in [Editors -> SUBSET Rows]
           /\ ReadInv' /\ CountInv' /\ HeldInv'
<1>1. /\ call' \in [Editors -> Call] /\ touched' \in [Editors -> SUBSET Rows]
      /\ call'[e] = Idle
      /\ \A x \in Editors \ {e} : call'[x] = call[x]
      /\ \A x \in Editors \ {e} :
            call[x] = Idle \/ touched'[x] = touched[x] \cup (written \cap About(x))
  <2>1. \A x \in Editors : touched[x] \in SUBSET Rows /\ written \cap About(x) \in SUBSET Rows
    BY DEF IInv, TypeOK
  <2> QED BY <2>1 DEF IInv, TypeOK, Ends, Idle, Call
<1>2. ReadInv'
  <2> SUFFICES ASSUME NEW x \in Editors, NEW r \in call'[x].on \ touched'[x]
               PROVE  ReadBy(x, r)'
    BY DEF ReadInv
  <2>1. x # e /\ call[x] # Idle
    BY <1>1 DEF Idle
  <2>2. r \in call[x].on \ touched[x] /\ r \notin written /\ r \in Rows
    BY <2>1, <1>1 DEF IInv, TypeOK, Call, About
  <2>3. ReadBy(x, r) /\ rows'[r] = rows[r] /\ call'[x] = call[x]
    BY <2>1, <2>2, <1>1 DEF IInv, ReadInv
  <2> QED BY <2>3 DEF ReadBy, Live, Exists
<1>3. CountInv'
  <2> SUFFICES ASSUME NEW x \in Editors, call'[x].pc = "category"
               PROVE  /\ call'[x].category \in Categories
                      /\ \A r \in Rows : Live(r)' /\ rows'[r].category = call'[x].category
                                            => r \in touched'[x]
    BY DEF CountInv
  <2>1. x # e /\ call[x] # Idle /\ call'[x] = call[x] /\ touched'[x] = touched[x] \cup written
    BY <1>1 DEF Idle, About
  <2> QED BY <2>1, <1>1 DEF IInv, CountInv, Live, Exists
<1>4. HeldInv'
  <2> SUFFICES ASSUME NEW x \in Editors
               PROVE  call'[x].held \subseteq call'[x].on /\ \A r \in call'[x].on : Exists(r)'
    BY DEF HeldInv
  <2>1. CASE x = e
    BY <1>1, <2>1 DEF Idle
  <2>2. CASE x # e
    <3>1. call'[x] = call[x] /\ call[x].on \subseteq Rows
      BY <1>1, <2>2 DEF IInv, TypeOK, Call
    <3>2. \A r \in Rows : Exists(r) => Exists(r)'
      BY DEF Exists
    <3> QED BY <3>1, <3>2 DEF IInv, HeldInv
  <2> QED BY <2>1, <2>2
<1> QED BY <1>1, <1>2, <1>3, <1>4

\* A call that has read may go on if what it has read is so.
LEMMA GoesKeeps ==
    ASSUME IInv, NEW e \in Editors, NEW next \in Call, Goes(e, next), rows' = rows,
           next.pc \in {"update", "status", "bulk", "category"}, next.held = {},
           \A r \in next.on : Live(r) /\ (next.pc = "status" => next.date = rows[r].date),
           next.pc = "category" =>
               /\ next.category \in Categories
               /\ \A r \in Rows : ~(Live(r) /\ rows[r].category = next.category)
    PROVE  /\ call' \in [Editors -> Call] /\ touched' \in [Editors -> SUBSET Rows]
           /\ ReadInv' /\ CountInv' /\ HeldInv'
<1>1. /\ call' \in [Editors -> Call] /\ touched' \in [Editors -> SUBSET Rows]
      /\ call'[e] = next /\ touched'[e] = {}
      /\ \A x \in Editors \ {e} : call'[x] = call[x] /\ touched'[x] = touched[x]
  BY DEF IInv, TypeOK, Goes
<1>2. \A r : Live(r)' = Live(r) /\ Exists(r)' = Exists(r)
  BY DEF Live, Exists
<1>3. ReadInv'
  BY <1>1, <1>2 DEF IInv, ReadInv, ReadBy
<1>4. CountInv'
  BY <1>1, <1>2 DEF IInv, CountInv
<1>5. HeldInv'
  BY <1>1, <1>2 DEF IInv, HeldInv, Live
<1> QED BY <1>1, <1>3, <1>4, <1>5

\* The first statement of bulk publishing locks the rows that have a date.
LEMMA PublishDatedKeeps ==
    ASSUME IInv, NEW e \in Editors, PublishDated(e)
    PROVE  IInv'
<1> DEFINE dated == {r \in call[e].on : rows[r].date # NoDate}
<1>1. touched' = touched /\ rows' = rows /\ now' = now /\ categories' = categories
  BY DEF PublishDated
<1>2. /\ call[e] \in Call /\ dated \subseteq call[e].on /\ dated \in SUBSET Rows
      /\ call' = [call EXCEPT ![e] = [call[e] EXCEPT !.pc = "publish", !.held = dated]]
  BY DEF IInv, TypeOK, PublishDated, Call
<1>3. /\ [call[e] EXCEPT !.pc = "publish", !.held = dated] \in Call
      /\ call' \in [Editors -> Call]
      /\ \A x \in Editors \ {e} : call'[x] = call[x]
  BY <1>2 DEF IInv, TypeOK, Call
<1>4. call'[e].on = call[e].on /\ call'[e].held = dated /\ call'[e].pc = "publish"
  BY <1>2 DEF IInv, TypeOK, Call
<1>5. \A r : Live(r)' = Live(r) /\ Exists(r)' = Exists(r)
  BY <1>1 DEF Live, Exists
<1>6. ReadInv'
  <2> SUFFICES ASSUME NEW x \in Editors, NEW r \in call'[x].on \ touched[x]
               PROVE  ReadBy(x, r)'
    BY <1>1 DEF ReadInv
  <2>1. r \in call[x].on \ touched[x]
    BY <1>3, <1>4
  <2>2. ReadBy(x, r)
    BY <2>1 DEF IInv, ReadInv
  <2>3. CASE x = e
    BY <2>1, <2>2, <2>3, <1>1, <1>4, <1>5 DEF ReadBy
  <2>4. CASE x # e
    BY <2>2, <2>4, <1>1, <1>3, <1>5 DEF ReadBy
  <2> QED BY <2>3, <2>4
<1>7. CountInv'
  BY <1>1, <1>3, <1>4, <1>5 DEF IInv, CountInv
<1>8. HeldInv'
  BY <1>2, <1>3, <1>4, <1>5 DEF IInv, HeldInv
<1>9. TypeOK' /\ AbsentInv'
  BY <1>1, <1>3, <1>5 DEF IInv, TypeOK, AbsentInv
<1> QED BY <1>6, <1>7, <1>8, <1>9 DEF IInv

-----------------------------------------------------------------------------
(* What each action writes. *)

\* What a write leaves.
RowOK(r) == rows[r] \in Row /\ rows[r].status \in StatusesOf(r)

\* A step that ends a call and writes rows as they should be.
LEMMA WriteKeeps ==
    ASSUME IInv, NEW e \in Editors, NEW written \in SUBSET Rows, Ends(e, written),
           rows' = [r \in Rows |-> rows'[r]],
           \A r \in Rows \ written : rows'[r] = rows[r],
           \A r \in written : RowOK(r)',
           now' = now, categories' \in [Categories -> {"new", "there", "gone"}]
    PROVE  IInv'
<1>1. \A r \in written : Exists(r)'
  BY DEF RowOK, Exists, StatusesOf, ProjectStatus, ContentStatus
<1>2. /\ rows' \in [Rows -> Row]
      /\ \A r \in Rows : rows'[r].status \in StatusesOf(r) \cup {"ABSENT"}
  BY DEF IInv, TypeOK, RowOK
<1>3. AbsentInv'
  BY <1>1 DEF IInv, AbsentInv, Exists
<1>4. now' \in Dates
  BY DEF IInv, TypeOK
<1>5. /\ call' \in [Editors -> Call] /\ touched' \in [Editors -> SUBSET Rows]
      /\ ReadInv' /\ CountInv' /\ HeldInv'
  BY <1>1, EndsKeeps
<1> QED BY <1>2, <1>3, <1>4, <1>5 DEF IInv, TypeOK

\* One row is written: the others stay.
LEMMA OneRowKeeps ==
    ASSUME IInv, NEW e \in Editors, NEW r \in Rows, NEW row \in Row, Ends(e, {r}),
           rows' = [rows EXCEPT ![r] = row],
           row.status \in StatusesOf(r),
           now' = now, categories' = categories
    PROVE  IInv'
<1>1. rows'[r] = row /\ \A x \in Rows \ {r} : rows'[x] = rows[x]
  BY DEF IInv, TypeOK
<1>2. rows' = [x \in Rows |-> rows'[x]]
  BY DEF IInv, TypeOK
<1>3. RowOK(r)'
  BY <1>1 DEF RowOK
<1>4. categories' \in [Categories -> {"new", "there", "gone"}] /\ {r} \in SUBSET Rows
  BY DEF IInv, TypeOK
<1> QED BY <1>1, <1>2, <1>3, <1>4, WriteKeeps

LEMMA DatesWritten ==
    ASSUME TypeOK, NEW d \in Dates \cup {NoDate}, NEW s
    PROVE  WriteData(s, d) \in Dates \cup {NoDate} /\ StatusDate(s, d) \in Dates \cup {NoDate}
  BY DEF TypeOK, WriteData, StatusDate

LEMMA CategoriesAllowed == \A r \in Rows : CategoriesFor(r) \subseteq Categories \cup {None}
  BY DEF CategoriesFor

LEMMA StatusesAllowed == \A r : StatusesOf(r) \subseteq ProjectStatus \cup ContentStatus
  BY DEF StatusesOf

LEMMA CreateKeeps ==
    ASSUME IInv, NEW e \in Editors, NEW r \in Rows, NEW s \in StatusesOf(r),
           NEW d \in Dates \cup {NoDate}, NEW c \in CategoriesFor(r), Create(e, r, s, d, c)
    PROVE  IInv'
<1> DEFINE row == [status |-> s, date |-> WriteData(s, d), deleted |-> FALSE, category |-> c]
<1>1. row \in Row /\ row.status \in StatusesOf(r)
  BY DatesWritten, CategoriesAllowed, StatusesAllowed DEF IInv, Row
<1> QED BY <1>1, OneRowKeeps DEF Create

\* An update gives the row a status, a date and a category, and nothing else.
LEMMA UpdateWrites ==
    ASSUME IInv, NEW e \in Editors, NEW r \in Rows, Exists(r), Update(e, r)
    PROVE  \E c \in CategoriesFor(r) \cup {rows[r].category},
              s \in StatusesOf(r), d \in Dates \cup {NoDate} :
                rows' = [rows EXCEPT ![r] = [rows[r] EXCEPT !.status = s, !.date = d, !.category = c]]
<1>0. rows[r] \in Row /\ rows[r].status \in StatusesOf(r)
  BY DEF IInv, TypeOK, Exists
<1>1. PICK c \in CategoriesFor(r) \cup {rows[r].category} :
        \/ \E s \in StatusesOf(r), d \in Dates \cup {NoDate} :
              rows' = [rows EXCEPT ![r].status = s, ![r].date = WriteData(s, d), ![r].category = c]
        \/ \E s \in (StatusesOf(r) \ {"PUBLISHED"}) \cup {rows[r].status} :
              rows' = [rows EXCEPT ![r].status = s, ![r].category = c]
        \/ \E d \in Dates \cup {NoDate} :
              rows' = [rows EXCEPT ![r].date = d, ![r].category = c]
  BY DEF Update
<1>2. rows \in [Rows -> Row]
  BY DEF IInv, TypeOK
<1>3. ASSUME NEW s \in StatusesOf(r), NEW d \in Dates \cup {NoDate},
             rows' = [rows EXCEPT ![r].status = s, ![r].date = WriteData(s, d), ![r].category = c]
      PROVE  rows' = [rows EXCEPT ![r] = [rows[r] EXCEPT !.status = s, !.date = WriteData(s, d), !.category = c]]
  BY <1>2, <1>3, <1>0 DEF Row
<1>4. ASSUME NEW s \in StatusesOf(r), rows' = [rows EXCEPT ![r].status = s, ![r].category = c]
      PROVE  rows' = [rows EXCEPT ![r] = [rows[r] EXCEPT !.status = s, !.date = rows[r].date, !.category = c]]
  BY <1>2, <1>4, <1>0 DEF Row
<1>5. ASSUME NEW d \in Dates \cup {NoDate}, rows' = [rows EXCEPT ![r].date = d, ![r].category = c]
      PROVE  rows' = [rows EXCEPT ![r] = [rows[r] EXCEPT !.status = rows[r].status, !.date = d, !.category = c]]
  BY <1>2, <1>5, <1>0 DEF Row
<1>6. rows[r].date \in Dates \cup {NoDate}
  BY <1>0 DEF Row
<1>7. \A s, d : d \in Dates \cup {NoDate} => WriteData(s, d) \in Dates \cup {NoDate}
  BY DatesWritten DEF IInv
<1>8. CASE \E s \in StatusesOf(r), d \in Dates \cup {NoDate} :
              rows' = [rows EXCEPT ![r].status = s, ![r].date = WriteData(s, d), ![r].category = c]
  <2>1. PICK s \in StatusesOf(r), d \in Dates \cup {NoDate} :
              rows' = [rows EXCEPT ![r].status = s, ![r].date = WriteData(s, d), ![r].category = c]
    BY <1>8
  <2>2. rows' = [rows EXCEPT ![r] = [rows[r] EXCEPT !.status = s, !.date = WriteData(s, d), !.category = c]]
    BY <2>1, <1>3
  <2>3. WriteData(s, d) \in Dates \cup {NoDate}
    BY <1>7
  <2> QED BY <2>2, <2>3
<1>9. CASE \E s \in (StatusesOf(r) \ {"PUBLISHED"}) \cup {rows[r].status} :
              rows' = [rows EXCEPT ![r].status = s, ![r].category = c]
  BY <1>9, <1>4, <1>6, <1>0
<1>10. CASE \E d \in Dates \cup {NoDate} :
              rows' = [rows EXCEPT ![r].date = d, ![r].category = c]
  BY <1>10, <1>5, <1>0
<1> QED BY <1>1, <1>8, <1>9, <1>10

LEMMA UpdateKeeps ==
    ASSUME IInv, NEW e \in Editors, NEW r \in Rows, Exists(r), Update(e, r)
    PROVE  IInv'
<1>1. rows[r] \in Row /\ rows[r].status \in StatusesOf(r)
  BY DEF IInv, TypeOK, Exists
<1>2. PICK c \in CategoriesFor(r) \cup {rows[r].category},
           s \in StatusesOf(r), d \in Dates \cup {NoDate} :
             rows' = [rows EXCEPT ![r] = [rows[r] EXCEPT !.status = s, !.date = d, !.category = c]]
  BY UpdateWrites
<1>3. /\ [rows[r] EXCEPT !.status = s, !.date = d, !.category = c] \in Row
      /\ [rows[r] EXCEPT !.status = s, !.date = d, !.category = c].status = s
  BY <1>1, CategoriesAllowed, StatusesAllowed DEF Row
<1>4. Ends(e, {r}) /\ now' = now /\ categories' = categories
  BY DEF Update
<1> QED BY <1>2, <1>3, <1>4, OneRowKeeps

LEMMA StatusKeeps ==
    ASSUME IInv, NEW e \in Editors, NEW r \in Rows, NEW s, Status(e, r, s)
    PROVE  IInv'
<1> DEFINE row == [rows[r] EXCEPT !.status = s, !.date = StatusDate(s, call[e].date)]
<1>1. rows[r] \in Row /\ rows \in [Rows -> Row] /\ call[e].date \in Dates \cup {NoDate}
  BY DEF IInv, TypeOK, Call
<1>2. rows' = [rows EXCEPT ![r] = row]
  BY <1>1 DEF Status, Row
<1>3. s \in StatusesOf(r) /\ StatusDate(s, call[e].date) \in Dates \cup {NoDate}
  BY <1>1, DatesWritten DEF Status, IInv
<1>4. row \in Row /\ row.status = s
  BY <1>1, <1>3, StatusesAllowed DEF Row
<1> QED BY <1>2, <1>3, <1>4, OneRowKeeps DEF Status

LEMMA RemoveKeeps ==
    ASSUME IInv, NEW e \in Editors, NEW r \in Rows, Remove(e, r)
    PROVE  IInv'
<1> DEFINE row == [rows[r] EXCEPT !.deleted = TRUE]
<1>1. rows[r] \in Row /\ rows \in [Rows -> Row] /\ rows[r].status \in StatusesOf(r)
  BY DEF IInv, TypeOK, Remove, Live, Exists
<1>2. rows' = [rows EXCEPT ![r] = row]
  BY <1>1 DEF Remove
<1>3. row \in Row /\ row.status \in StatusesOf(r)
  BY <1>1 DEF Row
<1> QED BY <1>2, <1>3, OneRowKeeps DEF Remove

LEMMA BulkWriteKeeps ==
    ASSUME IInv, NEW e \in Editors,
           NEW action \in {"delete", "archive", "unpublish"}, BulkWrite(e, action)
    PROVE  IInv'
<1> DEFINE ids == call[e].on
<1>1. ids \in SUBSET Rows /\ \A r \in ids : rows[r] \in Row /\ rows[r].status \in StatusesOf(r)
  BY DEF IInv, TypeOK, Call, HeldInv, Exists
<1>2. Ends(e, ids) /\ now' = now /\ categories' = categories
  BY DEF BulkWrite
<1>3. /\ rows' = [r \in Rows |-> rows'[r]]
      /\ \A r \in Rows \ ids : rows'[r] = rows[r]
      /\ \A r \in ids : rows'[r] = BulkData(action, rows[r])
  BY <1>1 DEF BulkWrite
<1>4. \A r \in ids : RowOK(r)'
  <2> SUFFICES ASSUME NEW r \in ids
               PROVE  rows'[r] \in Row /\ rows'[r].status \in StatusesOf(r)
    BY DEF RowOK
  <2>1. {"DRAFT", "ARCHIVED"} \subseteq StatusesOf(r)
    BY DEF StatusesOf, ProjectStatus, ContentStatus
  <2>2. CASE action = "delete"
    BY <1>1, <1>3, <2>2 DEF BulkData, Row
  <2>3. CASE action = "archive"
    BY <1>1, <1>3, <2>1, <2>3, StatusesAllowed DEF BulkData, Row
  <2>4. CASE action = "unpublish"
    BY <1>1, <1>3, <2>1, <2>4, StatusesAllowed DEF BulkData, Row
  <2> QED BY <2>2, <2>3, <2>4
<1>5. categories' \in [Categories -> {"new", "there", "gone"}]
  BY <1>2 DEF IInv, TypeOK
<1> QED BY <1>1, <1>2, <1>3, <1>4, <1>5, WriteKeeps

\* What the commit of bulk publishing makes of each row.
LEMMA Committed ==
    ASSUME IInv, NEW e \in Editors, PublishUndated(e)
    PROVE  \E written \in SUBSET call[e].on :
              /\ \A r \in call[e].on : rows[r].date = NoDate \/ r \in call[e].held => r \in written
              /\ Ends(e, written)
              /\ rows' = [r \in Rows |-> rows'[r]]
              /\ \A r \in Rows \ written : rows'[r] = rows[r]
              /\ \A r \in written : /\ rows'[r] \in Row
                                    /\ rows'[r].status = PublishedAs(r)
                                    /\ rows'[r].deleted = rows[r].deleted
                                    /\ rows'[r].category = rows[r].category
                                    /\ rows[r].date # NoDate => rows'[r].date = rows[r].date
<1> DEFINE undated == {r \in call[e].on : rows[r].date = NoDate}
           written == call[e].held \cup undated
<1>1. written \in SUBSET call[e].on
  BY DEF IInv, HeldInv
<1>2. /\ Ends(e, written)
      /\ rows' = [r \in Rows |->
                     IF r \in written
                     THEN [rows[r] EXCEPT !.status = PublishedAs(r), !.date = IF @ = NoDate THEN now ELSE @]
                     ELSE rows[r]]
  BY DEF PublishUndated
<1>3. \A r \in written : r \in Rows /\ rows[r] \in Row /\ now \in Dates
  BY <1>1 DEF IInv, TypeOK, Call
<1>4. \A r \in written :
         /\ rows'[r] \in Row
         /\ rows'[r].status = PublishedAs(r)
         /\ rows'[r].deleted = rows[r].deleted
         /\ rows'[r].category = rows[r].category
         /\ rows[r].date # NoDate => rows'[r].date = rows[r].date
  BY <1>2, <1>3 DEF Row, PublishedAs, ProjectStatus, ContentStatus
<1>5. rows' = [r \in Rows |-> rows'[r]] /\ \A r \in Rows \ written : rows'[r] = rows[r]
  BY <1>2
<1> QED BY <1>1, <1>2, <1>4, <1>5

LEMMA PublishUndatedKeeps ==
    ASSUME IInv, NEW e \in Editors, PublishUndated(e)
    PROVE  IInv'
<1>1. PICK written \in SUBSET call[e].on :
         /\ Ends(e, written)
         /\ rows' = [r \in Rows |-> rows'[r]]
         /\ \A r \in Rows \ written : rows'[r] = rows[r]
         /\ \A r \in written : rows'[r] \in Row /\ rows'[r].status = PublishedAs(r)
  BY Committed
<1>2. written \in SUBSET Rows
  BY DEF IInv, TypeOK, Call
<1>3. \A r \in written : RowOK(r)'
  BY <1>1 DEF RowOK, PublishedAs, StatusesOf, ProjectStatus, ContentStatus
<1>4. now' = now /\ categories' \in [Categories -> {"new", "there", "gone"}]
  BY DEF PublishUndated, IInv, TypeOK
<1> QED BY <1>1, <1>2, <1>3, <1>4, WriteKeeps

LEMMA DeleteCategoryKeeps ==
    ASSUME IInv, NEW e \in Editors, NEW c \in Categories, DeleteCategory(e, c)
    PROVE  IInv'
<1> DEFINE users == {r \in Rows : rows[r].category = c}
<1>1. /\ Ends(e, users) /\ now' = now
      /\ categories' \in [Categories -> {"new", "there", "gone"}]
      /\ rows' = [r \in Rows |-> IF r \in users THEN [rows[r] EXCEPT !.category = None] ELSE rows[r]]
  BY DEF DeleteCategory, IInv, TypeOK
<1>2. \A r \in users : rows[r] \in Row /\ rows[r].status \in StatusesOf(r)
  <2> SUFFICES ASSUME NEW r \in users PROVE rows[r] \in Row /\ rows[r].status \in StatusesOf(r)
    OBVIOUS
  <2>1. rows[r] # Absent
    BY ConstantsAssumption DEF Absent
  <2> QED BY <2>1 DEF IInv, TypeOK, AbsentInv, Exists
<1>3. \A r \in users : RowOK(r)'
  BY <1>1, <1>2 DEF RowOK, Row
<1> QED BY <1>1, <1>3, WriteKeeps

\* Calls that only read.
LEMMA ReadsKeep ==
    ASSUME IInv, NEW e \in Editors,
           \/ \E r \in Rows : Detail(e, r)
           \/ \E ids \in SUBSET Rows : BulkFind(e, ids)
           \/ \E c \in Categories : CountCategory(e, c)
    PROVE  IInv'
<1>1. PICK next \in Call :
         /\ Goes(e, next) /\ next.pc \in {"update", "status", "bulk", "category"} /\ next.held = {}
         /\ \A r \in next.on : Live(r) /\ (next.pc = "status" => next.date = rows[r].date)
         /\ next.pc = "category" =>
                /\ next.category \in Categories
                /\ \A r \in Rows : ~(Live(r) /\ rows[r].category = next.category)
  <2>1. CASE \E r \in Rows : Detail(e, r)
    <3>1. PICK r \in Rows : Detail(e, r)
      BY <2>1
    <3>2. rows[r].date \in Dates \cup {NoDate} /\ Live(r)
      BY <3>1 DEF Detail, IInv, TypeOK, Row
    <3>3. CASE Goes(e, [Idle EXCEPT !.pc = "update", !.on = {r}])
      <4> DEFINE next == [Idle EXCEPT !.pc = "update", !.on = {r}]
      <4>1. /\ next \in Call /\ next.pc = "update" /\ next.held = {} /\ next.on = {r}
        BY DEF Idle, Call
      <4> QED BY <3>2, <3>3, <4>1
    <3>4. CASE Goes(e, [Idle EXCEPT !.pc = "status", !.on = {r}, !.date = rows[r].date])
      <4> DEFINE next == [Idle EXCEPT !.pc = "status", !.on = {r}, !.date = rows[r].date]
      <4>1. /\ next \in Call /\ next.pc = "status" /\ next.held = {} /\ next.on = {r}
            /\ next.date = rows[r].date
        BY <3>2 DEF Idle, Call
      <4> QED BY <3>2, <3>4, <4>1
    <3> QED BY <3>1, <3>3, <3>4 DEF Detail
  <2>2. CASE \E ids \in SUBSET Rows : BulkFind(e, ids)
    <3>1. PICK ids \in SUBSET Rows : BulkFind(e, ids)
      BY <2>2
    <3> DEFINE next == [Idle EXCEPT !.pc = "bulk", !.on = ids]
    <3>2. /\ next \in Call /\ next.pc = "bulk" /\ next.held = {} /\ next.on = ids
      BY DEF Idle, Call
    <3> QED BY <3>1, <3>2 DEF BulkFind
  <2>3. CASE \E c \in Categories : CountCategory(e, c)
    <3>1. PICK c \in Categories : CountCategory(e, c)
      BY <2>3
    <3> DEFINE next == [Idle EXCEPT !.pc = "category", !.category = c]
    <3>2. /\ next \in Call /\ next.pc = "category" /\ next.held = {} /\ next.on = {}
          /\ next.category = c
      BY DEF Idle, Call
    <3>3. Goes(e, next) /\ \A r \in Rows : ~(Live(r) /\ rows[r].category = c)
      BY <3>1 DEF CountCategory
    <3>4. \A r \in next.on : Live(r) /\ (next.pc = "status" => next.date = rows[r].date)
      BY <3>2
    <3> HIDE DEF next
    <3> QED BY <3>2, <3>3, <3>4
  <2> QED BY <2>1, <2>2, <2>3
<1>2. rows' = rows /\ now' = now /\ categories' = categories
  BY DEF Detail, BulkFind, CountCategory
<1>3. /\ call' \in [Editors -> Call] /\ touched' \in [Editors -> SUBSET Rows]
      /\ ReadInv' /\ CountInv' /\ HeldInv'
  BY <1>1, <1>2, GoesKeeps
<1> QED BY <1>2, <1>3 DEF IInv, TypeOK, AbsentInv, Exists

\* Steps that change neither rows nor, but for ending one, calls.
LEMMA OthersKeep ==
    ASSUME IInv,
           \/ \E e \in Editors : Fails(e) \/ \E c \in Categories : CreateCategory(e, c)
           \/ Tick
           \/ UNCHANGED vars
    PROVE  IInv'
<1>1. CASE \E e \in Editors : Fails(e)
  <2>1. PICK e \in Editors : Fails(e)
    BY <1>1
  <2>2. /\ rows' = [r \in Rows |-> rows'[r]] /\ Ends(e, {})
        /\ \A r \in Rows \ {} : rows'[r] = rows[r]
        /\ now' = now /\ categories' \in [Categories -> {"new", "there", "gone"}]
    BY <2>1 DEF Fails, IInv, TypeOK
  <2> QED BY <2>2, WriteKeeps
<1>2. CASE (\E e \in Editors, c \in Categories : CreateCategory(e, c)) \/ Tick \/ UNCHANGED vars
  <2>1. rows' = rows /\ call' = call /\ touched' = touched
    BY <1>2 DEF CreateCategory, Tick, vars
  <2>2. now' \in Dates /\ categories' \in [Categories -> {"new", "there", "gone"}]
    BY <1>2, ConstantsAssumption DEF CreateCategory, Tick, vars, IInv, TypeOK, Dates
  <2>3. TypeOK'
    BY <2>1, <2>2 DEF IInv, TypeOK
  <2>4. ReadInv' /\ CountInv' /\ HeldInv' /\ AbsentInv'
    BY <2>1 DEF IInv, ReadInv, ReadBy, CountInv, HeldInv, AbsentInv, Live, Exists
  <2> QED BY <2>3, <2>4 DEF IInv
<1> QED BY <1>1, <1>2

-----------------------------------------------------------------------------

LEMMA InitIInv == Init => IInv
<1> SUFFICES ASSUME Init PROVE IInv
  OBVIOUS
<1>1. TypeOK
  BY ConstantsAssumption DEF Init, TypeOK, Absent, Row, Idle, Call, Dates
<1>2. ReadInv /\ CountInv /\ HeldInv /\ AbsentInv
  BY DEF Init, ReadInv, CountInv, HeldInv, AbsentInv, Idle
<1> QED BY <1>1, <1>2 DEF IInv

LEMMA NextIInv == IInv /\ [Next]_vars => IInv'
<1> SUFFICES ASSUME IInv, [Next]_vars PROVE IInv'
  OBVIOUS
<1>1. ASSUME NEW e \in Editors, NEW r \in Rows, RowStep(e, r)
      PROVE  IInv'
  <2>1. CASE \E s \in StatusesOf(r), d \in Dates \cup {NoDate}, c \in CategoriesFor(r) :
                Create(e, r, s, d, c)
    BY <2>1, CreateKeeps
  <2>2. CASE Detail(e, r)
    BY <2>2, ReadsKeep
  <2>3. CASE Update(e, r)
    <3>1. Exists(r)
      BY <2>3 DEF Update, IInv, HeldInv
    <3> QED BY <2>3, <3>1, UpdateKeeps
  <2>4. CASE Remove(e, r)
    BY <2>4, RemoveKeeps
  <2>5. CASE \E s \in ProjectStatus \cup ContentStatus : Status(e, r, s)
    BY <2>5, StatusKeeps
  <2> QED BY <1>1, <2>1, <2>2, <2>3, <2>4, <2>5 DEF RowStep
<1>2. ASSUME NEW e \in Editors, EditorStep(e)
      PROVE  IInv'
  BY <1>1, <1>2, ReadsKeep, BulkWriteKeeps, PublishDatedKeeps, PublishUndatedKeeps,
     DeleteCategoryKeeps, OthersKeep DEF EditorStep
<1> QED BY <1>2, OthersKeep DEF Next

LEMMA Invariance == Spec => []IInv
  BY InitIInv, NextIInv, PTL DEF Spec

\* Every variable keeps its type, and every row has a status of its kind.
THEOREM TypeCorrect == Spec => []TypeOK
  BY Invariance, PTL DEF IInv

-----------------------------------------------------------------------------
(* What one step can do to one row. *)

\* Every step of an editor that writes a row ends a call, and does one of these
\* to the row.
WritesRow(e, r) ==
    \/ ~Exists(r) /\ ~rows[r].deleted
    \/ /\ call[e].pc = "update" /\ r \in call[e].on
       /\ rows'[r].deleted = rows[r].deleted
    \/ /\ call[e].pc = "status" /\ r \in call[e].on
       /\ rows'[r].deleted = rows[r].deleted /\ rows'[r].category = rows[r].category
       /\ \E s \in StatusesOf(r) :
             rows'[r].status = s /\ rows'[r].date = StatusDate(s, call[e].date)
    \/ /\ Live(r) /\ rows'[r].deleted
       /\ rows'[r].date = rows[r].date
    \/ /\ call[e].pc \in {"bulk", "publish"} /\ r \in call[e].on
       /\ rows'[r].category = rows[r].category
       /\ rows'[r].deleted \in {rows[r].deleted, TRUE}
       /\ \/ rows'[r].status \in {"DRAFT", "ARCHIVED"}
          \/ rows[r].date # NoDate => rows'[r].date = rows[r].date
    \/ /\ call[e].pc = "category" /\ rows[r].category = call[e].category
       /\ rows'[r].deleted = rows[r].deleted
       /\ rows'[r].status = rows[r].status /\ rows'[r].date = rows[r].date

LEMMA RowChanges ==
    ASSUME IInv, [Next]_vars, NEW r \in Rows, rows'[r] # rows[r]
    PROVE  \E e \in Editors : call'[e] = Idle /\ WritesRow(e, r)
<1> rows \in [Rows -> Row] /\ rows[r] \in Row /\ call \in [Editors -> Call]
  BY DEF IInv, TypeOK
<1>1. \A e \in Editors, written \in SUBSET Rows : Ends(e, written) => call'[e] = Idle
  BY DEF Ends
<1>2. ASSUME NEW e \in Editors, NEW x \in Rows, RowStep(e, x)
      PROVE  call'[e] = Idle /\ WritesRow(e, r)
  <2>1. ASSUME NEW s \in StatusesOf(x), NEW d \in Dates \cup {NoDate}, NEW c \in CategoriesFor(x),
               Create(e, x, s, d, c)
        PROVE  call'[e] = Idle /\ WritesRow(e, r)
    <3>1. x = r /\ ~Exists(r) /\ ~rows[r].deleted
      BY <2>1 DEF Create, IInv, AbsentInv, Absent
    <3> QED BY <1>1, <2>1, <3>1 DEF Create, WritesRow
  <2>2. CASE Detail(e, x)
    BY <2>2 DEF Detail
  <2>3. CASE Update(e, x)
    <3>1. Exists(x)
      BY <2>3 DEF Update, IInv, HeldInv
    <3>2. PICK c \in CategoriesFor(x) \cup {rows[x].category},
               s \in StatusesOf(x), d \in Dates \cup {NoDate} :
                 rows' = [rows EXCEPT ![x] = [rows[x] EXCEPT !.status = s, !.date = d, !.category = c]]
      BY <2>3, <3>1, UpdateWrites
    <3>3. x = r /\ rows'[r] = [rows[r] EXCEPT !.status = s, !.date = d, !.category = c]
      BY <3>2
    <3>4. rows'[r].deleted = rows[r].deleted
      BY <3>3 DEF Row
    <3>5. call[e].pc = "update" /\ x \in call[e].on /\ Ends(e, {x})
      BY <2>3 DEF Update
    <3>6. call'[e] = Idle
      BY <1>1, <3>5
    <3> QED BY <3>3, <3>4, <3>5, <3>6 DEF WritesRow
  <2>4. CASE Remove(e, x)
    <3>1. x = r /\ rows'[r].deleted /\ rows'[r].date = rows[r].date
      BY <2>4 DEF Remove, Row
    <3> QED BY <1>1, <2>4, <3>1 DEF Remove, WritesRow
  <2>5. ASSUME NEW s \in ProjectStatus \cup ContentStatus, Status(e, x, s)
        PROVE  call'[e] = Idle /\ WritesRow(e, r)
    <3>1. /\ x = r /\ rows'[r].deleted = rows[r].deleted /\ rows'[r].category = rows[r].category
          /\ rows'[r].status = s /\ rows'[r].date = StatusDate(s, call[e].date)
      BY <2>5 DEF Status, Row
    <3> QED BY <1>1, <2>5, <3>1 DEF Status, WritesRow
  <2> QED BY <1>2, <2>1, <2>2, <2>3, <2>4, <2>5 DEF RowStep
<1>3. ASSUME NEW e \in Editors, NEW action \in {"delete", "archive", "unpublish"}, BulkWrite(e, action)
      PROVE  call'[e] = Idle /\ WritesRow(e, r)
  <2>1. /\ r \in call[e].on /\ rows'[r] = BulkData(action, rows[r])
        /\ call[e].pc = "bulk" /\ call'[e] = Idle /\ call[e].on \in SUBSET Rows
    BY <1>1, <1>3 DEF BulkWrite, Call
  <2>2. CASE action = "delete"
    BY <2>1, <2>2 DEF BulkData, Row, WritesRow
  <2>3. CASE action = "archive"
    BY <2>1, <2>3 DEF BulkData, Row, WritesRow
  <2>4. CASE action = "unpublish"
    BY <2>1, <2>4 DEF BulkData, Row, WritesRow
  <2> QED BY <2>2, <2>3, <2>4
<1>4. ASSUME NEW e \in Editors, PublishUndated(e)
      PROVE  call'[e] = Idle /\ WritesRow(e, r)
  <2>1. PICK written \in SUBSET call[e].on :
           /\ Ends(e, written)
           /\ \A x \in Rows \ written : rows'[x] = rows[x]
           /\ \A x \in written : /\ rows'[x].deleted = rows[x].deleted
                                 /\ rows'[x].category = rows[x].category
                                 /\ rows[x].date # NoDate => rows'[x].date = rows[x].date
    BY <1>4, Committed
  <2>2. r \in written /\ call[e].pc = "publish"
    BY <1>4, <2>1 DEF PublishUndated
  <2> QED BY <1>1, <2>1, <2>2 DEF WritesRow, Call
<1>5. ASSUME NEW e \in Editors, NEW c \in Categories, DeleteCategory(e, c)
      PROVE  call'[e] = Idle /\ WritesRow(e, r)
  <2>1. /\ rows[r].category = c /\ rows'[r] = [rows[r] EXCEPT !.category = None]
        /\ call[e].pc = "category" /\ call[e].category = c
    BY <1>5 DEF DeleteCategory
  <2>2. call'[e] = Idle
    BY <1>1, <1>5 DEF DeleteCategory
  <2> QED BY <2>1, <2>2 DEF Row, WritesRow
<1>6. \/ \E e \in Editors : EditorStep(e)
      \/ rows' = rows
  BY DEF Next, Tick, vars
<1>7. PICK e \in Editors : EditorStep(e)
  BY <1>6
<1>8. rows' # rows
  OBVIOUS
<1> QED
  BY <1>2, <1>3, <1>4, <1>5, <1>7, <1>8
     DEF EditorStep, BulkFind, PublishDated, CreateCategory, CountCategory, Fails

-----------------------------------------------------------------------------
(* The properties. *)

\* A row that stays public keeps its date, except for edits and for changes of
\* status that raced another write of the row.
THEOREM KeepsDates == Spec => DatesKept
<1>1. ASSUME IInv, [Next]_vars, NEW r \in Rows PROVE DateKept(r)
  <2> SUFFICES ASSUME Public(r), Public(r)', rows[r].date # NoDate, rows'[r].date # rows[r].date
               PROVE  \E e \in Editors :
                         /\ r \in call[e].on /\ call'[e] = Idle
                         /\ call[e].pc = "update" \/ (call[e].pc = "status" /\ r \in touched[e])
    BY DEF DateKept
  <2>1. PICK e \in Editors : call'[e] = Idle /\ WritesRow(e, r)
    BY <1>1, RowChanges
  <2>2. rows'[r].status \notin {"DRAFT", "ARCHIVED"} /\ Exists(r)
    BY DEF Public
  <2>3. CASE call[e].pc = "status" /\ r \in call[e].on
    <3>1. SUFFICES ASSUME r \notin touched[e] PROVE FALSE
      BY <2>1, <2>3
    <3>2. call[e].date = rows[r].date
      BY <1>1, <2>3, <3>1 DEF IInv, ReadInv, ReadBy
    <3>3. rows'[r].date = StatusDate(rows'[r].status, rows[r].date)
      BY <2>1, <2>2, <2>3, <3>2 DEF WritesRow
    <3> QED BY <2>2, <3>3 DEF StatusDate
  <2> QED BY <2>1, <2>2, <2>3 DEF WritesRow, Live
<1>2. IInv /\ [Next]_vars => [\A r \in Rows : DateKept(r)]_vars
  BY <1>1
<1> QED BY <1>2, Invariance, PTL DEF Spec, DatesKept

\* Bulk publishing leaves out a row only if another editor wrote it meanwhile.
THEOREM PublishesAll == Spec => BulkPublishes
<1>1. ASSUME IInv, NEW e \in Editors PROVE PublishedAll(e)
  <2> SUFFICES ASSUME PublishUndated(e), NEW r \in call[e].on, r \notin touched[e]
               PROVE  Public(r)'
    BY DEF PublishedAll
  <2>1. PICK written \in SUBSET call[e].on :
           /\ \A x \in call[e].on : rows[x].date = NoDate \/ x \in call[e].held => x \in written
           /\ \A x \in written : rows'[x].status = PublishedAs(x)
    BY <1>1, Committed
  <2>2. ReadBy(e, r) /\ call[e].pc = "publish"
    BY <1>1 DEF IInv, ReadInv, PublishUndated
  <2>3. r \in written
    BY <2>1, <2>2 DEF ReadBy
  <2> QED BY <2>1, <2>3 DEF Public, Exists, PublishedAs
<1>2. IInv /\ [Next]_vars => [\A e \in Editors : PublishedAll(e)]_vars
  BY <1>1
<1> QED BY <1>2, Invariance, PTL DEF Spec, BulkPublishes

\* A live row that is not edited loses its category only if it joined it after
\* the category had been counted as unused.
THEOREM KeepsCategories == Spec => CategoriesKept
<1>1. ASSUME IInv, [Next]_vars, NEW r \in Rows PROVE CategoryKept(r)
  <2> SUFFICES ASSUME Live(r), Live(r)', rows'[r].category = None, rows[r].category # None
               PROVE  \E e \in Editors :
                        /\ call'[e] = Idle
                        /\ \/ call[e].pc = "update" /\ r \in call[e].on
                           \/ /\ call[e].pc = "category" /\ call[e].category = rows[r].category
                              /\ r \in touched[e]
    BY DEF CategoryKept
  <2>1. PICK e \in Editors : call'[e] = Idle /\ WritesRow(e, r)
    BY <1>1, RowChanges
  <2>2. call[e].pc = "category" /\ call[e].category = rows[r].category => r \in touched[e]
    BY <1>1 DEF IInv, CountInv
  <2> QED BY <2>1, <2>2 DEF WritesRow, Live
<1>2. IInv /\ [Next]_vars => [\A r \in Rows : CategoryKept(r)]_vars
  BY <1>1
<1> QED BY <1>2, Invariance, PTL DEF Spec, CategoriesKept

\* A deleted row stays deleted, and only calls that found it before write it.
THEOREM SparesDeleted == Spec => DeletedAreSpared
<1>1. ASSUME IInv, [Next]_vars, NEW r \in Rows PROVE DeletedSpared(r)
  <2> SUFFICES ASSUME rows[r].deleted, rows'[r] # rows[r]
               PROVE  /\ rows'[r].deleted
                      /\ <<rows'[r].status, rows'[r].date>> # <<rows[r].status, rows[r].date>>
                           => \E e \in Editors : r \in call[e].on /\ call'[e] = Idle /\ r \in touched[e]
    BY DEF DeletedSpared
  <2>1. PICK e \in Editors : call'[e] = Idle /\ WritesRow(e, r)
    BY <1>1, RowChanges
  <2>2. r \in call[e].on => r \in touched[e]
    BY <1>1 DEF IInv, ReadInv, ReadBy, Live
  <2> QED BY <2>1, <2>2 DEF WritesRow, Live
<1>2. IInv /\ [Next]_vars => [\A r \in Rows : DeletedSpared(r)]_vars
  BY <1>1
<1> QED BY <1>2, Invariance, PTL DEF Spec, DeletedAreSpared
=============================================================================
