---------------------------- MODULE MediaLibrary ----------------------------
(***************************************************************************)
(* The media library: files on a volume (or in a bucket) and their records *)
(* in PostgreSQL.  An upload stores the file and then the record, and      *)
(* takes the file back when the record cannot be created; a deletion       *)
(* deletes the record and then the file.  No transaction spans the two,    *)
(* and any step may fail, be carried out without an answer, or never be    *)
(* reached.                                                                *)
(***************************************************************************)

CONSTANTS
    Keys,       \* storage keys; every upload draws a new one
    Deleters,   \* requests that delete at the same time
    None        \* no request

VARIABLES
    files,      \* the keys under which there is a file, whole or in part
    records,    \* the keys of the records
    upload,     \* upload[k]: how far the upload that drew k is
    late,       \* keys of inserts that may still commit, unheard
    delete,     \* delete[d]: what d deletes and how far it is
    blamed      \* keys of which a step failed or was not reached (for the
                \* properties only)

vars == <<files, records, upload, late, delete, blamed>>

UploadPcs == {"none", "save", "insert", "undo", "done", "failed"}
Deleting == [pc : {"erase", "remove"}, key : Keys]

ASSUME NoneAssumption == None \notin Deleting

\* Every variable has its type.  An insert that may still be carried out is one
\* that the upload has given up: it is never sent again, nor reported as done.
TypeOK ==
    /\ files \subseteq Keys
    /\ records \subseteq Keys
    /\ upload \in [Keys -> UploadPcs]
    /\ late \subseteq {k \in Keys : upload[k] \in {"undo", "failed"}}
    /\ delete \in [Deleters -> Deleting \cup {None}]
    /\ blamed \subseteq Keys

Init ==
    /\ files = {}
    /\ records = {}
    /\ upload = [k \in Keys |-> "none"]
    /\ late = {}
    /\ delete = [d \in Deleters |-> None]
    /\ blamed = {}

UploadGoes(k, from, to) == upload[k] = from /\ upload' = [upload EXCEPT ![k] = to]
At(d, pc) == delete[d] # None /\ delete[d].pc = pc
DeleteEnds(d) == delete' = [delete EXCEPT ![d] = None]

-----------------------------------------------------------------------------
(* Uploads.  What is stored is an image that has passed the checks. *)

Begin(k) ==
    /\ UploadGoes(k, "none", "save")
    /\ UNCHANGED <<files, records, late, delete, blamed>>

Save(k) ==
    /\ UploadGoes(k, "save", "insert")
    /\ files' = files \cup {k}
    /\ UNCHANGED <<records, late, delete, blamed>>

\* A write that fails may leave a part of the file, which nobody removes.
SaveFails(k) ==
    /\ UploadGoes(k, "save", "failed")
    /\ files' \in {files, files \cup {k}}
    /\ blamed' = blamed \cup {k}
    /\ UNCHANGED <<records, late, delete>>

Insert(k) ==
    /\ UploadGoes(k, "insert", "done")
    /\ records' = records \cup {k}
    /\ UNCHANGED <<files, late, delete, blamed>>

\* mutant of InsertFails: the file is not taken back
InsertFailsOnly(k) ==
    /\ UploadGoes(k, "insert", "failed")
    /\ UNCHANGED <<files, records, late, delete, blamed>>

InsertFails(k) ==
    /\ UploadGoes(k, "insert", "undo")
    /\ UNCHANGED <<files, records, late, delete, blamed>>

\* mutant of InsertLost: the insert is sent again
InsertAgain(k) ==
    /\ upload[k] = "insert"
    /\ late' = late \cup {k}
    /\ UNCHANGED <<files, records, upload, delete, blamed>>

\* The connection is lost: the statement may still be carried out.
InsertLost(k) ==
    /\ UploadGoes(k, "insert", "undo")
    /\ late' = late \cup {k}
    /\ UNCHANGED <<files, records, delete, blamed>>

LateInsert(k) ==
    /\ k \in late
    /\ late' = late \ {k}
    /\ records' \in {records, records \cup {k}}
    /\ UNCHANGED <<files, upload, delete, blamed>>

\* mutant of Undo: the upload is reported as done after all
UndoDone(k) ==
    /\ UploadGoes(k, "undo", "done")
    /\ files' = files \ {k}
    /\ UNCHANGED <<records, late, delete, blamed>>

Undo(k) ==
    /\ UploadGoes(k, "undo", "failed")
    /\ files' = files \ {k}
    /\ UNCHANGED <<records, late, delete, blamed>>

\* The volume hides its error, the bucket throws: the upload fails anyway.
UndoFails(k) ==
    /\ UploadGoes(k, "undo", "failed")
    /\ blamed' = blamed \cup {k}
    /\ UNCHANGED <<files, records, late, delete>>

-----------------------------------------------------------------------------
(* Deletions. *)

Find(d, k) ==
    /\ delete[d] = None
    /\ k \in records
    /\ delete' = [delete EXCEPT ![d] = [pc |-> "erase", key |-> k]]
    /\ UNCHANGED <<files, records, upload, late, blamed>>

\* A second deletion of the record fails, as do other errors.
Erase(d) ==
    /\ At(d, "erase")
    /\ delete[d].key \in records
    /\ delete' = [delete EXCEPT ![d].pc = "remove"]
    /\ records' = records \ {delete[d].key}
    /\ UNCHANGED <<files, upload, late, blamed>>

EraseFails(d) ==
    /\ At(d, "erase")
    /\ DeleteEnds(d)
    /\ UNCHANGED <<files, records, upload, late, blamed>>

EraseLost(d) ==
    /\ At(d, "erase")
    /\ delete[d].key \in records
    /\ DeleteEnds(d)
    /\ records' = records \ {delete[d].key}
    /\ blamed' = blamed \cup {delete[d].key}
    /\ UNCHANGED <<files, upload, late>>

Remove(d) ==
    /\ At(d, "remove")
    /\ DeleteEnds(d)
    /\ files' = files \ {delete[d].key}
    /\ UNCHANGED <<records, upload, late, blamed>>

RemoveFails(d) ==
    /\ At(d, "remove")
    /\ DeleteEnds(d)
    /\ blamed' = blamed \cup {delete[d].key}
    /\ UNCHANGED <<files, records, upload, late>>

-----------------------------------------------------------------------------
(* The process restarts: no request survives, and nothing looks for what   *)
(* they leave.  Statements that were sent may still be carried out.        *)

Restart ==
    LET Cut == {k \in Keys : upload[k] \in {"save", "insert", "undo"}}
        Sent == {k \in Keys : \E d \in Deleters : At(d, "erase") /\ delete[d].key = k}
        Left == {k \in Keys : \E d \in Deleters : At(d, "remove") /\ delete[d].key = k}
    IN  /\ upload' = [k \in Keys |-> IF k \in Cut THEN "failed" ELSE upload[k]]
        /\ late' = late \cup {k \in Keys : upload[k] = "insert"}
        /\ \E parts \in SUBSET {k \in Keys : upload[k] = "save"} :
                files' = files \cup parts
        /\ \E erased \in SUBSET (Sent \cap records) :
                /\ records' = records \ erased
                /\ blamed' = blamed \cup Cut \cup erased \cup Left
        /\ delete' = [d \in Deleters |-> None]

UploadStep(k) ==
    \/ Save(k) \/ SaveFails(k)
    \/ Insert(k) \/ InsertFails(k) \/ InsertLost(k)
    \/ Undo(k) \/ UndoFails(k)

DeleteStep(d) ==
    \/ Erase(d) \/ EraseFails(d) \/ EraseLost(d)
    \/ Remove(d) \/ RemoveFails(d)

Next ==
    \/ \E k \in Keys : Begin(k) \/ UploadStep(k) \/ LateInsert(k)
    \/ \E d \in Deleters : DeleteStep(d) \/ \E k \in Keys : Find(d, k)
    \/ Restart

Spec == Init /\ [][Next]_vars

-----------------------------------------------------------------------------
(* Properties. *)

\* A record points at nothing only if its upload was not reported as done: its
\* insert was carried out without an answer, and the file was taken back
\* (admin.service.ts:928-929, "rather than a record that points at nothing").
RecordHasFile ==
    \A k \in records : k \notin files => upload[k] \in {"undo", "failed"}

\* A file without a record is being uploaded or deleted, or a step of the
\* upload or deletion has failed: concurrent deletions and late inserts leave
\* none behind.
NoSilentOrphans ==
    \A k \in files \ records :
        \/ upload[k] \in {"insert", "undo"}
        \/ \E d \in Deleters : delete[d] = [pc |-> "remove", key |-> k]
        \/ k \in blamed
=============================================================================
