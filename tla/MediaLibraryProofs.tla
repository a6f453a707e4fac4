------------------------- MODULE MediaLibraryProofs -------------------------
(***************************************************************************)
(* Proofs about MediaLibrary, for any number of uploads and deletions.     *)
(***************************************************************************)
EXTENDS MediaLibrary, TLAPS

LEMMA NextType == TypeOK /\ [Next]_vars => TypeOK'
<1> SUFFICES ASSUME TypeOK, [Next]_vars PROVE TypeOK'
  OBVIOUS
<1> USE DEF TypeOK
<1>1. ASSUME NEW k \in Keys, NEW from \in UploadPcs, NEW to \in UploadPcs,
             UploadGoes(k, from, to)
      PROVE  upload' \in [Keys -> UploadPcs]
  BY <1>1 DEF UploadGoes
<1>2. ASSUME NEW k \in Keys, Begin(k) \/ UploadStep(k) \/ LateInsert(k)
      PROVE  TypeOK'
  <2>1. /\ upload' \in [Keys -> UploadPcs]
        /\ files' \subseteq Keys /\ records' \subseteq Keys /\ blamed' \subseteq Keys
        /\ delete' = delete
    BY <1>1, <1>2
       DEF UploadPcs, Begin, UploadStep, LateInsert, Save, SaveFails, Insert,
           InsertFails, InsertLost, Undo, UndoFails
  <2>2. ASSUME NEW j \in late' PROVE j \in Keys /\ upload'[j] \in {"undo", "failed"}
    BY <1>2, <2>2
       DEF Begin, UploadStep, LateInsert, UploadGoes, Save, SaveFails, Insert,
           InsertFails, InsertLost, Undo, UndoFails
  <2>3. QED
    BY <2>1, <2>2
<1>3. ASSUME NEW d \in Deleters, NEW k \in Keys, Find(d, k) PROVE TypeOK'
  <2>1. [pc |-> "erase", key |-> k] \in Deleting
    BY DEF Deleting
  <2>2. QED
    BY <1>3, <2>1 DEF Find
<1>4. ASSUME NEW d \in Deleters, DeleteStep(d) PROVE TypeOK'
  <2>1. delete[d] \in Deleting /\ delete[d].key \in Keys
    BY <1>4 DEF DeleteStep, Erase, EraseFails, EraseLost, Remove, RemoveFails,
                At, Deleting
  <2>2. [delete[d] EXCEPT !.pc = "remove"] \in Deleting
    BY <2>1 DEF Deleting
  <2>3. QED
    BY <1>4, <2>1, <2>2
       DEF DeleteStep, Erase, EraseFails, EraseLost, Remove, RemoveFails, DeleteEnds
<1>5. CASE Restart
  BY <1>5 DEF Restart, UploadPcs
<1>6. CASE UNCHANGED vars
  BY <1>6 DEF vars
<1>7. QED
  BY <1>2, <1>3, <1>4, <1>5, <1>6 DEF Next

LEMMA InitType == Init => TypeOK
  BY DEF Init, TypeOK, UploadPcs

\* Every state of the specification is well-typed.
THEOREM TypeCorrect == Spec => []TypeOK
  BY InitType, NextType, PTL DEF Spec

(***************************************************************************)
(* Records and their files.  Who may remove a file, an upload that takes   *)
(* it back or a deletion, must find no record of an upload that is done.   *)
(***************************************************************************)

Over == {"done", "undo", "failed"}
Dropped == {"undo", "failed"}

RecordInv ==
    /\ \A k \in records : k \notin files => upload[k] \in Dropped
    /\ \A k \in records : upload[k] \in Over
    /\ \A k \in late : upload[k] \in Dropped
    /\ \A k \in Keys : upload[k] = "insert" => k \in files
    /\ \A d \in Deleters : delete[d] # None =>
            /\ upload[delete[d].key] \in Over
            /\ delete[d].pc = "remove" =>
                    \/ delete[d].key \notin records
                    \/ upload[delete[d].key] \in Dropped

LEMMA NextRecord == TypeOK /\ RecordInv /\ [Next]_vars => RecordInv'
<1> SUFFICES ASSUME TypeOK, RecordInv, [Next]_vars PROVE RecordInv'
  OBVIOUS
<1> USE DEF TypeOK, RecordInv, Over, Dropped
<1>1. \A d \in Deleters : delete[d] # None => delete[d].key \in Keys
  BY DEF Deleting
<1>2. ASSUME NEW k \in Keys, Begin(k) \/ UploadStep(k) \/ LateInsert(k)
      PROVE  RecordInv'
  <2>1. CASE Begin(k)
    BY <1>1, <2>1 DEF Begin, UploadGoes
  <2>2. CASE Save(k)
    BY <1>1, <2>2 DEF Save, UploadGoes
  <2>3. CASE SaveFails(k)
    BY <1>1, <2>3 DEF SaveFails, UploadGoes
  <2>4. CASE Insert(k)
    BY <1>1, <2>4 DEF Insert, UploadGoes
  <2>5. CASE InsertFails(k) \/ InsertLost(k)
    BY <1>1, <2>5 DEF InsertFails, InsertLost, UploadGoes
  <2>6. CASE Undo(k) \/ UndoFails(k)
    BY <1>1, <2>6 DEF Undo, UndoFails, UploadGoes
  <2>7. CASE LateInsert(k)
    BY <1>1, <2>7 DEF LateInsert
  <2>8. QED
    BY <1>2, <2>1, <2>2, <2>3, <2>4, <2>5, <2>6, <2>7 DEF UploadStep
<1>3. ASSUME NEW d \in Deleters, NEW k \in Keys, Find(d, k) PROVE RecordInv'
  BY <1>1, <1>3 DEF Find
<1>4. ASSUME NEW d \in Deleters, DeleteStep(d) PROVE RecordInv'
  <2>1. delete[d] # None /\ delete[d] \in Deleting /\ delete[d].key \in Keys
    BY <1>4 DEF DeleteStep, Erase, EraseFails, EraseLost, Remove, RemoveFails,
                At, Deleting
  <2>2. CASE Erase(d)
    <3>1. delete'[d].key = delete[d].key
      BY <2>1, <2>2 DEF Erase, Deleting
    <3>2. QED
      BY <1>1, <2>1, <2>2, <3>1 DEF Erase
  <2>3. CASE EraseFails(d) \/ RemoveFails(d)
    BY <1>1, <2>3 DEF EraseFails, RemoveFails, DeleteEnds
  <2>4. CASE EraseLost(d)
    BY <1>1, <2>4 DEF EraseLost, DeleteEnds
  <2>5. CASE Remove(d)
    BY <1>1, <2>1, <2>5 DEF Remove, At, DeleteEnds
  <2>6. QED
    BY <1>4, <2>2, <2>3, <2>4, <2>5 DEF DeleteStep
<1>5. CASE Restart
  BY <1>1, <1>5 DEF Restart
<1>6. CASE UNCHANGED vars
  BY <1>6 DEF vars
<1>7. QED
  BY <1>2, <1>3, <1>4, <1>5, <1>6 DEF Next

\* A record of an upload that was reported as done, or is not over, always has
\* its file.
THEOREM RecordsAreServed == Spec => []RecordHasFile
<1>1. Init => RecordInv
  BY DEF Init, RecordInv
<1>2. RecordInv => RecordHasFile
  BY DEF RecordInv, RecordHasFile, Dropped
<1>3. QED
  BY <1>1, <1>2, InitType, NextType, NextRecord, PTL DEF Spec

(***************************************************************************)
(* Files without a record.  The property is inductive as it stands.        *)
(***************************************************************************)

LEMMA NextOrphans == TypeOK /\ NoSilentOrphans /\ [Next]_vars => NoSilentOrphans'
<1> SUFFICES ASSUME TypeOK, NoSilentOrphans, [Next]_vars,
                    NEW k \in Keys, k \in files', k \notin records'
             PROVE  \/ upload'[k] \in {"insert", "undo"}
                    \/ \E d \in Deleters : delete'[d] = [pc |-> "remove", key |-> k]
                    \/ k \in blamed'
  BY NextType DEF NoSilentOrphans, TypeOK
<1> USE DEF TypeOK, NoSilentOrphans
<1>1. ASSUME NEW j \in Keys, Begin(j) \/ UploadStep(j) \/ LateInsert(j)
      PROVE  \/ upload'[k] \in {"insert", "undo"}
             \/ \E d \in Deleters : delete'[d] = [pc |-> "remove", key |-> k]
             \/ k \in blamed'
  BY <1>1 DEF Begin, UploadStep, LateInsert, Save, SaveFails, Insert, InsertFails,
              InsertLost, Undo, UndoFails, UploadGoes
<1>2. ASSUME NEW d \in Deleters, NEW j \in Keys, Find(d, j)
      PROVE  \/ upload'[k] \in {"insert", "undo"}
             \/ \E e \in Deleters : delete'[e] = [pc |-> "remove", key |-> k]
             \/ k \in blamed'
  BY <1>2, NoneAssumption DEF Find, Deleting
<1>3. ASSUME NEW d \in Deleters, DeleteStep(d)
      PROVE  \/ upload'[k] \in {"insert", "undo"}
             \/ \E e \in Deleters : delete'[e] = [pc |-> "remove", key |-> k]
             \/ k \in blamed'
  <2>1. delete[d] \in Deleting
    BY <1>3 DEF DeleteStep, Erase, EraseFails, EraseLost, Remove, RemoveFails, At
  <2>2. \A e \in Deleters : e # d => delete'[e] = delete[e]
    BY <1>3 DEF DeleteStep, Erase, EraseFails, EraseLost, Remove, RemoveFails,
                DeleteEnds
  <2>3. CASE Erase(d)
    <3>1. delete'[d] = [pc |-> "remove", key |-> delete[d].key]
      BY <2>1, <2>3 DEF Erase, Deleting
    <3>2. CASE k = delete[d].key
      BY <3>1, <3>2
    <3>3. CASE k # delete[d].key
      BY <2>1, <2>2, <2>3, <3>3 DEF Erase, At
    <3>4. QED
      BY <3>2, <3>3
  <2>4. CASE EraseFails(d)
    BY <2>1, <2>2, <2>4 DEF EraseFails, At
  <2>5. CASE EraseLost(d)
    BY <2>1, <2>2, <2>5 DEF EraseLost, At
  <2>6. CASE Remove(d) \/ RemoveFails(d)
    BY <2>1, <2>2, <2>6 DEF Remove, RemoveFails, At
  <2>7. QED
    BY <1>3, <2>3, <2>4, <2>5, <2>6 DEF DeleteStep
<1>4. CASE Restart
  <2>1. ASSUME NEW d \in Deleters, delete[d] = [pc |-> "remove", key |-> k]
        PROVE  At(d, "remove") /\ delete[d].key = k
    BY <2>1, NoneAssumption DEF At, Deleting
  <2>2. QED
    BY <1>4, <2>1 DEF Restart
<1>5. CASE UNCHANGED vars
  BY <1>5 DEF vars
<1>6. QED
  BY <1>1, <1>2, <1>3, <1>4, <1>5 DEF Next

\* A file is never left without a record unless a step has failed.
THEOREM OrphansAreExplained == Spec => []NoSilentOrphans
<1>1. Init => NoSilentOrphans
  BY DEF Init, NoSilentOrphans
<1>2. QED
  BY <1>1, InitType, NextType, NextOrphans, PTL DEF Spec
=============================================================================
