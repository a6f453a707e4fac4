------------------------ MODULE AppointmentsProofs ------------------------
(***************************************************************************)
(* Proofs about Appointments, for any number of customers and staff and    *)
(* any proposals.                                                          *)
(***************************************************************************)
EXTENDS Appointments, TLAPS

(***************************************************************************)
(* Types                                                                   *)
(***************************************************************************)

\* A call that is not idle is a proper call.
LEMMA RunningCall ==
    ASSUME TypeOK, NEW a \in Admins, call[a].pc \in {"write", "notify"}
    PROVE  call[a] \in UpdateCall
BY DEF TypeOK, NoCall

LEMMA InitType == Init => TypeOK
BY ClockAssumption DEF Init, TypeOK, NoCall

LEMMA NextType == TypeOK /\ [Next]_vars => TypeOK'
<1> SUFFICES ASSUME TypeOK, [Next]_vars PROVE TypeOK'
  OBVIOUS
<1> USE DEF TypeOK, Answers
<1>1. ASSUME NEW b \in Bookings, NEW i \in Proposals, Submit(b, i)
      PROVE  TypeOK'
  BY <1>1 DEF Submit
<1>2. ASSUME NEW b \in Bookings, Check(b) PROVE TypeOK'
  BY <1>2 DEF Check, Existing
<1>3. ASSUME NEW b \in Bookings, Commit(b) PROVE TypeOK'
  BY <1>3 DEF Commit, CommitRow, Statuses
<1>4. ASSUME NEW b \in Bookings, Abort(b) \/ CreateError(b) PROVE TypeOK'
  BY <1>4 DEF Abort, CreateError
<1>5. ASSUME NEW b \in Bookings, CommitUnacknowledged(b) PROVE TypeOK'
  BY <1>5 DEF CommitUnacknowledged, CommitRow, Statuses
<1>6. ASSUME NEW b \in Bookings, NEW to \in Recipients, MailRequested(b, to)
      PROVE  TypeOK'
  BY <1>6 DEF MailRequested, Statuses
<1>7. ASSUME NEW b \in Bookings, Answer(b) PROVE TypeOK'
  BY <1>7 DEF Answer
<1>8. ASSUME NEW a \in Admins, NEW b \in Bookings, NEW s \in Statuses,
             Read(a, b, s)
      PROVE  TypeOK'
  BY <1>8 DEF Read, customerVars, UpdateCall
<1>9. ASSUME NEW a \in Admins, UpdateStep(a) PROVE TypeOK'
  <2>1. call[a] \in UpdateCall
    BY <1>9, RunningCall
       DEF UpdateStep, Write, UpdateError, SaveStatus, MailStatus, Return
  <2> DEFINE b == call[a].id
  <2>2. b \in Bookings /\ call[a].target \in Statuses
    BY <2>1 DEF UpdateCall
  <2>3. CASE Write(a)
    <3>1. call' = [call EXCEPT ![a] = [call[a] EXCEPT !.pc = "notify",
                                                  !.unmailed = Recipients]]
      BY <2>3 DEF Write
    <3>2. [call[a] EXCEPT !.pc = "notify", !.unmailed = Recipients]
             \in UpdateCall
      BY <2>1 DEF UpdateCall
    <3>3. QED
      BY <2>2, <2>3, <3>1, <3>2 DEF Write, SaveStatus, customerVars
  <2>4. CASE UpdateError(a)
    BY <2>2, <2>4 DEF UpdateError, SaveStatus, customerVars
  <2>5. ASSUME NEW to \in Recipients, MailStatus(a, to) PROVE TypeOK'
    <3>1. call' = [call EXCEPT ![a] =
                     [call[a] EXCEPT !.unmailed = @ \ {to}]]
      BY <2>5 DEF MailStatus
    <3>2. [call[a] EXCEPT !.unmailed = @ \ {to}] \in UpdateCall
      BY <2>1 DEF UpdateCall
    <3>3. QED
      BY <2>2, <2>5, <3>1, <3>2 DEF MailStatus, customerVars
  <2>6. CASE Return(a)
    BY <2>6 DEF Return, customerVars
  <2>7. QED
    BY <1>9, <2>3, <2>4, <2>5, <2>6 DEF UpdateStep
<1>10. CASE Tick
  BY <1>10, ClockAssumption DEF Tick, customerVars
<1>11. CASE Crash
  BY <1>11 DEF Crash
<1>12. CASE UNCHANGED vars
  BY <1>12 DEF vars
<1>13. ASSUME NEW b \in Bookings, Ignore(b) PROVE TypeOK'
  BY <1>13 DEF Ignore
<1>14. QED
  BY <1>1, <1>2, <1>3, <1>4, <1>5, <1>6, <1>7, <1>8, <1>9, <1>10, <1>11,
     <1>12, <1>13 DEF Next, CreateStep

\* Every variable keeps its type, whatever the calls, failures and crashes.
THEOREM TypeCorrect == Spec => []TypeOK
BY InitType, NextType, PTL DEF Spec

(***************************************************************************)
(* What holds however staff race: rows, history, snapshots                 *)
(***************************************************************************)

\* A write changes one existing row, to a status; the rest stays.
LEMMA SaveEffect ==
    ASSUME TypeOK, NEW a \in Admins, SaveStatus(a)
    PROVE  /\ call[a] \in UpdateCall
           /\ call[a].id \in Bookings /\ call[a].target \in Statuses
           /\ \A c \in Bookings :
                row'[c] = IF c = call[a].id THEN call[a].target ELSE row[c]
           /\ \A c \in Bookings :
                reached'[c] = IF c = call[a].id
                              THEN reached[c] \cup {call[a].target}
                              ELSE reached[c]
<1>1. call[a] \in UpdateCall
  BY RunningCall DEF SaveStatus
<1>2. call[a].id \in Bookings /\ call[a].target \in Statuses
  BY <1>1 DEF UpdateCall
<1>3. QED
  BY <1>1, <1>2 DEF SaveStatus, TypeOK

LEMMA NextRow == TypeOK /\ RowInv /\ HistoryInv /\ [Next]_vars => RowInv'
<1> SUFFICES ASSUME TypeOK, RowInv, HistoryInv, [Next]_vars PROVE RowInv'
  OBVIOUS
<1> USE DEF RowInv
<1>1. ASSUME NEW b \in Bookings, NEW i \in Proposals, Submit(b, i)
      PROVE  RowInv'
  BY <1>1 DEF Submit, TypeOK
<1>2. ASSUME NEW b \in Bookings, CreateStep(b) PROVE RowInv'
  <2>1. CASE Check(b)
    BY <2>1 DEF Check, TypeOK
  <2>2. CASE Commit(b) \/ CommitUnacknowledged(b)
    BY <2>2 DEF Commit, CommitUnacknowledged, CommitRow, TypeOK
  <2>3. CASE Abort(b) \/ CreateError(b)
    BY <2>3 DEF Abort, CreateError, TypeOK
  <2>4. CASE Answer(b) \/ \E to \in Recipients : MailRequested(b, to)
    BY <2>4 DEF Answer, MailRequested, TypeOK
  <2>5. QED
    BY <1>2, <2>1, <2>2, <2>3, <2>4 DEF CreateStep
<1>3. ASSUME NEW a \in Admins, Write(a) \/ UpdateError(a) PROVE RowInv'
  <2>1. CASE SaveStatus(a)
    <3>0. row[call[a].id] # "none" /\ call[a].target # "none"
      BY <2>1, SaveEffect DEF HistoryInv, SaveStatus, Statuses
    <3>1. \A c \in Bookings : row'[c] = "none" <=> row[c] = "none"
      BY <2>1, <3>0, SaveEffect
    <3>2. UNCHANGED <<interval, request>>
      BY <1>3 DEF Write, UpdateError, customerVars
    <3>3. QED
      BY <3>1, <3>2
  <2>2. CASE UNCHANGED row
    BY <1>3, <2>2 DEF Write, UpdateError, customerVars
  <2>3. QED
    BY <1>3, <2>1, <2>2 DEF Write, UpdateError
<1>4. CASE UNCHANGED <<row, interval, request>>
  BY <1>4
<1>5. CASE Crash
  BY <1>5 DEF Crash, Running, TypeOK
<1>6. ASSUME NEW b \in Bookings, Ignore(b) PROVE RowInv'
  BY <1>6 DEF Ignore, TypeOK
<1>7. QED
  BY <1>1, <1>2, <1>3, <1>4, <1>5, <1>6
     DEF Next, UpdateStep, Read, MailStatus, Return, Tick, vars, customerVars

LEMMA NextHistory ==
    TypeOK /\ RowInv /\ HistoryInv /\ [Next]_vars => HistoryInv'
<1> SUFFICES ASSUME TypeOK, RowInv, HistoryInv, [Next]_vars
             PROVE  HistoryInv'
  OBVIOUS
<1> DEFINE Past(b) == /\ row[b] # "none" <=> "REQUESTED" \in reached[b]
                      /\ row[b] = "none" => reached[b] = {}
                      /\ reached[b] = {"REQUESTED"} => row[b] = "REQUESTED"
           Future(a) == /\ call[a].pc = "write" =>
                             /\ row[call[a].id] # "none"
                             /\ call[a].target # "REQUESTED"
                        /\ call[a].pc = "notify" =>
                             call[a].target \in reached[call[a].id]
<1>a. HistoryInv <=> /\ \A b \in Bookings : Past(b)
                     /\ \A a \in Admins : Future(a)
  BY DEF HistoryInv
<1>b. HistoryInv' <=> /\ \A b \in Bookings : Past(b)'
                      /\ \A a \in Admins : Future(a)'
  BY DEF HistoryInv
<1>c. \A a \in Admins : call[a].pc \in {"write", "notify"} =>
         call[a].id \in Bookings
  BY RunningCall DEF UpdateCall
<1>1. ASSUME NEW b \in Bookings, CommitRow(b), UNCHANGED call
      PROVE  HistoryInv'
  <2>1. row[b] = "none"
    BY <1>1 DEF CommitRow, RowInv
  <2>2. \A c \in Bookings : Past(c)'
    BY <1>1, <1>a, <2>1 DEF CommitRow, TypeOK
  <2>3. \A a \in Admins : Future(a)'
    BY <1>1, <1>a, <1>c, <2>1 DEF CommitRow, TypeOK
  <2>4. QED
    BY <1>b, <2>2, <2>3
<1>2. ASSUME NEW a \in Admins, NEW b \in Bookings, NEW s \in Statuses,
             Read(a, b, s)
      PROVE  HistoryInv'
  <2>1. s # "REQUESTED"
    BY <1>2 DEF Read, Transitions
  <2>2. \A d \in Admins : Future(d)'
    BY <1>2, <1>a, <2>1 DEF Read, TypeOK
  <2>3. QED
    BY <1>2, <1>a, <1>b, <2>2 DEF Read
<1>3. ASSUME NEW a \in Admins, Write(a) \/ UpdateError(a), SaveStatus(a)
      PROVE  HistoryInv'
  <2>1. /\ row[call[a].id] # "none"
        /\ call[a].target # "REQUESTED"
        /\ call[a].target # "none"
    BY <1>3, <1>a, SaveEffect DEF SaveStatus, Statuses
  <2>e. \A c \in Bookings :
          /\ row'[c] = IF c = call[a].id THEN call[a].target ELSE row[c]
          /\ reached'[c] = IF c = call[a].id
                           THEN reached[c] \cup {call[a].target}
                           ELSE reached[c]
    BY <1>3, SaveEffect
  <2>2. ASSUME NEW c \in Bookings PROVE Past(c)'
    <3>1. CASE c = call[a].id
      <4>1. row'[c] # "none" /\ row[c] # "none"
        BY <2>1, <2>e, <3>1
      <4>2. "REQUESTED" \in reached[c] /\ call[a].target \in reached'[c]
            /\ "REQUESTED" \in reached'[c]
        BY <1>a, <2>e, <3>1, <4>1
      <4>3. reached'[c] # {"REQUESTED"}
        BY <2>1, <4>2
      <4>4. QED
        BY <4>1, <4>2, <4>3
    <3>2. CASE c # call[a].id
      BY <1>a, <2>e, <3>2
    <3>3. QED
      BY <3>1, <3>2
  <2>3. ASSUME NEW d \in Admins PROVE Future(d)'
    <3>1. CASE d = a
      <4>1. CASE UpdateError(a)
        BY <3>1, <4>1 DEF UpdateError, NoCall, TypeOK
      <4>2. CASE Write(a)
        <5>1. /\ call'[a].pc = "notify" /\ call'[a].id = call[a].id
              /\ call'[a].target = call[a].target
          BY <4>2, <1>3, SaveEffect DEF Write, UpdateCall, TypeOK
        <5>2. QED
          BY <1>3, <3>1, <5>1, SaveEffect
      <4>3. QED
        BY <1>3, <4>1, <4>2
    <3>2. CASE d # a
      <4>1. call'[d] = call[d]
        BY <1>3, <3>2 DEF Write, UpdateError, TypeOK
      <4>2. CASE call[d].pc = "write"
        <5>1. call[d].id \in Bookings /\ row'[call[d].id] # "none"
          BY <1>a, <1>c, <2>1, <2>e, <4>2
        <5>2. QED
          BY <1>a, <4>1, <4>2, <5>1
      <4>3. CASE call[d].pc = "notify"
        <5>1. call[d].target \in reached'[call[d].id]
          BY <1>a, <1>c, <2>e, <4>3
        <5>2. QED
          BY <4>1, <4>3, <5>1
      <4>4. QED
        BY <4>1, <4>2, <4>3
    <3>3. QED
      BY <3>1, <3>2
  <2>4. QED
    BY <1>b, <2>2, <2>3
<1>4. ASSUME NEW a \in Admins, UNCHANGED <<row, reached>>,
             \/ call' = [call EXCEPT ![a] = NoCall]
             \/ call[a].pc = "notify"
                /\ \E to \in Recipients :
                      call' = [call EXCEPT ![a].unmailed = @ \ {to}]
      PROVE  HistoryInv'
  <2>1. ASSUME NEW d \in Admins PROVE Future(d)'
    <3>1. CASE call'[d] = NoCall
      BY <3>1 DEF NoCall
    <3>2. CASE call'[d].pc = call[d].pc /\ call'[d].id = call[d].id
               /\ call'[d].target = call[d].target
      BY <1>4, <1>a, <3>2
    <3>3. QED
      BY <1>4, <3>1, <3>2, RunningCall DEF TypeOK, UpdateCall
  <2>2. QED
    BY <1>4, <1>a, <1>b, <2>1
<1>5. CASE UNCHANGED <<row, reached, call>>
  BY <1>5, <1>a, <1>b
<1>6. CASE Crash
  BY <1>6, <1>a, <1>b DEF Crash, NoCall
<1>7. ASSUME NEW a \in Admins, UpdateStep(a) PROVE HistoryInv'
  BY <1>7, <1>3, <1>4
     DEF UpdateStep, Write, UpdateError, MailStatus, Return
<1>8. ASSUME NEW b \in Bookings, CreateStep(b) PROVE HistoryInv'
  BY <1>8, <1>1, <1>5
     DEF CreateStep, Check, Commit, Abort, CreateError, CommitUnacknowledged,
         MailRequested, Answer
<1>9. QED
  BY <1>2, <1>5, <1>6, <1>7, <1>8 DEF Next, Submit, Ignore, Tick, vars, customerVars

\* Saving a status makes a row an edited one, and edits no other.
LEMMA SaveHistory ==
    ASSUME TypeOK, HistoryInv, NEW a \in Admins, SaveStatus(a)
    PROVE  /\ \A c \in Bookings : row[c] # "none" => row'[c] # "none"
           /\ \A c \in Bookings : reached'[c] = {"REQUESTED"} =>
                 c # call[a].id /\ reached[c] = {"REQUESTED"}
<1>1. call[a].target # "REQUESTED" /\ call[a].target # "none"
  BY SaveEffect DEF HistoryInv, SaveStatus, Statuses
<1>2. call[a].target \in reached'[call[a].id]
  BY SaveEffect
<1>3. \A c \in Bookings : c # call[a].id => reached'[c] = reached[c]
  BY SaveEffect
<1>4. \A c \in Bookings :
         row'[c] = IF c = call[a].id THEN call[a].target ELSE row[c]
  BY SaveEffect
<1>5. QED
  BY <1>1, <1>2, <1>3, <1>4

LEMMA OverlapsSymmetric ==
    ASSUME NEW i \in Proposals, NEW j \in Proposals
    PROVE  Overlaps(i, j) <=> Overlaps(j, i)
BY ProposalsAssumption DEF Overlaps

LEMMA NextSnapshot ==
    TypeOK /\ RowInv /\ HistoryInv /\ SnapshotInv /\ [Next]_vars => SnapshotInv'
<1> SUFFICES ASSUME TypeOK, RowInv, HistoryInv, SnapshotInv, [Next]_vars
             PROVE  SnapshotInv'
  OBVIOUS
<1>1. ASSUME NEW b \in Bookings, NEW i \in Proposals, Submit(b, i)
      PROVE  SnapshotInv'
  BY <1>1 DEF Submit, SnapshotInv, RowInv, TypeOK
<1>2. ASSUME NEW b \in Bookings, Check(b) PROVE SnapshotInv'
  <2>1. CASE request'[b] = "insert"
    <3>1. \A c \in Existing : ~(row[c] \in Active
                                /\ Overlaps(interval[c], interval[b]))
      BY <1>2, <2>1 DEF Check, Blocked, TypeOK
    <3>2. snapshot'[b] = Existing
      BY <1>2, <2>1 DEF Check, TypeOK
    <3>3. \A d \in Bookings : d # b =>
             snapshot'[d] = snapshot[d] /\ request'[d] = request[d]
      BY <1>2 DEF Check, TypeOK
    <3>4. UNCHANGED <<row, interval, reached>>
      BY <1>2 DEF Check
    <3>5. \A c \in Existing : reached[c] = {"REQUESTED"} => row[c] \in Active
      BY DEF Existing, HistoryInv, Active
    <3>6. QED
      BY <3>1, <3>2, <3>3, <3>4, <3>5 DEF SnapshotInv, Existing
  <2>2. CASE request'[b] # "insert"
    BY <1>2, <2>2 DEF Check, SnapshotInv, TypeOK
  <2>3. QED
    BY <2>1, <2>2
<1>3. ASSUME NEW b \in Bookings, Commit(b) \/ CommitUnacknowledged(b)
      PROVE  SnapshotInv'
  BY <1>3 DEF Commit, CommitUnacknowledged, CommitRow, SnapshotInv, RowInv,
              TypeOK
<1>4. ASSUME NEW b \in Bookings, Abort(b) \/ CreateError(b) \/ Answer(b)
                              \/ Ignore(b)
      PROVE  SnapshotInv'
  BY <1>4 DEF Abort, CreateError, Answer, Ignore, SnapshotInv, TypeOK
<1>5. ASSUME NEW a \in Admins, SaveStatus(a), UNCHANGED customerVars
      PROVE  SnapshotInv'
  BY <1>5, SaveHistory DEF SnapshotInv, customerVars, TypeOK
<1>6. CASE UNCHANGED <<row, interval, request, snapshot, reached>>
  BY <1>6 DEF SnapshotInv
<1>7. CASE Crash
  BY <1>7 DEF Crash, Running, SnapshotInv, TypeOK
<1>8. QED
  BY <1>1, <1>2, <1>3, <1>4, <1>5, <1>6, <1>7
     DEF Next, CreateStep, UpdateStep, Read, Write, UpdateError, MailStatus,
         Return, Tick, MailRequested, vars, customerVars

LEMMA NextRequests ==
    TypeOK /\ RowInv /\ HistoryInv /\ SnapshotInv /\ RequestsNeverOverlap
        /\ [Next]_vars => RequestsNeverOverlap'
<1> SUFFICES ASSUME TypeOK, RowInv, HistoryInv, SnapshotInv,
                    RequestsNeverOverlap, [Next]_vars
             PROVE  RequestsNeverOverlap'
  OBVIOUS
<1>1. ASSUME NEW b \in Bookings, NEW i \in Proposals, Submit(b, i)
      PROVE  RequestsNeverOverlap'
  BY <1>1 DEF Submit, RequestsNeverOverlap, RowInv, HistoryInv, TypeOK
<1>2. ASSUME NEW b \in Bookings, CommitRow(b), UNCHANGED interval
      PROVE  RequestsNeverOverlap'
  <2>1. interval[b] \in Proposals
    BY <1>2 DEF CommitRow, RowInv
  <2>2. ASSUME NEW c \in Bookings, c # b, reached'[c] = {"REQUESTED"}
        PROVE  /\ ~Overlaps(interval[c], interval[b])
               /\ ~Overlaps(interval[b], interval[c])
    <3>1. reached[c] = {"REQUESTED"} /\ row[c] # "none"
      BY <1>2, <2>2 DEF CommitRow, HistoryInv, TypeOK
    <3>2. ~Overlaps(interval[c], interval[b])
      BY <1>2, <3>1 DEF CommitRow, Serializable, Existing, SnapshotInv
    <3>3. interval[c] \in Proposals
      BY <3>1 DEF RowInv
    <3>4. QED
      BY <2>1, <3>2, <3>3, OverlapsSymmetric
  <2>3. \A c \in Bookings : c # b => reached'[c] = reached[c]
    BY <1>2 DEF CommitRow, TypeOK
  <2>4. QED
    BY <1>2, <2>2, <2>3 DEF RequestsNeverOverlap
<1>3. ASSUME NEW a \in Admins, SaveStatus(a), UNCHANGED customerVars
      PROVE  RequestsNeverOverlap'
  BY <1>3, SaveHistory DEF RequestsNeverOverlap, customerVars
<1>4. CASE UNCHANGED <<interval, reached>>
  BY <1>4 DEF RequestsNeverOverlap
<1>5. QED
  BY <1>1, <1>2, <1>3, <1>4
     DEF Next, Ignore, CreateStep, Check, Commit, Abort, CreateError, MailRequested,
         CommitUnacknowledged, Answer, UpdateStep, Read, Write, UpdateError,
         MailStatus, Return, Tick, Crash, vars, customerVars

LEMMA NextMail ==
    TypeOK /\ RowInv /\ HistoryInv /\ MailAnnouncesSavedStatus /\ [Next]_vars
        => MailAnnouncesSavedStatus'
<1> SUFFICES ASSUME TypeOK, RowInv, HistoryInv, MailAnnouncesSavedStatus,
                    [Next]_vars
             PROVE  MailAnnouncesSavedStatus'
  OBVIOUS
<1> USE DEF MailAnnouncesSavedStatus
<1>t. \A m \in outbox : m[1] \in Bookings
  BY DEF TypeOK
<1>1. ASSUME NEW b \in Bookings, CommitRow(b), UNCHANGED outbox
      PROVE  MailAnnouncesSavedStatus'
  <2>1. \A c \in Bookings : reached[c] \subseteq reached'[c]
    BY <1>1 DEF CommitRow, TypeOK
  <2>2. QED
    BY <1>1, <1>t, <2>1
<1>2. ASSUME NEW b \in Bookings, NEW to \in Recipients, MailRequested(b, to)
      PROVE  MailAnnouncesSavedStatus'
  <2>1. "REQUESTED" \in reached[b]
    BY <1>2 DEF MailRequested, RowInv, HistoryInv
  <2>2. QED
    BY <1>2, <2>1 DEF MailRequested
<1>3. ASSUME NEW a \in Admins, SaveStatus(a), UNCHANGED outbox
      PROVE  MailAnnouncesSavedStatus'
  <2>1. \A c \in Bookings : reached[c] \subseteq reached'[c]
    BY <1>3, SaveEffect
  <2>2. QED
    BY <1>3, <1>t, <2>1
<1>4. ASSUME NEW a \in Admins, NEW to \in Recipients, MailStatus(a, to)
      PROVE  MailAnnouncesSavedStatus'
  <2>1. call[a].target \in reached[call[a].id]
    BY <1>4 DEF MailStatus, HistoryInv
  <2>2. QED
    BY <1>4, <2>1 DEF MailStatus
<1>5. CASE UNCHANGED <<outbox, reached>>
  BY <1>5
<1>6. QED
  BY <1>1, <1>2, <1>3, <1>4, <1>5
     DEF Next, Ignore, CreateStep, Submit, Check, Commit, Abort, CreateError,
         CommitUnacknowledged, Answer, UpdateStep, Read, Write, UpdateError,
         Return, Tick, Crash, vars, customerVars

\* The inductive invariant that needs no assumption about staff.
RacyInv ==
    TypeOK /\ RowInv /\ HistoryInv /\ SnapshotInv
    /\ RequestsNeverOverlap /\ MailAnnouncesSavedStatus

LEMMA RacyInvariant == Spec => []RacyInv
<1>1. Init => RacyInv
  BY InitType DEF Init, RacyInv, RowInv, HistoryInv, SnapshotInv, NoCall,
                  RequestsNeverOverlap, MailAnnouncesSavedStatus
<1>2. RacyInv /\ [Next]_vars => RacyInv'
  BY NextType, NextRow, NextHistory, NextSnapshot, NextRequests, NextMail
     DEF RacyInv
<1>3. QED
  BY <1>1, <1>2, PTL DEF Spec

\* Two appointments nobody has edited never overlap, however many customers
\* book and staff edit other appointments at once.
THEOREM BookingIsExclusive == Spec => []RequestsNeverOverlap
<1>1. RacyInv => RequestsNeverOverlap
  BY DEF RacyInv
<1>2. QED
  BY <1>1, RacyInvariant, PTL

\* A customer who is refused, or answered by the honeypot, has no appointment;
\* one who is answered with an appointment has it.
THEOREM CustomersAreToldTheTruth == Spec => []AnswersAreTrue
<1>1. RacyInv => AnswersAreTrue
  BY DEF RacyInv, RowInv, AnswersAreTrue
<1>2. QED
  BY <1>1, RacyInvariant, PTL

\* No email announces a status that was not saved before it was sent.
THEOREM MailFollowsCommit == Spec => []MailAnnouncesSavedStatus
<1>1. RacyInv => MailAnnouncesSavedStatus
  BY DEF RacyInv
<1>2. QED
  BY <1>1, RacyInvariant, PTL

(***************************************************************************)
(* What needs one editor per appointment at a time                         *)
(***************************************************************************)

\* Editing ends in a status of the table: a row that is active afterwards was
\* active before.
LEMMA EditorSave ==
    ASSUME TypeOK, EditorInv, NEW a \in Admins, SaveStatus(a)
    PROVE  \A c \in Bookings :
              /\ row'[c] # row[c] => row[c] # "none" /\ row'[c] \in Transitions(row[c])
              /\ row'[c] \in Active => row[c] \in Active
              /\ row[c] # "none" => row'[c] # "none"
<1>1. \A c \in Bookings :
         row'[c] = IF c = call[a].id THEN call[a].target ELSE row[c]
  BY SaveEffect
<1>2. row[call[a].id] # "none" /\ call[a].target \in Transitions(row[call[a].id])
  BY DEF EditorInv, SaveStatus
<1>3. \A s, t : t \in Transitions(s) =>
         t # "none" /\ (t \in Active => s \in Active)
  BY DEF Transitions, Active
<1>4. QED
  BY <1>1, <1>2, <1>3

LEMMA NextEditor ==
    ASSUME OneEditorPerAppointment
    PROVE  TypeOK /\ RowInv /\ EditorInv /\ [Next]_vars => EditorInv'
<1> SUFFICES ASSUME TypeOK, RowInv, EditorInv, [Next]_vars PROVE EditorInv'
  OBVIOUS
<1> DEFINE Good(a) == call[a].pc = "write" =>
                        /\ row[call[a].id] # "none"
                        /\ call[a].target \in Transitions(row[call[a].id])
                        /\ Editors(call[a].id) = {a}
<1>a. (EditorInv <=> \A a \in Admins : Good(a))
      /\ (EditorInv' <=> \A a \in Admins : Good(a)')
  BY DEF EditorInv
<1>b. \A a \in Admins : call[a].pc \in {"write", "notify"} =>
         call[a].id \in Bookings
  BY RunningCall DEF UpdateCall
<1>1. ASSUME NEW b \in Bookings, CommitRow(b), UNCHANGED call
      PROVE  EditorInv'
  BY <1>1, <1>a, <1>b DEF CommitRow, RowInv, Editors, TypeOK
<1>2. ASSUME NEW a \in Admins, NEW b \in Bookings, NEW s \in Statuses,
             Read(a, b, s)
      PROVE  EditorInv'
  <2>1. Editors(b) = {}
    BY <1>2 DEF Read
  <2>2. /\ call'[a].pc = "write" /\ call'[a].id = b /\ call'[a].target = s
        /\ \A d \in Admins : d # a => call'[d] = call[d]
    BY <1>2 DEF Read, TypeOK
  <2>3. Editors(b)' = {a}
    BY <2>1, <2>2 DEF Editors
  <2>4. Good(a)'
    BY <1>2, <2>2, <2>3 DEF Read
  <2>5. ASSUME NEW d \in Admins, d # a PROVE Good(d)'
    <3>1. CASE call[d].pc = "write"
      <4>1. call[d].id # b
        BY <2>1, <3>1 DEF Editors
      <4>2. call[a].pc # "write"
        BY <1>2 DEF Read, NoCall
      <4>3. Editors(call[d].id)' = Editors(call[d].id)
        BY <2>2, <2>5, <4>1, <4>2 DEF Editors
      <4>4. QED
        BY <1>2, <1>a, <2>2, <2>5, <4>3 DEF Read
    <3>2. CASE call[d].pc # "write"
      BY <2>2, <2>5, <3>2
    <3>3. QED
      BY <3>1, <3>2
  <2>6. QED
    BY <1>a, <2>4, <2>5
<1>3. ASSUME NEW a \in Admins, call'[a].pc # "write",
             \A d \in Admins : d # a => call'[d] = call[d],
             \A d \in Admins : d # a /\ call[d].pc = "write" =>
                row'[call[d].id] = row[call[d].id]
      PROVE  EditorInv'
  <2>1. ASSUME NEW d \in Admins, call'[d].pc = "write" PROVE Good(d)'
    <3>1. d # a /\ call[d].pc = "write" /\ call'[d] = call[d]
      BY <1>3, <2>1
    <3>2. Editors(call[d].id) = {d}
      BY <1>a, <3>1
    <3>3. Editors(call[d].id)' = {d}
      BY <1>3, <3>1, <3>2 DEF Editors
    <3>4. QED
      BY <1>3, <1>a, <3>1, <3>3
  <2>2. QED
    BY <1>a, <2>1
<1>4. ASSUME NEW a \in Admins, UpdateStep(a) PROVE EditorInv'
  <2>1. call'[a].pc # "write"
    BY <1>4, RunningCall
       DEF UpdateStep, Write, UpdateError, SaveStatus, MailStatus, Return,
           NoCall, UpdateCall, TypeOK
  <2>2. \A d \in Admins : d # a => call'[d] = call[d]
    BY <1>4 DEF UpdateStep, Write, UpdateError, MailStatus, Return, TypeOK
  <2>3. CASE UNCHANGED row
    BY <1>3, <2>1, <2>2, <2>3
  <2>4. CASE SaveStatus(a)
    <3>1. \A d \in Admins : d # a /\ call[d].pc = "write" =>
             call[d].id # call[a].id
      BY <2>4, <1>a DEF SaveStatus, Editors
    <3>2. \A d \in Admins : d # a /\ call[d].pc = "write" =>
             row'[call[d].id] = row[call[d].id]
      BY <2>4, <3>1, <1>b, SaveEffect
    <3>3. QED
      BY <1>3, <2>1, <2>2, <3>2
  <2>5. QED
    BY <1>4, <2>3, <2>4
       DEF UpdateStep, Write, UpdateError, MailStatus, Return
<1>5. CASE UNCHANGED <<row, call>>
  BY <1>5 DEF EditorInv, Editors
<1>6. CASE Crash
  BY <1>6 DEF Crash, EditorInv, NoCall
<1>7. QED
  BY <1>1, <1>2, <1>4, <1>5, <1>6
     DEF Next, Ignore, CreateStep, Submit, Check, Commit, Abort, CreateError,
         CommitUnacknowledged, MailRequested, Answer, Tick, vars, customerVars

LEMMA NextActiveSnapshot ==
    TypeOK /\ RowInv /\ EditorInv /\ ActiveSnapshotInv /\ [Next]_vars
        => ActiveSnapshotInv'
<1> SUFFICES ASSUME TypeOK, RowInv, EditorInv, ActiveSnapshotInv, [Next]_vars
             PROVE  ActiveSnapshotInv'
  OBVIOUS
<1>1. ASSUME NEW b \in Bookings, NEW i \in Proposals, Submit(b, i)
      PROVE  ActiveSnapshotInv'
  BY <1>1 DEF Submit, ActiveSnapshotInv, RowInv, TypeOK
<1>2. ASSUME NEW b \in Bookings, Check(b) PROVE ActiveSnapshotInv'
  BY <1>2 DEF Check, Blocked, ActiveSnapshotInv, Existing, TypeOK
<1>3. ASSUME NEW b \in Bookings, Commit(b) \/ CommitUnacknowledged(b)
      PROVE  ActiveSnapshotInv'
  BY <1>3 DEF Commit, CommitUnacknowledged, CommitRow, ActiveSnapshotInv,
              RowInv, TypeOK
<1>4. ASSUME NEW b \in Bookings, Abort(b) \/ CreateError(b) \/ Answer(b)
                              \/ Ignore(b)
      PROVE  ActiveSnapshotInv'
  BY <1>4 DEF Abort, CreateError, Answer, Ignore, ActiveSnapshotInv, TypeOK
<1>5. ASSUME NEW a \in Admins, SaveStatus(a), UNCHANGED customerVars
      PROVE  ActiveSnapshotInv'
  <2>1. \A c \in Bookings : /\ row'[c] \in Active => row[c] \in Active
                            /\ row[c] # "none" => row'[c] # "none"
    BY <1>5, EditorSave
  <2>2. QED
    BY <1>5, <2>1 DEF ActiveSnapshotInv, customerVars, TypeOK
<1>6. CASE UNCHANGED <<row, interval, request, snapshot>>
  BY <1>6 DEF ActiveSnapshotInv
<1>7. CASE Crash
  BY <1>7 DEF Crash, Running, ActiveSnapshotInv, TypeOK
<1>8. QED
  BY <1>1, <1>2, <1>3, <1>4, <1>5, <1>6, <1>7
     DEF Next, CreateStep, UpdateStep, Read, Write, UpdateError, MailStatus,
         Return, Tick, MailRequested, vars, customerVars

\* Where a row is committed, no active appointment is in its way.
LEMMA CommitFindsFreeSlot ==
    ASSUME TypeOK, RowInv, ActiveSnapshotInv, NEW b \in Bookings, CommitRow(b)
    PROVE  /\ row[b] = "none"
           /\ interval[b] \in Proposals
           /\ \A c \in Bookings : row[c] \in Active =>
                 /\ ~Overlaps(interval[c], interval[b])
                 /\ ~Overlaps(interval[b], interval[c])
<1>1. row[b] = "none" /\ interval[b] \in Proposals
  BY DEF CommitRow, RowInv
<1>2. ASSUME NEW c \in Bookings, row[c] \in Active
      PROVE  /\ ~Overlaps(interval[c], interval[b])
             /\ ~Overlaps(interval[b], interval[c])
  <2>1. row[c] # "none"
    BY <1>2 DEF Active
  <2>2. ~Overlaps(interval[c], interval[b])
    BY <1>2, <2>1 DEF CommitRow, Serializable, Existing, ActiveSnapshotInv
  <2>3. interval[c] \in Proposals
    BY <2>1 DEF RowInv
  <2>4. QED
    BY <1>1, <2>2, <2>3, OverlapsSymmetric
<1>3. QED
  BY <1>1, <1>2

LEMMA NextNoOverlap ==
    TypeOK /\ RowInv /\ EditorInv /\ ActiveSnapshotInv /\ NoOverlap
        /\ [Next]_vars => NoOverlap'
<1> SUFFICES ASSUME TypeOK, RowInv, EditorInv, ActiveSnapshotInv, NoOverlap,
                    [Next]_vars
             PROVE  NoOverlap'
  OBVIOUS
<1>1. ASSUME NEW b \in Bookings, NEW i \in Proposals, Submit(b, i)
      PROVE  NoOverlap'
  BY <1>1 DEF Submit, NoOverlap, RowInv, Active, TypeOK
<1>2. ASSUME NEW b \in Bookings, CommitRow(b), UNCHANGED interval
      PROVE  NoOverlap'
  <2>1. \A c \in Bookings : c # b => row'[c] = row[c]
    BY <1>2 DEF CommitRow, TypeOK
  <2>2. QED
    BY <1>2, <2>1, CommitFindsFreeSlot DEF NoOverlap
<1>3. ASSUME NEW a \in Admins, SaveStatus(a), UNCHANGED customerVars
      PROVE  NoOverlap'
  <2>1. \A c \in Bookings : row'[c] \in Active => row[c] \in Active
    BY <1>3, EditorSave
  <2>2. QED
    BY <1>3, <2>1 DEF NoOverlap, customerVars
<1>4. CASE UNCHANGED <<interval, row>>
  BY <1>4 DEF NoOverlap
<1>5. QED
  BY <1>1, <1>2, <1>3, <1>4
     DEF Next, Ignore, CreateStep, Check, Commit, Abort, CreateError, MailRequested,
         CommitUnacknowledged, Answer, UpdateStep, Read, Write, UpdateError,
         MailStatus, Return, Tick, Crash, vars, customerVars

\* The inductive invariant for one editor per appointment.
EditedInv == RacyInv /\ EditorInv /\ ActiveSnapshotInv /\ NoOverlap

LEMMA NextEdited ==
    ASSUME OneEditorPerAppointment
    PROVE  EditedInv /\ [Next]_vars => EditedInv'
BY NextType, NextRow, NextHistory, NextSnapshot, NextRequests, NextMail,
   NextEditor, NextActiveSnapshot, NextNoOverlap
   DEF EditedInv, RacyInv

LEMMA EditedInvariant ==
    ASSUME OneEditorPerAppointment
    PROVE  Spec => []EditedInv
<1>1. Init => EditedInv
  BY InitType
     DEF Init, EditedInv, RacyInv, RowInv, HistoryInv, SnapshotInv, NoCall,
         RequestsNeverOverlap, MailAnnouncesSavedStatus, EditorInv,
         ActiveSnapshotInv, NoOverlap, Active
<1>2. EditedInv /\ [Next]_vars => EditedInv'
  BY NextEdited
<1>3. QED
  BY <1>1, <1>2, PTL DEF Spec

\* No two active appointments overlap, for any number of customers and staff,
\* as long as no two staff edit the same appointment at once.
THEOREM NoDoubleBooking ==
    ASSUME OneEditorPerAppointment
    PROVE  Spec => []NoOverlap
<1>1. EditedInv => NoOverlap
  BY DEF EditedInv
<1>2. QED
  BY <1>1, EditedInvariant, PTL

LEMMA StepRow ==
    ASSUME EditedInv, [Next]_vars
    PROVE  \/ /\ \E b \in Bookings : CommitRow(b)
              /\ UNCHANGED interval
           \/ /\ \E a \in Admins : SaveStatus(a)
              /\ UNCHANGED interval
           \/ /\ \E b \in Bookings, i \in Proposals : Submit(b, i)
              /\ UNCHANGED row
           \/ UNCHANGED <<row, interval>>
BY DEF Next, Ignore, CreateStep, Submit, Check, Commit, Abort, CreateError,
       MailRequested, CommitUnacknowledged, Answer, UpdateStep, Read, Write,
       UpdateError, MailStatus, Return, Tick, Crash, vars, customerVars

\* The status of an appointment changes only along TRANSITIONS, under the same
\* assumption.
THEOREM StatusesFollowTheTable ==
    ASSUME OneEditorPerAppointment
    PROVE  Spec => StatusMachine
<1> DEFINE Along ==
      \A b \in Bookings :
          row'[b] # row[b] =>
              IF row[b] = "none" THEN row'[b] = "REQUESTED"
                                 ELSE row'[b] \in Transitions(row[b])
<1>1. EditedInv /\ [Next]_vars => [Along]_vars
  <2> SUFFICES ASSUME EditedInv, [Next]_vars PROVE Along
    OBVIOUS
  <2>1. ASSUME NEW b \in Bookings, CommitRow(b) PROVE Along
    BY <2>1 DEF CommitRow, EditedInv, RacyInv, RowInv, TypeOK
  <2>2. ASSUME NEW a \in Admins, SaveStatus(a) PROVE Along
    BY <2>2, EditorSave DEF EditedInv, RacyInv
  <2>3. QED
    BY <2>1, <2>2, StepRow
<1>2. QED
  BY <1>1, EditedInvariant, PTL DEF Spec, StatusMachine

\* Appointments implements BookingCalendar: an appointment enters the calendar
\* in one atomic, overlap-free step.
THEOREM CalendarIsAtomic ==
    ASSUME OneEditorPerAppointment
    PROVE  Spec => ImplementsCalendar
<1> DEFINE slotBar == [b \in Bookings |-> BookedSlot(b)]
<1>1. Init => Calendar!Init
  BY DEF Init, Calendar!Init, BookedSlot, NoSlot, Calendar!NoSlot
<1>2. EditedInv /\ [Next]_vars => [Calendar!Next]_(Calendar!vars)
  <2> SUFFICES ASSUME EditedInv, [Next]_vars
               PROVE  Calendar!Next \/ UNCHANGED <<row, slotBar>>
    BY DEF Calendar!vars
  <2> USE DEF EditedInv, RacyInv
  <2>1. ASSUME NEW b \in Bookings, CommitRow(b), UNCHANGED interval
        PROVE  Calendar!Book(b, interval[b])
    <3>1. /\ row[b] = "none"
          /\ \A c \in Bookings : row[c] \in Active =>
                ~Overlaps(interval[c], interval[b])
      BY <2>1, CommitFindsFreeSlot
    <3>2. \A c \in Bookings : row[c] \in Active => slotBar[c] = interval[c]
      BY DEF BookedSlot, Active
    <3>3. slotBar' = [slotBar EXCEPT ![b] = interval[b]]
      BY <2>1, <3>1 DEF CommitRow, BookedSlot, TypeOK
    <3>4. QED
      BY <2>1, <3>1, <3>2, <3>3
         DEF Calendar!Book, Calendar!Active, Calendar!Overlaps, Active,
             Overlaps, CommitRow
  <2>2. ASSUME NEW a \in Admins, SaveStatus(a), UNCHANGED interval
        PROVE  Calendar!Move(call[a].id, call[a].target)
    <3>1. /\ row[call[a].id] # "none"
          /\ call[a].target \in Transitions(row[call[a].id])
      BY <2>2 DEF SaveStatus, EditorInv
    <3>2. \A c \in Bookings : row'[c] = "none" <=> row[c] = "none"
      BY <2>2, EditorSave DEF RowInv
    <3>3. slotBar' = slotBar
      BY <2>2, <3>2 DEF BookedSlot
    <3>4. QED
      BY <2>2, <3>1, <3>3
         DEF SaveStatus, Calendar!Move, Calendar!Transitions, Transitions
  <2>3. ASSUME NEW b \in Bookings, NEW i \in Proposals, Submit(b, i)
        PROVE  UNCHANGED <<row, slotBar>>
    <3>1. row[b] = "none" /\ row' = row
      BY <2>3 DEF Submit, RowInv
    <3>2. \A c \in Bookings : c # b => interval'[c] = interval[c]
      BY <2>3 DEF Submit, TypeOK
    <3>3. \A c \in Bookings : BookedSlot(c)' = BookedSlot(c)
      BY <3>1, <3>2 DEF BookedSlot
    <3>4. QED
      BY <3>1, <3>3
  <2>4. CASE UNCHANGED <<row, interval>>
    BY <2>4 DEF BookedSlot
  <2>5. ASSUME NEW b \in Bookings, CommitRow(b), UNCHANGED interval
        PROVE  Calendar!Next
    BY <2>1, <2>5, CommitFindsFreeSlot DEF Calendar!Next
  <2>6. ASSUME NEW a \in Admins, SaveStatus(a), UNCHANGED interval
        PROVE  Calendar!Next
    BY <2>2, <2>6, SaveEffect DEF Calendar!Next, Calendar!Statuses, Statuses
  <2>7. QED
    BY <2>3, <2>4, <2>5, <2>6, StepRow
<1>3. QED
  BY <1>1, <1>2, EditedInvariant, PTL
     DEF Spec, ImplementsCalendar, Calendar!Spec

(***************************************************************************)
(* The slots on offer                                                      *)
(***************************************************************************)

\* A slot on offer is within the hours that create() accepts.
LEMMA OfferedIsValid ==
    ASSUME TypeOK, NEW from \in Int, NEW to \in Int, NEW i \in Slots(from, to)
    PROVE  ValidTime(i)
<1>1. SlotLength \in Nat /\ now \in Int /\ Horizon \in Int
  BY SlotAssumption, ClockAssumption DEF TypeOK
<1>2. PICK s \in Starts(from, to) : i = [start |-> s, end |-> s + SlotLength]
  BY DEF Slots
<1>3. s \in Int /\ now < s /\ s + SlotLength <= now + Horizon
  BY <1>1, <1>2 DEF Starts
<1>4. i.start = s /\ i.end = s + SlotLength
  BY <1>2
<1>5. i.end - i.start = SlotLength
  BY <1>1, <1>3, <1>4
<1> QED
  BY <1>1, <1>3, <1>4, <1>5, SlotAssumption DEF ValidTime

\* Only a call with an invalid time is told so.
LEMMA InvalidIsInvalid ==
    ASSUME TypeOK, [Next]_vars, NEW b \in Bookings,
           request[b] = "idle", request'[b] = "invalid"
    PROVE  interval'[b] \in Proposals /\ ~ValidTime(interval'[b])
<1> USE DEF TypeOK
<1>1. PICK c \in Bookings, i \in Proposals : Submit(c, i)
  <2>1. ASSUME NEW c \in Bookings, CreateStep(c) PROVE FALSE
    BY <2>1 DEF CreateStep, Check, Commit, Abort, CreateError, CommitUnacknowledged,
                MailRequested, Answer
  <2>2. ASSUME NEW a \in Admins, UpdateStep(a) PROVE FALSE
    BY <2>2 DEF UpdateStep, Write, UpdateError, MailStatus, Return, customerVars
  <2>3. ~Tick /\ ~UNCHANGED vars /\ (\A c \in Bookings : ~Ignore(c)) /\ \A a \in Admins, c \in Bookings, s \in Statuses : ~Read(a, c, s)
    BY DEF Tick, vars, Ignore, Read, customerVars
  <2>4. ~Crash
    BY DEF Crash, Running
  <2> QED BY <2>1, <2>2, <2>3, <2>4 DEF Next
<1>2. c = b /\ interval'[b] = i /\ ~ValidTime(i)
  BY <1>1 DEF Submit
<1> QED BY <1>2

\* A customer who asks for a slot on offer is never told that it is invalid.
THEOREM OffersHold == Spec => OffersAreAccepted
<1>1. ASSUME TypeOK, [Next]_vars, NEW b \in Bookings,
             request[b] = "idle", request'[b] = "invalid"
      PROVE  interval'[b] \notin Slots(interval'[b].start, interval'[b].end)
  <2>1. interval'[b] \in Proposals /\ ~ValidTime(interval'[b])
    BY <1>1, InvalidIsInvalid
  <2>2. interval'[b].start \in Int /\ interval'[b].end \in Int
    BY <2>1, ProposalsAssumption
  <2> QED BY <1>1, <2>1, <2>2, OfferedIsValid
<1>2. TypeOK /\ [Next]_vars =>
        [\A b \in Bookings : request[b] = "idle" /\ request'[b] = "invalid"
            => interval'[b] \notin Slots(interval'[b].start, interval'[b].end)]_vars
  BY <1>1
<1> QED BY <1>2, TypeCorrect, PTL DEF Spec, OffersAreAccepted
=============================================================================
