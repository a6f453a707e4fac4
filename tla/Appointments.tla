---------------------------- MODULE Appointments ----------------------------
(***************************************************************************)
(* Consultation booking: AppointmentsService.create run by any number of   *)
(* customers, AppointmentsService.updateStatus run by any number of staff, *)
(* the notification emails both send afterwards, and crashes of the one    *)
(* API process in between.                                                 *)
(*                                                                         *)
(* create checks for an overlapping active appointment and inserts its row *)
(* in one SERIALIZABLE transaction.  PostgreSQL gives the transaction a    *)
(* snapshot at its first query and refuses the commit (P2034) when a       *)
(* serializable transaction that committed after the snapshot inserted a   *)
(* row the check would have found; it may also refuse one for no visible   *)
(* reason.  updateStatus runs outside any transaction: it reads the row,   *)
(* decides, and later writes the new status whatever the row then holds.   *)
(***************************************************************************)
EXTENDS AppointmentRules

CONSTANTS
    Bookings,     \* create calls; a call's row has the call's identity
    Proposals,    \* the [start, end] intervals customers may propose
    Admins,       \* staff, each with at most one updateStatus call running
    Recipients,   \* who is mailed: the customer and the BIM4C inbox
    Durations,    \* the bookable lengths
    SlotLength,   \* the length of the slots on offer, half an hour
    Horizon,      \* MAX_BOOKING_HORIZON_DAYS
    MaxNow,       \* bound: the clock stops here
    OneEditorPerAppointment
                  \* TRUE: staff never edit the same appointment concurrently

ASSUME ProposalsAssumption == Proposals \subseteq [start : Int, end : Int]
ASSUME ClockAssumption ==
    Durations \subseteq Nat /\ Horizon \in Nat /\ MaxNow \in Nat
ASSUME SlotAssumption == SlotLength \in Durations
ASSUME EditorAssumption == OneEditorPerAppointment \in BOOLEAN

\* No updateStatus call is running.
NoCall == [pc |-> "idle"]

\* Definitions marked "mutant of D" are plausible bugs of D; each shows that
\* some property below would catch it.

VARIABLES
    now,        \* the clock
    row,        \* row[b]: status of the committed appointment row, or "none"
    interval,   \* interval[b]: what create call b was sent
    request,    \* request[b]: how far create call b is, or its answer
    snapshot,   \* snapshot[b]: the rows call b's transaction can see
    unmailed,   \* unmailed[b]: recipients call b has yet to mail
    call,       \* call[a]: the updateStatus call of staff a
    outbox,     \* emails the provider accepted: <<appointment, kind, to>>
    reached     \* history: every status that was ever saved for a row

vars == <<now, row, interval, request, snapshot, unmailed, call, outbox, reached>>
customerVars == <<interval, request, snapshot, unmailed>>

\* Answers: "created" 201 with the appointment, "conflict" 409, "invalid" 422,
\* "failed" 500, "lost" when the process died first.  "ignored" is a 201 too, of
\* the honeypot: a bare "your request has been received", of no appointment.
Answers == {"created", "conflict", "invalid", "failed", "lost", "ignored"}

UpdateCall ==
    [pc : {"write", "notify"}, id : Bookings, target : Statuses,
     unmailed : SUBSET Recipients]

TypeOK ==
    /\ now \in 0..MaxNow
    /\ row \in [Bookings -> Statuses \cup {"none"}]
    /\ interval \in [Bookings -> Proposals \cup {NoSlot}]
    /\ request \in
         [Bookings -> {"idle", "check", "insert", "notify"} \cup Answers]
    /\ snapshot \in [Bookings -> SUBSET Bookings]
    /\ unmailed \in [Bookings -> SUBSET Recipients]
    /\ call \in [Admins -> UpdateCall \cup {NoCall}]
    /\ outbox \subseteq Bookings \X Statuses \X Recipients
    /\ reached \in [Bookings -> SUBSET Statuses]

Init ==
    /\ now = 0
    /\ row = [b \in Bookings |-> "none"]
    /\ interval = [b \in Bookings |-> NoSlot]
    /\ request = [b \in Bookings |-> "idle"]
    /\ snapshot = [b \in Bookings |-> {}]
    /\ unmailed = [b \in Bookings |-> {}]
    /\ call = [a \in Admins |-> NoCall]
    /\ outbox = {}
    /\ reached = [b \in Bookings |-> {}]

-----------------------------------------------------------------------------
(* create *)

\* The checks of create before it touches the database.
ValidTime(i) ==
    /\ i.end - i.start \in Durations
    /\ now < i.start
    /\ i.start <= now + Horizon

\* A customer posts the form.
Submit(b, i) ==
    /\ request[b] = "idle"
    /\ interval' = [interval EXCEPT ![b] = i]
    /\ request' = [request EXCEPT ![b] =
                     IF ValidTime(i) THEN "check" ELSE "invalid"]
    /\ UNCHANGED <<now, row, snapshot, unmailed, call, outbox, reached>>

\* The hidden field is filled in: HoneypotInterceptor answers before create is
\* reached, and nothing is read, stored or mailed.
Ignore(b) ==
    /\ request[b] = "idle"
    /\ request' = [request EXCEPT ![b] = "ignored"]
    /\ UNCHANGED <<now, row, interval, snapshot, unmailed, call, outbox, reached>>

Existing == {b \in Bookings : row[b] # "none"}

BlockedByConfirmedOnly(b) ==    \* mutant of Blocked
    \E c \in Existing : row[c] = "CONFIRMED" /\ Overlaps(interval[c], interval[b])

\* The overlap query finds a row.
Blocked(b) ==
    \E c \in Existing : row[c] \in Active /\ Overlaps(interval[c], interval[b])

\* The overlap query, the transaction's first: it fixes the snapshot.
Check(b) ==
    /\ request[b] = "check"
    /\ IF Blocked(b)
       THEN /\ request' = [request EXCEPT ![b] = "conflict"]
            /\ UNCHANGED snapshot
       ELSE /\ request' = [request EXCEPT ![b] = "insert"]
            /\ snapshot' = [snapshot EXCEPT ![b] = Existing]
    /\ UNCHANGED <<now, row, interval, unmailed, call, outbox, reached>>

StartsBeyond(from, to) ==   \* mutant of Starts
    {s \in from..(to - SlotLength) : s % SlotLength = 0 /\ now < s}

\* slots(): the starts on offer between from and to.
Starts(from, to) ==
    {s \in from..(to - SlotLength) :
        s % SlotLength = 0 /\ now < s /\ s + SlotLength <= now + Horizon}

\* What the availability page lists: the slots that are free.
Slots(from, to) ==
    {i \in {[start |-> s, end |-> s + SlotLength] : s \in Starts(from, to)} :
        \A c \in Existing : row[c] \in Active => ~Overlaps(interval[c], i)}

ReadCommitted(b) == TRUE    \* mutant of Serializable

\* What PostgreSQL lets commit: nothing the overlap query would have matched
\* was inserted since the snapshot.
Serializable(b) ==
    \A c \in Existing \ snapshot[b] : ~Overlaps(interval[c], interval[b])

CommitRowPending(b) ==      \* mutant of CommitRow
    /\ request[b] = "insert"
    /\ Serializable(b)
    /\ row' = [row EXCEPT ![b] = "PENDING"]
    /\ reached' = [reached EXCEPT ![b] = @ \cup {"PENDING"}]
    /\ snapshot' = [snapshot EXCEPT ![b] = {}]

\* The row becomes visible; the column default is REQUESTED.
CommitRow(b) ==
    /\ request[b] = "insert"
    /\ Serializable(b)
    /\ row' = [row EXCEPT ![b] = "REQUESTED"]
    /\ reached' = [reached EXCEPT ![b] = @ \cup {"REQUESTED"}]
    /\ snapshot' = [snapshot EXCEPT ![b] = {}]

\* Insert and commit; the notifications follow only now.
Commit(b) ==
    /\ CommitRow(b)
    /\ request' = [request EXCEPT ![b] = "notify"]
    /\ unmailed' = [unmailed EXCEPT ![b] = Recipients]
    /\ UNCHANGED <<now, interval, call, outbox>>

\* P2034, a serialization failure, is answered like an overlap.  The database
\* may raise it whether or not it has to.
Abort(b) ==
    /\ request[b] \in {"check", "insert"}
    /\ request' = [request EXCEPT ![b] = "conflict"]
    /\ snapshot' = [snapshot EXCEPT ![b] = {}]
    /\ UNCHANGED <<now, row, interval, unmailed, call, outbox, reached>>

\* Any other database error is rethrown: nothing was inserted ...
CreateError(b) ==
    /\ request[b] \in {"check", "insert"}
    /\ request' = [request EXCEPT ![b] = "failed"]
    /\ snapshot' = [snapshot EXCEPT ![b] = {}]
    /\ UNCHANGED <<now, row, interval, unmailed, call, outbox, reached>>

ConflictForAnyError(b) ==   \* mutant of CommitUnacknowledged
    /\ CommitRow(b)
    /\ request' = [request EXCEPT ![b] = "conflict"]
    /\ UNCHANGED <<now, interval, unmailed, call, outbox>>

\* ... or the row was committed and only the acknowledgement was lost.
CommitUnacknowledged(b) ==
    /\ CommitRow(b)
    /\ request' = [request EXCEPT ![b] = "failed"]
    /\ UNCHANGED <<now, interval, unmailed, call, outbox>>

\* One EmailService.send of the notification ends: sent, failed or skipped.
\* A failed one may have been accepted too (its answer timed out).
MailRequested(b, to) ==
    /\ request[b] = "notify"
    /\ to \in unmailed[b]
    /\ unmailed' = [unmailed EXCEPT ![b] = @ \ {to}]
    /\ outbox' \in {outbox, outbox \cup {<<b, "REQUESTED", to>>}}
    /\ UNCHANGED <<now, row, interval, request, snapshot, call, reached>>

\* Both sends have settled: answer the customer, whatever became of the mail.
Answer(b) ==
    /\ request[b] = "notify"
    /\ unmailed[b] = {}
    /\ request' = [request EXCEPT ![b] = "created"]
    /\ UNCHANGED <<now, row, interval, snapshot, unmailed, call, outbox, reached>>

-----------------------------------------------------------------------------
(* updateStatus *)

\* Who is between reading an appointment and writing it.
Editors(b) == {a \in Admins : call[a].pc = "write" /\ call[a].id = b}

ReadUnchecked(a, b, s) ==   \* mutant of Read
    /\ call[a] = NoCall
    /\ OneEditorPerAppointment => Editors(b) = {}
    /\ row[b] # "none"
    /\ row[b] # s
    /\ call' = [call EXCEPT ![a] =
                  [pc |-> "write", id |-> b, target |-> s, unmailed |-> {}]]
    /\ UNCHANGED <<now, row, customerVars, outbox, reached>>

\* The read, and what is decided from it.  A missing row is answered 404, an
\* unchanged status with the row as it is, a forbidden transition 409: only a
\* permitted transition goes on to the write.
Read(a, b, s) ==
    /\ call[a] = NoCall
    /\ OneEditorPerAppointment => Editors(b) = {}
    /\ row[b] # "none"
    /\ row[b] # s
    /\ s \in Transitions(row[b])
    /\ call' = [call EXCEPT ![a] =
                  [pc |-> "write", id |-> b, target |-> s, unmailed |-> {}]]
    /\ UNCHANGED <<now, row, customerVars, outbox, reached>>

\* UPDATE ... WHERE id: the status that was read is not checked again.
SaveStatus(a) ==
    LET b == call[a].id IN
    /\ call[a].pc = "write"
    /\ row' = [row EXCEPT ![b] = call[a].target]
    /\ reached' = [reached EXCEPT ![b] = @ \cup {call[a].target}]

\* The status is saved; its email follows only now.
Write(a) ==
    /\ SaveStatus(a)
    /\ call' = [call EXCEPT ![a].pc = "notify", ![a].unmailed = Recipients]
    /\ UNCHANGED <<now, customerVars, outbox>>

UpdateErrorIgnored(a) ==    \* mutant of UpdateError
    /\ call[a].pc = "write"
    /\ call' = [call EXCEPT ![a].pc = "notify", ![a].unmailed = Recipients]
    /\ UNCHANGED <<now, row, customerVars, outbox, reached>>

\* A database error answers 500; the status may have been saved regardless.
UpdateError(a) ==
    /\ call[a].pc = "write"
    /\ \/ SaveStatus(a)
       \/ UNCHANGED <<row, reached>>
    /\ call' = [call EXCEPT ![a] = NoCall]
    /\ UNCHANGED <<now, customerVars, outbox>>

\* One send of the status email ends, as for a request.
MailStatus(a, to) ==
    /\ call[a].pc = "notify"
    /\ to \in call[a].unmailed
    /\ call' = [call EXCEPT ![a].unmailed = @ \ {to}]
    /\ outbox' \in {outbox, outbox \cup {<<call[a].id, call[a].target, to>>}}
    /\ UNCHANGED <<now, row, customerVars, reached>>

ReturnWhenAccepted(a) ==    \* mutant of Return
    /\ call[a].pc = "notify"
    /\ \A to \in Recipients : <<call[a].id, call[a].target, to>> \in outbox
    /\ call' = [call EXCEPT ![a] = NoCall]
    /\ UNCHANGED <<now, row, customerVars, outbox, reached>>

Return(a) ==
    /\ call[a].pc = "notify"
    /\ call[a].unmailed = {}
    /\ call' = [call EXCEPT ![a] = NoCall]
    /\ UNCHANGED <<now, row, customerVars, outbox, reached>>

-----------------------------------------------------------------------------

Tick ==
    /\ now < MaxNow
    /\ now' = now + 1
    /\ UNCHANGED <<row, customerVars, call, outbox, reached>>

Running(b) == request[b] \in {"check", "insert", "notify"}

\* The API process dies and is restarted: open transactions roll back, every
\* call in flight is gone, with the emails it had still to send.
Crash ==
    /\ request' = [b \in Bookings |-> IF Running(b) THEN "lost" ELSE request[b]]
    /\ unmailed' = [b \in Bookings |-> {}]
    /\ snapshot' = [b \in Bookings |-> {}]
    /\ call' = [a \in Admins |-> NoCall]
    /\ UNCHANGED <<now, row, interval, outbox, reached>>

CreateStep(b) ==
    \/ Check(b) \/ Commit(b) \/ Abort(b)
    \/ CreateError(b) \/ CommitUnacknowledged(b)
    \/ \E to \in Recipients : MailRequested(b, to)
    \/ Answer(b)

UpdateStep(a) ==
    \/ Write(a) \/ UpdateError(a)
    \/ \E to \in Recipients : MailStatus(a, to)
    \/ Return(a)

Next ==
    \/ \E b \in Bookings, i \in Proposals : Submit(b, i)
    \/ \E b \in Bookings : Ignore(b)
    \/ \E b \in Bookings : CreateStep(b)
    \/ \E a \in Admins, b \in Bookings, s \in Statuses : Read(a, b, s)
    \/ \E a \in Admins : UpdateStep(a)
    \/ Tick
    \/ Crash

Spec == Init /\ [][Next]_vars

\* A call that was accepted runs to its answer: every await of a handler is a
\* database call or an email attempt that ends or times out.  Nothing makes
\* customers or staff call, nor the clock advance.
Fairness ==
    /\ \A b \in Bookings : WF_vars(CreateStep(b))
    /\ \A a \in Admins : WF_vars(UpdateStep(a))

FairSpec == Spec /\ Fairness

-----------------------------------------------------------------------------
(* Properties *)

BookedSlot(b) == IF row[b] = "none" THEN NoSlot ELSE interval[b]

\* No two active appointments overlap (docs/transactional-emails.md, "Active
\* bookings cannot overlap"), whatever the interleaving of creates, status
\* changes and crashes.
NoOverlap ==
    \A b, c \in Bookings :
        b # c /\ row[b] \in Active /\ row[c] \in Active
            => ~Overlaps(interval[b], interval[c])

\* The booking transaction alone never admits an overlap: two appointments
\* nobody has edited yet are apart, even when edits of others race.
RequestsNeverOverlap ==
    \A b, c \in Bookings :
        b # c /\ reached[b] = {"REQUESTED"} /\ reached[c] = {"REQUESTED"}
            => ~Overlaps(interval[b], interval[c])

\* A customer told that the slot is gone (409) or the time is invalid (422)
\* has no appointment, one who is answered with an appointment has it; a 500 or
\* a dropped connection leaves it open.  The honeypot's answer is worded as a
\* success ("it gets the same success answer but nothing is stored",
\* honeypot.interceptor.ts) and never stands for an appointment: whoever fills in
\* the hidden field, a bot or not, has none and cannot tell.
AnswersAreTrue ==
    \A b \in Bookings :
        /\ request[b] \in {"conflict", "invalid", "ignored"} => row[b] = "none"
        /\ request[b] \in {"notify", "created"} => row[b] # "none"

\* An email announces only a status that was saved first ("Notify only after
\* the transaction has committed"), although saving and mailing are separate
\* steps that may fail, crash or race independently.
MailAnnouncesSavedStatus ==
    \A m \in outbox : m[2] \in reached[m[1]]

\* A status changes only along TRANSITIONS: a finished or cancelled
\* appointment stays so.
StatusMachine ==
    [][\A b \in Bookings :
          row'[b] # row[b] =>
              IF row[b] = "none" THEN row'[b] = "REQUESTED"
                                 ELSE row'[b] \in Transitions(row[b])]_vars

\* An appointment that is created enters the calendar atomically and without
\* overlap, and moves along the table: Appointments implements the abstract
\* calendar.
Calendar == INSTANCE BookingCalendar
              WITH status <- row, slot <- [b \in Bookings |-> BookedSlot(b)]
ImplementsCalendar == Calendar!Spec

\* A customer who asks for a slot that is on offer is not told that its time is
\* invalid: the list and create() check the clock and the horizon each in its
\* own way.
OffersAreAccepted ==
    [][\A b \in Bookings :
          request[b] = "idle" /\ request'[b] = "invalid"
              => interval'[b] \notin Slots(interval'[b].start, interval'[b].end)]_vars

\* Every call that was accepted ends, with an answer or with the process: a
\* create never hangs between its commit and its answer, and an updateStatus
\* that saved a status attempts every email of it and returns.
EveryCallEnds ==
    /\ \A b \in Bookings : Running(b) ~> request[b] \in Answers
    /\ \A a \in Admins : call[a].pc # "idle" ~> call[a].pc = "idle"

-----------------------------------------------------------------------------
(* Inductive invariants, used by AppointmentsProofs *)

\* A create call owns the row of its identity: before its commit there is
\* none, after it there is one, and a refused call never has one.
RowInv ==
    \A b \in Bookings :
        /\ request[b] \in
              {"idle", "check", "insert", "conflict", "invalid", "ignored"}
              => row[b] = "none"
        /\ request[b] \in {"notify", "created"} => row[b] # "none"
        /\ request[b] \in {"check", "insert"} \/ row[b] # "none"
              => interval[b] \in Proposals

\* The history agrees with the rows, and with what the calls are about to do.
HistoryInv ==
    /\ \A b \in Bookings :
          /\ row[b] # "none" <=> "REQUESTED" \in reached[b]
          /\ row[b] = "none" => reached[b] = {}
          /\ reached[b] = {"REQUESTED"} => row[b] = "REQUESTED"
    /\ \A a \in Admins :
          /\ call[a].pc = "write" =>
                row[call[a].id] # "none" /\ call[a].target # "REQUESTED"
          /\ call[a].pc = "notify" => call[a].target \in reached[call[a].id]

\* What the overlap query established about the rows it saw: it still holds of
\* those nobody edited.
SnapshotInv ==
    \A b \in Bookings : request[b] = "insert" =>
        \A c \in snapshot[b] :
            /\ row[c] # "none"
            /\ reached[c] = {"REQUESTED"} => ~Overlaps(interval[c], interval[b])

\* With one editor per appointment, a call about to write still writes a
\* permitted transition ...
EditorInv ==
    \A a \in Admins : call[a].pc = "write" =>
        /\ row[call[a].id] # "none"
        /\ call[a].target \in Transitions(row[call[a].id])
        /\ Editors(call[a].id) = {a}

\* ... so that no row a transaction saw as free becomes active again.
ActiveSnapshotInv ==
    \A b \in Bookings : request[b] = "insert" =>
        \A c \in snapshot[b] :
            /\ row[c] # "none"
            /\ row[c] \in Active => ~Overlaps(interval[c], interval[b])
=============================================================================
