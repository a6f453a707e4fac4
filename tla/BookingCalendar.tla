-------------------------- MODULE BookingCalendar --------------------------
(***************************************************************************)
(* What the consultation calendar promises its users, with no handler,     *)
(* transaction or email in sight: an appointment enters the calendar in    *)
(* one step and only where no active appointment overlaps it, and its      *)
(* status then only moves along the table of permitted transitions.        *)
(* Appointments is shown to implement this.                                *)
(***************************************************************************)
EXTENDS AppointmentRules

CONSTANTS
    Bookings,   \* identities of appointment rows
    Proposals   \* the [start, end] intervals customers may propose

VARIABLES
    status,     \* status[b]: the status of row b, or "none"
    slot        \* slot[b]: the interval of row b

vars == <<status, slot>>

Init ==
    /\ status = [b \in Bookings |-> "none"]
    /\ slot = [b \in Bookings |-> NoSlot]

\* A customer's request enters the calendar.
Book(b, i) ==
    /\ status[b] = "none"
    /\ \A c \in Bookings : status[c] \in Active => ~Overlaps(slot[c], i)
    /\ status' = [status EXCEPT ![b] = "REQUESTED"]
    /\ slot' = [slot EXCEPT ![b] = i]

\* Staff move an appointment along the state machine.
Move(b, s) ==
    /\ status[b] # "none"
    /\ s \in Transitions(status[b])
    /\ status' = [status EXCEPT ![b] = s]
    /\ UNCHANGED slot

Next ==
    \E b \in Bookings :
        \/ \E i \in Proposals : Book(b, i)
        \/ \E s \in Statuses : Move(b, s)

Spec == Init /\ [][Next]_vars
=============================================================================
