-------------------------- MODULE AppointmentRules --------------------------
(***************************************************************************)
(* The data of the consultation calendar: appointment statuses, the table  *)
(* of permitted transitions and the overlap condition.                     *)
(***************************************************************************)
EXTENDS Integers

\* AppointmentStatus; a row that does not exist is "none".
Statuses == {"REQUESTED", "CONFIRMED", "CANCELLED", "COMPLETED", "NO_SHOW"}

\* The statuses that keep their time slot occupied.
Active == {"REQUESTED", "CONFIRMED"}

\* The statuses a status may be changed to.
Transitions(s) ==
    CASE s = "REQUESTED" -> {"CONFIRMED", "CANCELLED"}
      [] s = "CONFIRMED" -> {"COMPLETED", "CANCELLED", "NO_SHOW"}
      [] OTHER           -> {}

\* Half-open intervals: one may start when the other ends.
Overlaps(i, j) == i.start < j.end /\ i.end > j.start

\* The interval of a row that does not exist.
NoSlot == [start |-> 0, end |-> 0]
=============================================================================
