--------------------------- MODULE MCAppointments ---------------------------
(***************************************************************************)
(* Constants for model-checking Appointments.  One unit of time is 15      *)
(* minutes, so the bookable lengths are 2, 3, 4, 6 and 8.                  *)
(***************************************************************************)
EXTENDS Appointments

\* Two overlapping proposals, where other intervals add nothing.
MCTwoProposals == { [start |-> 1, end |-> 3], [start |-> 2, end |-> 4] }

\* Here the unit is half an hour.  With the clock at 0 or 1 and a horizon of 7
\* the first is bookable, and on offer, only at 0, the second bookable only at 1.
MCClockProposals == { [start |-> 1, end |-> 2], [start |-> 8, end |-> 9] }
MCHalfHours == {1, 2, 3, 4}

MCDurations == {2, 3, 4, 6, 8}
=============================================================================
