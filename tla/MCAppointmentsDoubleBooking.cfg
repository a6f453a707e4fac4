\* Two staff edit the same appointment at once.
CONSTANTS
    Bookings = {b1, b2}
    Admins = {a1, a2}
    Recipients = {}
    Proposals <- MCTwoProposals
    Durations <- MCDurations
    SlotLength = 2
    Horizon = 7
    MaxNow = 0
    OneEditorPerAppointment = FALSE
SPECIFICATION Spec
INVARIANT NoOverlap
CHECK_DEADLOCK FALSE
