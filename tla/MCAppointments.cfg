\* Two customers and one member of staff: bookings, status changes, emails,
\* crashes and progress, while the clock opens and closes the booking window.
CONSTANTS
    Bookings = {b1, b2}
    Admins = {a1}
    Recipients = {customer}
    Proposals <- MCClockProposals
    Durations <- MCHalfHours
    SlotLength = 1
    Horizon = 7
    MaxNow = 1
    OneEditorPerAppointment = TRUE
SPECIFICATION FairSpec
INVARIANTS TypeOK NoOverlap AnswersAreTrue MailAnnouncesSavedStatus
PROPERTIES StatusMachine ImplementsCalendar OffersAreAccepted EveryCallEnds
CHECK_DEADLOCK FALSE
