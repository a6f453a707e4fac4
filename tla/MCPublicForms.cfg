\* A cap and a window of one, and one tick or one restart.
CONSTANTS
    n1 = n1
    n2 = n2
    c1 = c1
    visitor = visitor
    inbox = inbox
    NoAddress = NoAddress
    Submissions = {n1, n2, c1}
    Batches <- MCBatches
    Kind <- MCKind
    Email <- MCEmail
    Inbox = inbox
    Addresses = {visitor, inbox}
    Calls <- FormCalls
    Keys <- FormKeys
    KeyOf <- FormKey
    AddressOf <- FormAddress
    PublicForm <- FormPublic
    Cap = 1
    Window = 1
    MaxEvents = 1
SPECIFICATION FormsFairSpec
INVARIANTS FormsTypeOK RecipientCap FormsTellTheTruth
PROPERTIES OneEmailPerActivation SkippedOnlyAtCap ImplementsOutgoingMail ActivationIsWelcomed EverySubmissionEnds
CHECK_DEADLOCK FALSE
