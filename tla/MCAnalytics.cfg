\* Two days of two ticks; an event is kept for one day.
CONSTANTS
    first = first
    later = later
    crawler = crawler
    Batches = {first, later, crawler}
    Browser <- MCBrowser
    Sessions = {"s1", "s2", "s3", "s4"}
    Origins = {"search", "direct", "mail", "partner"}
    Sent <- MCSent
    Bots = {"bot"}
    Ranges <- MCRanges
    MaxRangeDays = 2
    RetentionDays = 1
    DayLength = 2
    SourceLimit = 2
    MaxId = 5
    MaxNow = 3
SPECIFICATION Spec
INVARIANTS TypeOK ReportAddsUp TotalsAreTrue
CHECK_DEADLOCK FALSE
