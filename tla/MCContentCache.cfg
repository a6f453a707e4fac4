\* Every cache of the API: two requests that read, one that writes.
CONSTANTS
    Views <- MCViews
    Readers = {r1, r2}
    Writers = {w1}
    None = None
    AdminTtl = 3
    PublicTtl = 2
    PageTtl = 1
    ShortTtl = 1
    Delay = 1
SPECIFICATION FairSpec
INVARIANTS TypeOK AgeBound UpdatesAreMissedByRacesOnly
PROPERTY ShownInTheEnd
