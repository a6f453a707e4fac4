\* The caches of the admin lists, whose comment promises immediate updates.
CONSTANTS
    Views <- MCAdminViews
    Readers = {r1}
    Writers = {w1}
    None = None
    AdminTtl = 3
    PublicTtl = 2
    PageTtl = 1
    ShortTtl = 1
    Delay = 1
SPECIFICATION Spec
INVARIANT UpdatesAreNotDelayed
