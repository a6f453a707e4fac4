---------------------------- MODULE MCAnalytics ----------------------------
(***************************************************************************)
(* Constants for model-checking Analytics: a visitor comes from a search,  *)
(* later views another page, sends a form and begins two more sessions;    *)
(* and a crawler.                                                          *)
(***************************************************************************)
EXTENDS Analytics, TLC

CONSTANTS first, later, crawler

View(t, s) == [type |-> "pageview", page |-> "site", session |-> t, source |-> s]
Form(t, s) == [View(t, s) EXCEPT !.type = "form_submit"]
AdminView(t, s) == [View(t, s) EXCEPT !.page = "admin"]

MCBrowser == first :> "phone" @@ later :> "phone" @@ crawler :> "bot"
MCSent ==
    first :> <<View("s1", "search")>>
    @@ later :> <<AdminView("s1", "direct"), View("s1", "direct"), Form("s1", "direct"),
                  View("s2", "mail"), View("s3", "partner")>>
    @@ crawler :> <<View("s4", "direct")>>

\* A day, two days, too many days, and days in the wrong order.
MCRanges == { [from |-> 1, to |-> 1], [from |-> 0, to |-> 1],
              [from |-> 0, to |-> 2], [from |-> 1, to |-> 0] }
=============================================================================
