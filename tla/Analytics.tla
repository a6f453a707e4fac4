----------------------------- MODULE Analytics -----------------------------
(***************************************************************************)
(* First-party analytics: the site posts batches of events, track() stores *)
(* each batch in one INSERT and now and then starts a purge of old events, *)
(* and staff ask for the report of some days, which sends its statements   *)
(* side by side: each reads the table at a moment of its own.              *)
(*                                                                         *)
(* A visitor is a hash of the day and the browser, computed when a batch   *)
(* arrives; its events are stamped and numbered later, by their INSERT.    *)
(* Time on page, devices and the other dimensions of an event are left     *)
(* out: they are counted as sources are.                                   *)
(***************************************************************************)
EXTENDS Integers, Sequences, FiniteSetsExt

CONSTANTS
    Batches,        \* posts of events
    Browser,        \* Browser[b]: the address and browser that post b comes from
    Sessions,       \* the browser tabs
    Origins,        \* what classifySource makes of an event, source and medium
    Sent,           \* Sent[b]: the events of b in their order
    Bots,           \* the browsers isBot knows
    Ranges,         \* the [from, to] days staff may ask for
    MaxRangeDays,   \* the longest range of a report, 400
    RetentionDays,  \* RETENTION_DAYS, 400
    DayLength,      \* ticks in a day
    SourceLimit,    \* the most sources that a report lists, 30
    MaxId,          \* bound: the number of the last event
    MaxNow          \* bound: the clock stops here

EventTypes == {"pageview", "form_submit"}
Pages == {"site", "admin"}

ASSUME BatchAssumption ==
    Sent \in [Batches -> Seq([type : EventTypes, page : Pages,
                             session : Sessions, source : Origins])]
ASSUME RangeAssumption == Ranges \subseteq [from : Int, to : Int]
ASSUME TimeAssumption ==
    /\ MaxRangeDays \in Nat /\ RetentionDays \in Nat
    /\ DayLength \in Nat \ {0} /\ MaxNow \in Nat
ASSUME LimitAssumption == SourceLimit \in Nat /\ MaxId \in Nat

VARIABLES
    now,        \* the clock
    batch,      \* batch[b]: how far post b is, and when it arrived
    events,     \* the table analytics_events
    tracked,    \* history: every event that was ever stored
    cutoff,     \* the time before which a purge is about to delete, or NoPurge
    report      \* the report staff asked for

vars == <<now, batch, events, tracked, cutoff, report>>

DayOf(t) == t \div DayLength
NoPurge == -(RetentionDays + 1) * DayLength

\* The first five figures of a report.  The other thirteen statements group
\* and filter as sources does.
Statements == {"totals", "previous", "series", "sources"}

Event ==
    [id : 1..MaxId, type : EventTypes, session : Sessions,
     browser : {Browser[b] : b \in Batches}, day : Int,
     source : Origins, at : Int]

NoReport == [pc |-> "idle"]
Refused == [pc |-> "refused"]
Failed == [pc |-> "failed"]

\* A report that runs or is done, and three fields of history: the events that
\* were stored when it began, the time it ended, and whether an event of its
\* range was stored or deleted while it ran.
ReportFields == {"pc", "range", "read", "result", "known", "ended", "disturbed"}

ReportOK(r) ==
    /\ DOMAIN r = ReportFields
    /\ r.pc \in {"running", "done"}
    /\ r.range \in Ranges
    /\ r.range.from <= r.range.to
    /\ r.range.to - r.range.from < MaxRangeDays
    /\ r.read \subseteq Statements
    /\ r.pc = "done" <=> r.read = Statements
    /\ DOMAIN r.result = r.read
    /\ r.known \subseteq tracked
    /\ r.ended \in 0..now
    /\ r.disturbed \in BOOLEAN

TypeOK ==
    /\ now \in 0..MaxNow
    /\ batch \in [Batches -> [pc : {"idle", "received", "stored", "dropped"},
                              at : 0..MaxNow]]
    /\ events \subseteq tracked
    /\ tracked \subseteq Event
    /\ \A e \in tracked : e.day <= DayOf(e.at) /\ e.at <= now
    /\ cutoff <= now - RetentionDays * DayLength
    /\ \/ report \in {NoReport, Refused, Failed}
       \/ ReportOK(report)

Init ==
    /\ now = 0
    /\ batch = [b \in Batches |-> [pc |-> "idle", at |-> 0]]
    /\ events = {}
    /\ tracked = {}
    /\ cutoff = NoPurge
    /\ report = NoReport

-----------------------------------------------------------------------------
(* Ranges of days *)

\* toRange: local days as a half-open interval of time.
Interval(range) ==
    [start |-> range.from * DayLength, end |-> (range.to + 1) * DayLength]

AnyRange(range) == range.from <= range.to       \* mutant of ValidRange

ValidRange(range) ==
    /\ range.from <= range.to
    /\ range.to - range.from + 1 <= MaxRangeDays

\* previousRange: as many days, just before.
Previous(range) ==
    [from |-> 2 * range.from - range.to - 1, to |-> range.from - 1]

Within(i, E) == {e \in E : i.start <= e.at /\ e.at < i.end}

\* An event of set E has its place in the range of the running report.
Disturbs(E) ==
    report.pc = "running" /\ Within(Interval(report.range), E) # {}

Disturbed(E) ==
    IF Disturbs(E) THEN [report EXCEPT !.disturbed = TRUE] ELSE report

-----------------------------------------------------------------------------
(* track *)

\* The places of the events of b that are stored.  isBot and normalizePath: bots
\* leave none, nor do admin pages.
Rows(b) ==
    {i \in DOMAIN Sent[b] : Browser[b] \notin Bots /\ Sent[b][i].page # "admin"}

\* A batch arrives; without rows it changes nothing.  The visitor id is made now,
\* from today's date.
Receive(b) ==
    /\ batch[b].pc = "idle"
    /\ Rows(b) # {}
    /\ batch' = [batch EXCEPT ![b] = [pc |-> "received", at |-> now]]
    /\ UNCHANGED <<now, events, tracked, cutoff, report>>

\* The events of a batch are numbered in their order, those of two batches that
\* are stored at the same time in any.
Numberings(b) ==
    LET free == (1..MaxId) \ {e.id : e \in tracked}
    IN  {ids \in [Rows(b) -> free] :
            \A i \in DOMAIN ids : \A j \in DOMAIN ids : i < j => ids[i] < ids[j]}

EventsOf(b, ids, at) ==
    {[id |-> ids[i], type |-> Sent[b][i].type, session |-> Sent[b][i].session,
      browser |-> Browser[b], day |-> DayOf(batch[b].at),
      source |-> Sent[b][i].source, at |-> at] : i \in Rows(b)}

\* createMany: the rows are stamped and numbered when the statement starts and
\* seen when it commits, so two batches may be seen in another order than they
\* are numbered.  Once in a while a purge is started and not awaited.
Store(b) ==
    /\ batch[b].pc = "received"
    /\ \E ids \in Numberings(b), at \in batch[b].at..now :
          /\ events' = events \cup EventsOf(b, ids, at)
          /\ tracked' = tracked \cup EventsOf(b, ids, at)
          /\ report' = Disturbed(EventsOf(b, ids, at))
    /\ batch' = [batch EXCEPT ![b] = [pc |-> "stored", at |-> 0]]
    /\ cutoff' \in {cutoff, now - RetentionDays * DayLength}
    /\ UNCHANGED now

\* A storage failure is swallowed: nothing was stored, nothing is retried.
StoreError(b) ==
    /\ batch[b].pc = "received"
    /\ batch' = [batch EXCEPT ![b] = [pc |-> "dropped", at |-> 0]]
    /\ UNCHANGED <<now, events, tracked, cutoff, report>>

PurgeLastDay ==         \* mutant of Expired
    {e \in events : e.at < cutoff + DayLength}

Expired == {e \in events : e.at < cutoff}

\* The purge deletes what had expired when it was started.
Purge ==
    /\ cutoff # NoPurge
    /\ events' = events \ Expired
    /\ report' = Disturbed(Expired)
    /\ cutoff' = NoPurge
    /\ UNCHANGED <<now, batch, tracked>>

PurgeError ==
    /\ cutoff # NoPurge
    /\ cutoff' = NoPurge
    /\ UNCHANGED <<now, batch, events, tracked, report>>

-----------------------------------------------------------------------------
(* report *)

Views(E) == {e \in E : e.type = "pageview"}
SessionsOf(E) == {e.session : e \in E}
VisitorId(e) == <<e.browser, e.day>>

\* The sessions with a page view that also sent a form.
Converted(E) == SessionsOf(Views(E)) \cap SessionsOf(E \ Views(E))

\* The visitor ids of each day.
DayVisitors(E) == {<<DayOf(e.at), VisitorId(e)>> : e \in Views(E)}

Totals(E) ==
    [pageviews |-> Cardinality(Views(E)),
     visitors |-> Cardinality(DayVisitors(E)),
     sessions |-> Cardinality(SessionsOf(Views(E))),
     converted |-> Cardinality(Converted(E))]

Series(E) ==
    [d \in {DayOf(e.at) : e \in Views(E)} |->
        LET day == {e \in Views(E) : DayOf(e.at) = d} IN
        [pageviews |-> Cardinality(day),
         sessions |-> Cardinality(SessionsOf(day)),
         visitors |-> Cardinality({VisitorId(e) : e \in day})]]

SessionViews(E) == Views(E)                     \* mutant of FirstViews

\* firstOfSession: DISTINCT ON (session_id) ... ORDER BY session_id, id.
FirstViews(E) ==
    {e \in Views(E) : \A f \in Views(E) : f.session = e.session => e.id <= f.id}

SourceRows(E) ==
    [s \in {e.source : e \in FirstViews(E)} |->
        LET own == {e.session : e \in {f \in FirstViews(E) : f.source = s}} IN
        [sessions |-> Cardinality(own),
         conversions |-> Cardinality(own \cap Converted(E))]]

\* ORDER BY 3 DESC LIMIT 30: the sources of the most sessions.  Which of those
\* with as many are listed is left to the database.
Listings(rows) ==
    {T \in SUBSET DOMAIN rows :
        /\ Cardinality(T) <= SourceLimit
        /\ T # DOMAIN rows => Cardinality(T) = SourceLimit
        /\ \A s \in T, u \in DOMAIN rows \ T : rows[u].sessions <= rows[s].sessions}

Sources(E) == {[s \in T |-> SourceRows(E)[s]] : T \in Listings(SourceRows(E))}

\* The answers that the database may give.
Answers(statement, range) ==
    LET E == Within(Interval(range), events) IN
    CASE statement = "totals" -> {Totals(E)}
      [] statement = "previous" -> {Totals(Within(Interval(Previous(range)), events))}
      [] statement = "series" -> {Series(E)}
      [] statement = "sources" -> Sources(E)

\* Staff ask for a report.
Ask(range) ==
    /\ report = NoReport
    /\ report' = IF ValidRange(range)
                 THEN [pc |-> "running", range |-> range, read |-> {},
                       result |-> <<>>, known |-> tracked, ended |-> 0,
                       disturbed |-> FALSE]
                 ELSE Refused
    /\ UNCHANGED <<now, batch, events, tracked, cutoff>>

Last(s) == report.read \cup {s} = Statements

\* One statement reads the table, in any order with the others; the last one
\* ends the report.
Read(s) ==
    /\ report.pc = "running"
    /\ s \notin report.read
    /\ \E answer \in Answers(s, report.range) :
          report' = [report EXCEPT
                        !.read = @ \cup {s},
                        !.result = [x \in report.read \cup {s} |->
                                      IF x = s THEN answer ELSE @[x]],
                        !.ended = IF Last(s) THEN now ELSE 0,
                        !.pc = IF Last(s) THEN "done" ELSE "running"]
    /\ UNCHANGED <<now, batch, events, tracked, cutoff>>

\* A statement that fails fails the report.
ReadError ==
    /\ report.pc = "running"
    /\ report' = Failed
    /\ UNCHANGED <<now, batch, events, tracked, cutoff>>

-----------------------------------------------------------------------------

Tick ==
    /\ now < MaxNow
    /\ now' = now + 1
    /\ UNCHANGED <<batch, events, tracked, cutoff, report>>

Next ==
    \/ \E b \in Batches : Receive(b) \/ Store(b) \/ StoreError(b)
    \/ Purge \/ PurgeError
    \/ \E range \in Ranges : Ask(range)
    \/ \E s \in Statements : Read(s)
    \/ ReadError
    \/ Tick

Spec == Init /\ [][Next]_vars

-----------------------------------------------------------------------------
(* Properties *)

\* The parts of a report add up to its totals, although every part is a
\* statement of its own: page views and visitors over its days, sessions and
\* conversions over their sources, each session under the source it first came
\* from.  Where as many sources are listed as there may be, others are left out
\* and those listed may fall short of the totals, but never exceed them.  A
\* session that spans midnight counts on both days.  Only an event of the range
\* stored or purged while the report ran may come in between.
ReportAddsUp ==
    report.pc = "done" /\ ~report.disturbed =>
        LET totals  == report.result["totals"]
            series  == report.result["series"]
            sources == report.result["sources"]
            sessions    == MapThenSumSet(LAMBDA s : sources[s].sessions, DOMAIN sources)
            conversions == MapThenSumSet(LAMBDA s : sources[s].conversions, DOMAIN sources)
        IN  /\ totals.pageviews
                 = MapThenSumSet(LAMBDA d : series[d].pageviews, DOMAIN series)
            /\ totals.visitors
                 = MapThenSumSet(LAMBDA d : series[d].visitors, DOMAIN series)
            /\ sessions <= totals.sessions /\ conversions <= totals.converted
            /\ Cardinality(DOMAIN sources) < SourceLimit =>
                    sessions = totals.sessions /\ conversions = totals.converted
            /\ totals.sessions
                 <= MapThenSumSet(LAMBDA d : series[d].sessions, DOMAIN series)

BrowserDays(E) == {<<e.browser, DayOf(e.at)>> : e \in Views(E)}

\* The events of E stored on another day than their visitor was named.
AcrossMidnight(E) == {e \in Views(E) : e.day # DayOf(e.at)}

\* Figures t of the interval i miss no event of known and count none that was
\* never stored.
Between(t, i, known) ==
    LET least == Within(i, known)
        most  == Within(i, tracked)
    IN  /\ Cardinality(Views(least)) <= t.pageviews
        /\ t.pageviews <= Cardinality(Views(most))
        /\ Cardinality(SessionsOf(Views(least))) <= t.sessions
        /\ t.sessions <= Cardinality(SessionsOf(Views(most)))
        /\ Cardinality(Converted(least)) <= t.converted
        /\ t.converted <= Cardinality(Converted(most))
        /\ Cardinality(BrowserDays(least)) <= t.visitors
        /\ t.visitors <= Cardinality(BrowserDays(most))
                           + Cardinality(DayVisitors(AcrossMidnight(most)))

\* The totals of a report and of the period it is compared with miss nothing and
\* count nobody twice in a day, as long as the period began within the retention
\* when the report ended; the purge takes nothing younger, however late it runs.
\* Only a visitor whose events were stored after midnight under the id of an
\* earlier day can count twice on a day: once more for each id so used.
TotalsAreTrue ==
    report.pc = "done" =>
        \A s \in {"totals", "previous"} :
            LET i == Interval(IF s = "totals" THEN report.range
                                              ELSE Previous(report.range))
            IN  report.ended - RetentionDays * DayLength <= i.start =>
                    Between(report.result[s], i, report.known)
=============================================================================
