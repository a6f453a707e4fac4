---------------------------- MODULE ContentCache ----------------------------
(***************************************************************************)
(* The read caches of the API: Maps and fields in the memory of the one    *)
(* API process, filled by whoever misses and emptied by the mutations of   *)
(* the admin area.  A miss asks PostgreSQL and stores the answer when it   *)
(* arrives; nothing relates the answer to the mutations that ran since the *)
(* question was asked, and readers of one view do not wait for each other. *)
(*                                                                         *)
(* The entries do not influence each other: a behaviour follows one view,  *)
(* with every mutation that writes a table it shows, and one of these      *)
(* mutations, whose effect on the view it watches.                         *)
(***************************************************************************)
EXTENDS Integers

CONSTANTS
    Views,      \* the views that behaviours follow
    Readers,    \* requests that read the view at the same time
    Writers,    \* requests that mutate at the same time
    None,       \* no entry, no request
    AdminTtl, PublicTtl, PageTtl, ShortTtl,     \* lifetimes, in ticks
    Delay       \* the ticks a query may take to answer

ASSUME TtlAssumption ==
    {AdminTtl, PublicTtl, PageTtl, ShortTtl} \subseteq Nat \ {0}
ASSUME DelayAssumption == Delay \in Nat

VARIABLES
    view,       \* the view this behaviour follows
    watched,    \* the mutation this behaviour watches
    entry,      \* what the cache holds for it
    read,       \* read[r]: the miss that request r is working on
    write       \* write[w]: the mutation that request w is working on

vars == <<view, watched, entry, read, write>>

-----------------------------------------------------------------------------
(* What the views show: the tables their queries read. *)

ListReads == [
    listProject |-> {"project", "projectCategory", "projectImage"},
    listService |-> {"service"},
    listCourse  |-> {"course", "courseSection"},
    listPost    |-> {"post", "postCategory"}]

CategoryReads == [
    categoriesProject |-> {"projectCategory"},
    categoriesPost    |-> {"postCategory"}]

ContactTables == {"contact"}
RegistrationTables == {"courseRegistration", "course"}
SubscriptionTables == {"newsletter"}
SubmissionReads == [
    contacts      |-> ContactTables,
    registrations |-> RegistrationTables,
    subscriptions |-> SubscriptionTables]

Content == {"project", "service", "course", "post"}

DashboardReads ==
    [dashboard |-> Content \cup {"contact", "courseRegistration", "newsletter"}]
RecentReads == [recent |-> Content]
MediaReads == [media |-> {"media"}]

ProjectTables == {"project", "projectCategory", "projectImage"}
FilterTables == {"project", "projectCategory"}
ProjectReads == [projects |-> ProjectTables, projectFilters |-> FilterTables]

ServiceReads == [services |-> {"service"}]

CourseTables == {"course"}
CourseReads == [courses |-> CourseTables, course |-> CourseTables \cup {"courseSection"}]

PostTables == {"post", "postCategory"}
CountTables == {"postCategory", "post"}
PostReads == [posts |-> PostTables, postCategories |-> CountTables]

SlideTables == {"slide"}
PartnerTables == {"partner"}
HomepageReads == [
    slidesPublic   |-> SlideTables,
    slidesAdmin    |-> SlideTables,
    partnersPublic |-> PartnerTables,
    partnersAdmin  |-> PartnerTables]
SettingsReads == [settings |-> {"settings"}, settingsPublic |-> {"settings"}]
PageReads == [pageContent |-> {"pageContent"}]

AdminViews ==
    DOMAIN ListReads \cup DOMAIN CategoryReads \cup DOMAIN SubmissionReads
        \cup DOMAIN MediaReads
FigureViews == DOMAIN DashboardReads \cup DOMAIN RecentReads
PublicViews ==
    DOMAIN ProjectReads \cup DOMAIN ServiceReads \cup DOMAIN CourseReads
        \cup DOMAIN PostReads
SiteViews ==
    DOMAIN HomepageReads \cup DOMAIN SettingsReads \cup DOMAIN PageReads

AllViews == AdminViews \cup FigureViews \cup PublicViews \cup SiteViews

Reads(v) ==
    CASE v \in DOMAIN ListReads -> ListReads[v]
      [] v \in DOMAIN CategoryReads -> CategoryReads[v]
      [] v \in DOMAIN SubmissionReads -> SubmissionReads[v]
      [] v \in DOMAIN MediaReads -> MediaReads[v]
      [] v \in DOMAIN DashboardReads -> DashboardReads[v]
      [] v \in DOMAIN RecentReads -> RecentReads[v]
      [] v \in DOMAIN ProjectReads -> ProjectReads[v]
      [] v \in DOMAIN ServiceReads -> ServiceReads[v]
      [] v \in DOMAIN CourseReads -> CourseReads[v]
      [] v \in DOMAIN PostReads -> PostReads[v]
      [] v \in DOMAIN HomepageReads -> HomepageReads[v]
      [] v \in DOMAIN SettingsReads -> SettingsReads[v]
      [] v \in DOMAIN PageReads -> PageReads[v]

ASSUME ViewsAssumption == Views \subseteq AllViews

(* The lifetime of an entry, and whether it counts from the moment the     *)
(* request asked or from the moment the answer arrived.                    *)

Ttl(v) ==
    CASE v \in {"dashboard", "recent", "slidesAdmin", "partnersAdmin"} -> ShortTtl
      [] v = "pageContent" -> PageTtl
      [] v \in AdminViews -> AdminTtl
      [] OTHER -> PublicTtl

StampedWhenAsked(v) ==
    v \in {"dashboard", "recent", "settings", "settingsPublic", "pageContent"}

-----------------------------------------------------------------------------
(* The mutations, named for the table they write, and what each empties.   *)
(* The public forms write too, and empty nothing.                          *)

Forms == [
    contactForm      |-> "contact",
    registrationForm |-> "courseRegistration",
    newsletterForm   |-> "newsletter"]

Domain == [
    project |-> "project", projectCategory |-> "project", projectImage |-> "project",
    service |-> "service",
    course |-> "course", courseSection |-> "course",
    post |-> "post", postCategory |-> "post"]

AdminMutations ==
    DOMAIN Domain \cup {"contact", "courseRegistration", "newsletter", "media",
                        "slide", "partner", "settings", "pageContent"}
Mutations == AdminMutations \cup DOMAIN Forms

Table(m) == IF m \in DOMAIN Forms THEN Forms[m] ELSE m

ListOf == [project |-> "listProject", service |-> "listService",
           course |-> "listCourse", post |-> "listPost"]
PublicOf == [project |-> DOMAIN ProjectReads, service |-> DOMAIN ServiceReads,
             course |-> DOMAIN CourseReads, post |-> DOMAIN PostReads]

\* mutant of InvalidateMutation: the list of recent records is forgotten
InvalidateListOnly(m) == {"dashboard", ListOf[Domain[m]]}

InvalidateMutation(m) ==
    {"dashboard", "recent", ListOf[Domain[m]]}
        \cup (IF Domain[m] = "post" THEN PublicOf.post ELSE {})

CategoryClears(m) ==
    CASE m = "projectCategory" -> {"categoriesProject"}
      [] m = "postCategory" -> {"categoriesPost"}
      [] OTHER -> {}

ContactClears == {"contacts", "dashboard"}
RegistrationClears == {"registrations", "dashboard"}
SubscriptionClears == {"subscriptions", "dashboard"}
MediaClears == {"media"}
SubmissionClears ==
    [contact            |-> ContactClears,
     courseRegistration |-> RegistrationClears,
     newsletter         |-> SubscriptionClears,
     media              |-> MediaClears]

\* The interceptor, once the handler has returned.
ClearResourceCache(m) == PublicOf[Domain[m]]

SlideClears == {"slidesPublic", "slidesAdmin"}
PartnerClears == {"partnersPublic", "partnersAdmin"}
OwnClears ==
    [slide       |-> SlideClears,
     partner     |-> PartnerClears,
     settings    |-> DOMAIN SettingsReads,
     pageContent |-> DOMAIN PageReads]

Clears(m) ==
    CASE m \in DOMAIN Domain ->
            InvalidateMutation(m) \cup CategoryClears(m) \cup ClearResourceCache(m)
      [] m \in DOMAIN SubmissionClears -> SubmissionClears[m]
      [] m \in DOMAIN OwnClears -> OwnClears[m]
      [] OTHER -> {}

\* Slides, partners and settings empty the cache before they write.
ClearsFirst(m) == m \in {"slide", "partner", "settings"}

Touching(v) == {m \in Mutations : Table(m) \in Reads(v)}

-----------------------------------------------------------------------------
(* An answer of the database carries, for the properties, how old it is    *)
(* and whether it shows the watched mutation: it misses one that is still  *)
(* to empty the cache, or one whose turn to do so has passed while the     *)
(* answer was under way or will never come.                                *)
(*                                                                         *)
(* A request for slides or partners keeps the entry it found, whose life   *)
(* is over, to answer with it should the query fail; of that only what it  *)
(* shows is followed, for it may be of any age.                            *)

Shows == {"all", "misses", "passed"}
Answer == [age : Nat, old : Nat, shows : Shows]
Reading == [pc : {"asked", "answered"}, data : Answer, hit : Shows \cup {"nothing"}]
Writing == [pc : {"sent", "committed", "adrift"}, mutation : Mutations]

ASSUME NoneAssumption == None \notin Writing

TypeOK ==
    /\ view \in Views
    /\ watched \in Mutations
    /\ entry \in Answer \cup {None}
    /\ read \in [Readers -> Reading \cup {None}]
    /\ write \in [Writers -> Writing \cup {None}]

Hit == IF view \in DOMAIN HomepageReads /\ entry # None THEN entry.shows ELSE "nothing"
Asked ==
    [pc |-> "asked", data |-> [age |-> 0, old |-> 0, shows |-> "all"], hit |-> Hit]
Answered(r) == read[r] # None /\ read[r].pc = "answered"
Pc(w) == IF write[w] = None THEN "none" ELSE write[w].pc

\* What an answer shows after a commit of m, and after m's turn has passed.
Missing(d, m) == IF m = watched THEN [d EXCEPT !.shows = "misses"] ELSE d
Passed(d, m) ==
    IF m = watched /\ d.shows = "misses" THEN [d EXCEPT !.shows = "passed"] ELSE d

\* The request r, overtaken by a commit of m that makes its answer d.
Overtaken(r, d, m) ==
    [read[r] EXCEPT
        !.data = IF Answered(r) THEN d ELSE @,
        !.hit = IF m = watched /\ @ # "nothing" THEN "misses" ELSE @]

\* All answers that are under way pass the turn of m.
AllPassed(m) ==
    read' = [r \in Readers |->
        IF read[r] = None THEN None ELSE [read[r] EXCEPT !.data = Passed(@, m)]]

\* mutant of Live: an entry is served as long as it is there
LiveForever == entry # None

\* mutant of Live: the last tick of its life is served too
LiveInclusive == entry # None /\ entry.age <= Ttl(view)

Live == entry # None /\ entry.age < Ttl(view)

Init ==
    /\ view \in Views
    /\ watched \in Touching(view)
    /\ entry = None
    /\ read = [r \in Readers |-> None]
    /\ write = [w \in Writers |-> None]

-----------------------------------------------------------------------------
(* Readers.  A hit changes nothing, so it is no action: while Live holds   *)
(* every request is given the entry.                                       *)

Ask(r) ==
    /\ read[r] = None
    /\ ~Live
    /\ read' = [read EXCEPT ![r] = Asked]
    /\ UNCHANGED <<view, watched, entry, write>>

\* PostgreSQL takes the snapshot that the answer shows.
Query(r) ==
    /\ read[r] # None
    /\ read[r].pc = "asked"
    /\ read' = [read EXCEPT ![r].pc = "answered"]
    /\ UNCHANGED <<view, watched, entry, write>>

\* The answer arrives, whatever the entry has become since.
Fill(r) ==
    /\ Answered(r)
    /\ entry' = read[r].data
    /\ read' = [read EXCEPT ![r] = None]
    /\ UNCHANGED <<view, watched, write>>

\* The query fails or finds no row.  The homepage then answers with the entry
\* that the request found before it asked, and else with nothing, whatever the
\* cache holds by now; the entry stays as it is.
ReadFails(r) ==
    /\ read[r] # None
    /\ read' = [read EXCEPT ![r] = None]
    /\ UNCHANGED <<view, watched, entry, write>>

-----------------------------------------------------------------------------
(* Writers. *)

Send(w, m) ==
    /\ write[w] = None
    /\ m \in Touching(view)
    /\ write' = [write EXCEPT ![w] = [pc |-> "sent", mutation |-> m]]
    /\ entry' = IF ClearsFirst(m) /\ view \in Clears(m) THEN None ELSE entry
    /\ UNCHANGED <<view, watched, read>>

\* A record that does not exist, a constraint: nothing is written or emptied.
Reject(w) ==
    /\ Pc(w) = "sent"
    /\ write' = [write EXCEPT ![w] = None]
    /\ UNCHANGED <<view, watched, entry, read>>

\* What PostgreSQL has read before now misses the mutation.
Commit(w) ==
    /\ Pc(w) = "sent"
    /\ write' = [write EXCEPT ![w].pc = "committed"]
    /\ entry' = IF entry = None THEN None ELSE Missing(entry, write[w].mutation)
    /\ read' = [r \in Readers |->
            IF read[r] = None THEN None
            ELSE Overtaken(r, Missing(read[r].data, write[w].mutation),
                           write[w].mutation)]
    /\ UNCHANGED <<view, watched>>

\* mutant of Empty: a mutation never empties the cache after its write
EmptyNothing(m) == UNCHANGED <<entry, read>>

\* The service and then the interceptor empty the caches, in one turn of the
\* event loop.  An answer that is under way is out of their reach.
Empty(m) ==
    IF view \in Clears(m) /\ ~ClearsFirst(m)
        THEN entry' = None /\ AllPassed(m)
        ELSE UNCHANGED <<entry, read>>

Return(w) ==
    /\ Pc(w) = "committed"
    /\ Empty(write[w].mutation)
    /\ write' = [write EXCEPT ![w] = None]
    /\ UNCHANGED <<view, watched>>

\* The connection is lost: the call fails, and the statement it has sent may
\* still be carried out, or has been.
Lose(w) ==
    /\ Pc(w) = "sent"
    /\ write' = [write EXCEPT ![w].pc = "adrift"]
    /\ UNCHANGED <<view, watched, entry, read>>

LoseAnswer(w) ==
    /\ Pc(w) = "committed"
    /\ write' = [write EXCEPT ![w] = None]
    /\ entry' = IF entry = None THEN None ELSE Passed(entry, write[w].mutation)
    /\ AllPassed(write[w].mutation)
    /\ UNCHANGED <<view, watched>>

CommitAdrift(w) ==
    /\ Pc(w) = "adrift"
    /\ write' = [write EXCEPT ![w] = None]
    /\ LET Late(d) == Passed(Missing(d, write[w].mutation), write[w].mutation)
       IN  /\ entry' = IF entry = None THEN None ELSE Late(entry)
           /\ read' = [r \in Readers |->
                IF read[r] = None THEN None
                ELSE Overtaken(r, Late(read[r].data), write[w].mutation)]
    /\ UNCHANGED <<view, watched>>

Sink(w) ==
    /\ Pc(w) = "adrift"
    /\ write' = [write EXCEPT ![w] = None]
    /\ UNCHANGED <<view, watched, entry, read>>

-----------------------------------------------------------------------------
(* The process and the clock. *)

\* Every cache is empty again, no request survives; a statement that was
\* sent may still be carried out.
Restart ==
    /\ entry' = None
    /\ read' = [r \in Readers |-> None]
    /\ write' = [w \in Writers |->
            IF Pc(w) \in {"sent", "adrift"}
                THEN [write[w] EXCEPT !.pc = "adrift"]
                ELSE None]
    /\ UNCHANGED <<view, watched>>

\* mutant of Grow: the operands of the subtraction are swapped
GrowBackwards(n, most) == IF n > -most THEN n - 1 ELSE -most

\* Ages are counted up to where they no longer matter.
Grow(n, most) == IF n < most THEN n + 1 ELSE most

\* mutant of Stamped: an answer that is under way is not old yet
StampedAnswered(r) == Answered(r) /\ ~StampedWhenAsked(view)

\* Does the age of what r is reading count from the question?
Stamped(r) == StampedWhenAsked(view)

Older(d, stamped, taken) ==
    [d EXCEPT !.age = IF stamped THEN Grow(@, Ttl(view)) ELSE @,
              !.old = IF taken THEN Grow(@, Ttl(view) + Delay) ELSE @]

\* A query answers within Delay ticks of its snapshot.
Tick ==
    /\ \A r \in Readers : Answered(r) => read[r].data.old < Delay
    /\ entry' = IF entry = None THEN None ELSE Older(entry, TRUE, TRUE)
    /\ read' = [r \in Readers |->
            IF read[r] = None THEN None
            ELSE [read[r] EXCEPT !.data = Older(@, Stamped(r), Answered(r))]]
    /\ UNCHANGED <<view, watched, write>>

Next ==
    \/ \E r \in Readers : Ask(r) \/ Query(r) \/ Fill(r) \/ ReadFails(r)
    \/ \E w \in Writers :
            \/ \E m \in Mutations : Send(w, m)
            \/ Reject(w) \/ Commit(w) \/ Return(w)
            \/ Lose(w) \/ LoseAnswer(w) \/ CommitAdrift(w) \/ Sink(w)
    \/ Restart
    \/ Tick

\* Time passes, and every query is answered or fails.
Fairness ==
    /\ WF_vars(Tick)
    /\ \A r \in Readers : WF_vars(Query(r) \/ Fill(r) \/ ReadFails(r))

Spec == Init /\ [][Next]_vars
FairSpec == Spec /\ Fairness

-----------------------------------------------------------------------------
(* Properties. *)

\* A request that finds an entry is never given data older than the lifetime of
\* the entry plus, when the lifetime counts from the arrival of the answer, the
\* time that answer was under way: the cache may be filled by a slow reader,
\* refilled by a slower one, and emptied in between.  One that asks is given
\* what its own query has read.  Only on the homepage may it be given anything
\* older, of any age: the entry it found expired, when its query fails.
AgeBound ==
    /\ Live => entry.old < Ttl(view) + (IF StampedWhenAsked(view) THEN 0 ELSE Delay)
    /\ \A r \in Readers :
            /\ Answered(r) => read[r].data.old <= Delay
            /\ read[r] # None /\ read[r].hit # "nothing" =>
                    view \in DOMAIN HomepageReads

\* The list of registrations shows course titles, which the mutations of
\* courses do not empty.
Uncleared == {<<"course", "registrations">>}

\* Once an admin mutation that writes first has returned, an entry misses it
\* only because its reader had asked before the mutation emptied the cache, or
\* because the caller was told that the mutation failed.
UpdatesAreMissedByRacesOnly ==
    entry # None /\ entry.shows = "misses" /\ watched \in AdminMutations =>
        \/ ClearsFirst(watched)
        \/ <<watched, view>> \in Uncleared
        \/ \E w \in Writers : write[w] = [pc |-> "committed", mutation |-> watched]

\* An update by an administrator that has returned is in everything that is
\* served, unless a read was under way (admin.service.ts:85-86, "Mutations
\* invalidate the affected entries immediately").
UpdatesAreNotDelayed ==
    Live /\ entry.shows = "misses" /\ watched \in AdminMutations =>
        \E w \in Writers : write[w] = [pc |-> "committed", mutation |-> watched]

\* What requests may be given now: the entry, what their queries have read, and
\* on the homepage what they fall back on should their queries fail.
Given ==
    (IF Live THEN {entry.shows} ELSE {})
        \cup {read[r].data.shows : r \in {q \in Readers : Answered(q)}}
        \cup ({read[r].hit : r \in {q \in Readers : read[q] # None}} \ {"nothing"})

\* When the writing stops, whatever went wrong before, there comes a time from
\* which everything that is served is complete.  On the homepage this takes
\* queries that succeed time and again: as long as they fail, an entry that
\* misses the last update is served however old it is.
ShownInTheEnd ==
    /\ <>[][\A w \in Writers : ~Commit(w) /\ ~CommitAdrift(w)]_vars
    /\ view \in DOMAIN HomepageReads => []<><<\E r \in Readers : Fill(r)>>_vars
    => <>[](Given \subseteq {"all"})
=============================================================================
