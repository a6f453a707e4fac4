# A verification development of the BIM4C backend

TLA+ models of the BIM4C backend (NestJS 11, Prisma 6, PostgreSQL 16, one API
container), the TLC configurations that check them on small instances, and
TLAPS proofs of what matters most for every value of the constants.

The models are written from `src/`. What the code leaves to others (PostgreSQL,
the email provider, the network, the clock) is modelled from how the code uses
it and is marked external in `PROJECT.json`. `PROJECT.json` also relates every
definition to the lines it stands for, every property to a plausible bug that
it catches, and every hazard to the properties that watch it.

    tlc -workers 2 -config MCAppointments.cfg MCAppointments   # one run
    tlapm AppointmentsProofs.tla                               # one proof module

## 1. The system

One Node process serves public endpoints (catalogues, forms, booking,
analytics) and an admin area behind a session guard. Everything durable is in
PostgreSQL, and media files are on a volume or in a bucket. The process keeps
four things in memory, and loses them when the container restarts: the session
cache, the read caches, the email quotas, and the calls under way. Within the
process only an `await` lets another call run, so each stretch of code between
two awaits is one atomic step of a model.

| Component | State | Operations | Calls | What makes it hard |
|---|---|---|---|---|
| Appointments | table `appointments` | `availability`, `create`, `list`, `updateStatus` | email delivery | check and insert by two customers; read, decide and write by two staff; a commit without an answer; a crash before the mail |
| Email delivery | `publicFormSends` in memory | `send` | provider | timeouts, late posts, one retry, a sliding window, restarts |
| Admin sessions | table `admin_sessions`, `sessionCache` | login, guard, logout, password change and reset, disable, change of roles | - | data read before an await and cached after it; clearing before or after the commit |
| Admin accounts | tables of users and roles | create, update, status, roles | admin sessions | checks and writes in different statements |
| Content publishing | projects, posts, services, courses, categories | create, update, remove, status, bulk, categories | read caches | the same, in a transaction of two statements, with foreign keys |
| Read caches | 13 `Map`s and cells | every cached read, every mutation | all content | a slow read that fills what a mutation has just emptied; joins; lifetimes |
| Media library | files and table `media` | upload, list, delete | storage | no transaction spans file and record |
| Public forms, honeypot | contacts, registrations, subscriptions | submit; staff switch off and delete | email delivery | find, upsert and mail by two submissions of one address, and staff in between |
| Analytics | table `analytics_events` | track, purge, report, realtime, leads | - | 18 statements of one report see 18 states; batches that cross midnight; a purge nobody awaits |
| Interceptor, audit log | audit table | after every admin mutation | read caches, frontend | its failures must not undo a mutation |
| Pure functions | none | slot generator, pagination, path and source classification, permissions | - | boundaries |
| Stateless guards, HTTP layer, configuration, texts, exports, scripts | none that matters | - | - | - |

What makes them correct, in a sentence each:

* **Appointments**: no two active appointments overlap, statuses follow the
  table, what customers are told and mailed is true, calls end.
* **Email delivery**: one email per call and per key the provider remembers,
  "sent" is true, the cap per address is exact, calls end.
* **Admin sessions**: whatever ends a session or changes a role reaches the
  guard within a known time, and at once unless a guard was reading; a replaced
  password opens nothing.
* **Admin accounts**: an active super admin remains; only who the guard let in as
  a super admin makes super admins and writes to their accounts.
* **Content publishing**: publication dates, categories and deletions are not
  undone by another call, except in the races that are named.
* **Read caches**: nothing too old is served, but by the homepage when its query
  fails, and an update is missed by races only.
* **Media library**: a record has its file, and a file without a record has an
  explanation.
* **Analytics**: the parts of a report add up, as far as they are listed; its
  figures miss nothing that is within the retention, and count no visitor twice in
  a day but across midnight.
* **Public forms**: a stored enquiry is mailed once; a subscriber is welcomed
  once each time it becomes active, and then always; every post is answered.

## 2. Modules

| Module | Models |
|---|---|
| `AppointmentRules` | statuses, transitions, the overlap condition |
| `BookingCalendar` | what the calendar promises, with atomic operations |
| `Appointments` | `create`, `updateStatus`, the list of free slots, with transactions, emails, errors, crashes |
| `OutgoingMail` | what `EmailService.send` promises its callers, without posts, retries or memory |
| `EmailService` | `EmailService.send` |
| `PublicForms` | newsletter, enquiry and course registration, and the staff who manage the rows, composed with `EmailService` |
| `AdminSessions` | login, the guard and its cache, and everything that ends a session |
| `AdminAccounts` | `UsersService` |
| `ContentCache` | every read cache and every mutation that must empty it |
| `ContentPublishing` | the content rows and their categories |
| `MediaLibrary` | uploads and deletions |
| `Analytics` | `track`, the purge, and a report made of separate statements |
| `<M>Proofs` | theorems about module M; those about `EmailService` come first in `PublicFormsProofs` |
| `MC<M>` | the small instance of module M |

A definition whose comment says "mutant of D" is a plausible bug of D. When it
stands in for D, the property that `PROJECT.json` names with it is violated.
Variables that no code has (`reached`, `ended`, `replaced`, `tracked`, ...)
record history so that a property can speak of it; no guard reads them.

### Appointments

`Ignore` is `HoneypotInterceptor`: a post with the hidden field filled in ends
before `create`, with the answer of success ("ignored") and without a row; a
customer who was "created" has one.

`row` is the table. A create call `b` goes from "check" (the overlap query, which
fixes `snapshot[b]`) to "insert", and by `Commit` to "notify". `Serializable` is
PostgreSQL's promise: the commit is refused if another transaction has since
inserted a row that the query would have found. `Abort` is a serialization
failure (409, and PostgreSQL may raise one for no visible reason), `CreateError`
any other error (500), `CommitUnacknowledged` a commit whose answer is lost.
`updateStatus` is `Read` (with all checks), `Write` or `UpdateError`, the mails,
`Return`. Mails are sent only after the commit and one by one; how `send` behaves
is `EmailService`, here it ends with an email or without one. `Starts` and `Slots`
are what the availability page lists, which computes the clock and the horizon on
its own. `Crash` ends every call and leaves the rows and the emails.

`ImplementsCalendar` shows that all this implements `BookingCalendar`, with
`status` mapped to `row` and the slot of a row that does not exist to `NoSlot`.

`OneEditorPerAppointment` is an assumption on the staff, not on the code: with it
`NoOverlap`, `StatusMachine` and the refinement hold, without it they do not
(finding 1). `RequestsNeverOverlap` holds without it.

### EmailService

A call posts and waits. `wire` holds the posts that may still reach the provider,
also after the caller has given up or died; a post that is never received is a
lost one. `Unanswered` is 429, a 5xx answer, a network error, or the timer. Only
the shared idempotency key keeps a retry from sending twice. `remembered` is the
in-memory quota, pruned as in `allowPublicFormSend`; `life` counts restarts.

`ImplementsOutgoingMail` shows that callers need to know none of this: `pc` is mapped
to what the caller sees, the posts the provider turned into an email to a count
per message, and the memory to nothing, for `OutgoingMail` counts all grants of the
window. A message leaves once at most, never for a call that was skipped or has
not begun, and before its call answers "sent"; whom the cap skips has had its share.

The provider forgets a key after 24 hours (`Forget`), thousands of times longer
than one call with its retry: the call whose email it recorded is over by then, its
last post included. A later call of the same key sends again.

### PublicForms

The module EXTENDS `EmailService`, shares its variables and runs its actions: a
form sends by `StartMail` and then waits (`AnswerForm`) until its sends have
settled. `FormsImplementEmailService` proves that the composition is an
`EmailService`, so that what is proved of the latter holds of it.

A submission `f` goes from "find" (the subscriber, or the course) to "store" and,
unless it found an active subscriber, to "mail". `found[f]` is what it read, and
`StoreRow` acts on it whatever has happened since. A row is named after the
submission that created it; the upsert of a second submission of the same address
returns that row, so that `Mails` and `FormKey` name one email for both.
`StoreError` is a failed statement, `StoreUnacknowledged` one that took effect
unheard. `SetActive` and `DeleteRow` are the staff. The value "stale" of `found`
is history: an active subscriber that staff have ended since. So is `mailed`, the
emails of a row since it last became active: a subscription that staff ended and
that is posted again is welcomed again. A key is forgotten (`Expire`) when every
form that was under way when it was recorded (`waiting`) is over.

### AdminSessions

`rows` and `expires` are the session table; `cache` and `older` are `sessionCache`
with the insertion order of a JavaScript `Map`, as the set of pairs of which the
first was inserted earlier. A guard hits (`Hit`) or goes to the database (`Miss`,
`Query`, then `Admit` or `Reject`); what `Query` found may be outdated when `Admit`
caches it. Of the calls that end sessions, `logout` and `changePassword` clear the
cache before they write, `update` and `status` after.

Passwords appear as `replaced`: the sessions of an account that had been inserted
when its password was changed or reset, but for the one that is meant to stay. A
login reads the account and its password (`LoginRead`) one slow hash before it
inserts the session (`LoginCreate`). One that has done the first and not the
second when the password changes is not in `replaced`: it ends up in, with the
old password, although the comment at `users.service.ts:137` says that whoever
has the old password is locked out. `OldPasswordIsOut` states what is left. A
login whose `Promise.all` was rejected, or whose process died, may still insert
("stray", `StrayCreate`) a session that nobody has the token of.

`cut` holds the sessions that were over, and that no guard had just read, when a
reset or a disabling of their account returned. `CutIsOut` says that none of them
is admitted again. The others are the race of `session-auth.guard.ts:72`: a guard
caches what it read before the commit, and `EndReaches` bounds how long it lasts.

### AdminAccounts

`session[c]` is as whom the guard lets in who makes call `c`: it is read from the
roles there are (`Admit`), kept in the session cache while roles change, and
forgotten at some later time (`Expire`). A demoted super admin thus goes on as
one for a while (finding 2), and `ManagedBySuper` speaks of the session. How long
it lasts is `RolesReach` of `AdminSessions`.

One call is one pass through `Check` (assertCanManage), `Protect` and `Count`
(protectLastSuper) and the writing, each a step, since each awaits. `update` writes
(`Save`) and then, if it was given roles, goes through all of that again as a call
of `roles`; it may be refused there after it has taken effect. A change of roles
deletes the rows it sees and then inserts, so that two of them can leave both sets.
`OneRemoval` again is an assumption on people. `raised` is history: a call is in it
whose target became a super admin after its check. Such a call still writes, and
`ManagedBySuper` says that no other does.

### ContentCache

The module follows one view (any of the 26) and one mutation that touches it (any
that does); the initial state picks both. `Reads` says which tables each view
shows, `Clears` what each mutation empties: both are written down from the queries
and the handlers, and nothing in the code relates them, which is what the
properties are about. A miss is `Ask`, `Query` (the snapshot) and `Fill`, so that
an answer can be outdated on arrival. On the homepage a request that found an
expired entry keeps it (`hit`) and gives it, of any age, should its query fail
(`ReadFails`); elsewhere a failed query is an error. Slides, partners and settings empty before
they write (`ClearsFirst`); all others after, in one turn of the event loop with
the interceptor. Some lifetimes count from the question, some from the answer
(`StampedWhenAsked`). `age` is what the code compares with the lifetime, `old` how
long ago PostgreSQL took the snapshot.

### ContentPublishing

`update` and `status` look (`Detail`) and then write by id. `bulk` looks
(`BulkFind`) and then writes in one statement, or for publishing in a transaction
of two: rows with a date (`PublishDated`, which locks them), then rows without
(`PublishUndated`, and the commit). `deleteCategory` counts and then deletes; the
foreign key refuses for projects and sets null for posts. `touched[e]` is what
others have written since call `e` looked, of the rows that matter to it.

### MediaLibrary

An upload stores the file (`Save`), then the record (`Insert`), and takes the file
back if that fails (`Undo`). A deletion deletes the record (`Erase`), then the
file (`Remove`). Each step may fail, be carried out unheard (`InsertLost` and
`LateInsert`, `EraseLost`), or never be reached (`Restart`).

### Analytics

`Receive` is `track` up to the INSERT: bots and admin pages leave nothing (`Rows`),
each event is classified on its own, and the visitor id is made from the day the
batch arrived. `Store` is the INSERT, whose rows are stamped and numbered when it
starts and seen when it commits: the time is any since the batch arrived, and the
numbers any that are free, in the order of the events (`Numberings`). It may also
start a purge, whose `cutoff` is fixed then and whose DELETE (`Purge`) comes at some
later time. A report (`Ask`) reads the table once per statement (`Read`), in any
order. Of its eighteen statements the model has the four between which sums must
hold: totals, totals of the period before, days, and sources. The sources are cut
at `SourceLimit` rows; which of those with as many sessions are listed is any
choice (`Listings`). `known`, `ended` and `disturbed` are history, and say what the
table did while the report ran.

## 3. What the runs show

| Run | Instance | Distinct states | Shows |
|---|---|---|---|
| `appointments` | 2 customers, 1 member of staff, the clock moves | 403 994 | `NoOverlap`, `StatusMachine`, `ImplementsCalendar`, `AnswersAreTrue`, `MailAnnouncesSavedStatus`, `OffersAreAccepted`, and that calls end |
| `appointments_double_booking` | 2 customers, 2 staff at once | violation | finding 1 |
| `public_forms` | two posts of the newsletter form for one address, or a registration with two emails; cap 1, window 1, 1 tick or restart | 220 415 | `OneEmailPerActivation`, `FormsTellTheTruth`, `ActivationIsWelcomed`, `RecipientCap`, `SkippedOnlyAtCap`, `ImplementsOutgoingMail`, and that every post is answered |
| `admin_sessions` | 1 account, 2 sessions, a cache of 1 | 3 019 175 | `OldPasswordIsOut`, `EndReaches`, `RolesReach`, `CutIsOut` |
| `role_change_is_cached` | 1 account, 1 session | violation | finding 2 |
| `admin_accounts` | 3 accounts, 2 calls | 675 858 | `AnActiveSuper`, `ManagedBySuper` |
| `last_super_admin` | the same, two removals at once | violation | finding 3 |
| `content_cache` | 26 views with every mutation, 2 readers, 1 writer | 271 740 | `AgeBound`, `UpdatesAreMissedByRacesOnly`, `ShownInTheEnd` |
| `registrations_show_old_course` | the admin lists | violation | finding 4 |
| `content_publishing` | a project and a post, 2 categories, 2 editors, 2 days | 528 366 | `DatesKept`, `BulkPublishes`, `CategoriesKept`, `DeletedAreSpared` |
| `media_library` | 3 uploads, 2 deletions | 65 664 | `RecordHasFile`, `NoSilentOrphans` |
| `analytics` | 2 batches with 5 events of 3 sessions, a crawler, 2 days, purges, 1 report | 1 238 551 | `ReportAddsUp`, `TotalsAreTrue` |

Every passing run also checks the type invariant of its module.

### The bounds, and why they are enough

* **Appointments.** A race needs two customers. The horizon lets one proposal in
  only before the clock moves and the other only after. Overlaps of different
  kinds, and two members of staff, are in `appointments_double_booking`; any number
  of customers and staff is in the proofs. `MaxNow` bounds the clock.
  `CHECK_DEADLOCK FALSE`: when all have been served nothing is left to do.
* **PublicForms.** `Batches` says which submissions meet: two of one address share
  a key, and the two emails of a registration share nothing but the process. The
  two posts are interchangeable, so that one order of them is enough. A cap of one
  and a window of one tick let one tick open the window again and one restart tell
  the lifetimes of the quota apart; `MaxEvents` bounds both together. A call posts
  at most twice. Every form has a recipient here, and a larger
  window is left to the proofs.
* **AdminSessions.** One account suffices: accounts share only the cache, whose
  room of one makes two sessions compete. That a larger cache, too, always
  finds an oldest entry to give up, and so never grows past its size, is in the
  proofs. Two ticks outlast
  the lifetimes of one. `MaxDelay` says how long a read may be under way; the
  properties are relative to it, as the code sets no bound but that it is far
  below the lifetime of a session (`TimeAssumption`). `MaxNow` stops the clock.
* **AdminAccounts.** Three accounts: the two that remove each other, and a
  bystander. Two calls at once; the theorems cover more.
* **ContentCache.** Two readers are needed for a slow one to overwrite a newer
  answer. The proofs cover any number of writers. Lifetimes of 3, 2 and 1 ticks
  and a delay of 1 keep the order that the code's 300 s, 60 s and 30 s have
  against a query.
* **ContentPublishing.** One row of each kind. Rows of a bulk action interact only
  through the test that all of them are live, and the theorems cover any number.
  `MaxNow` is 2: two days tell a kept date from a new one. There is always
  something an editor may do, so deadlock is checked.
* **MediaLibrary.** Two deletions of one file, while two other uploads go on.
* **Analytics.** A session needs two batches to span midnight or to be numbered in
  another order than it is seen; the second batch begins two more sessions from
  other sources, so that three sources meet a list of two (`SourceLimit`) and one
  or two do not fill it. Two days of two ticks hold a period and the one before it,
  and a retention of one day lets the purge meet both. A range of two days is the
  longest allowed (`MaxRangeDays`); one of three and one that ends before it begins
  are refused. One report: reports only read. `MaxId` is the number of events there
  are to store and `MaxNow` stops the clock. A third batch would outgrow what is
  checked in minutes; the proofs cover any number. Two batches cannot show why
  `TotalsAreTrue` allows one visitor more for each id that crossed midnight and not
  one in all: that takes three.

### Fairness

Fairness is assumed only of what the code itself guarantees. An accepted
appointment call goes on (`WF` of its steps), since each await is a database call
or an email that ends. A form that was posted goes on, since each of its awaits is
a database call or a `send`, and a running `send` ends by its `AbortSignal.timeout`;
the provider need not do anything. In `ContentCache` time passes and every query is
answered or fails; that queries of the homepage succeed time and again is no
fairness but a premise of `ShownInTheEnd`, without which TLC finds it violated.
Nothing makes customers, staff, writers or restarts act, and no property
needs it.

## 4. What is proved

The proofs hold for any number of actors and any values of the constants that the
named assumptions of the modules admit. They take nothing else on trust.

| Theorem | Of | Argument |
|---|---|---|
| `TypeCorrect` (every module of a component), `FormsTypeCorrect` | `TypeOK`, `FormsTypeOK` | inductive; in `EmailService` together with "a call that pauses has posted once", in `AdminSessions` with `KnownInv`, in `Analytics` with `TableInv` |
| `BookingIsExclusive`, `CustomersAreToldTheTruth`, `MailFollowsCommit` | `RequestsNeverOverlap`, `AnswersAreTrue`, `MailAnnouncesSavedStatus` | `RowInv`, `HistoryInv`, `SnapshotInv` |
| `NoDoubleBooking`, `StatusesFollowTheTable` | `NoOverlap`, `StatusMachine`, with one editor per appointment | the same, with `EditorInv` and `ActiveSnapshotInv` |
| `CalendarIsAtomic` | `ImplementsCalendar`, with one editor per appointment | initial states map to initial states, steps to steps or stuttering |
| `OffersHold` | `OffersAreAccepted` | arithmetic of the two checks |
| `SentIsTrue`, `NoDuplicateEmail` | `SentMeansAccepted`, `OneEmailPerCall` | `DeliveryInv`: a call whose post was received has its key remembered as long as it is under way |
| `AddressIsSpared`, `CapRefusesRightly` | `RecipientCap`, `SkippedOnlyAtCap` | `MemoryInv`: the memory is exactly the grants of the window |
| `FormsImplementEmailService`, `FormsSendSafely` | `RecipientCap`, `SentMeansAccepted`, `SkippedOnlyAtCap`, of the forms | every step of the forms is a step of `EmailService` or leaves it alone |
| `MailIsOutgoing`, `FormsMailIsOutgoing` | `ImplementsOutgoingMail`, of `EmailService` and of the forms | steps map to steps or stuttering; `PostedInv`, `MemoryInv`, `DeliveryInv` |
| `OneWelcomePerActivation` | `OneEmailPerActivation` | `MailedInv`: as long as a form may repeat an email the provider knows its key |
| `FormsAreTruthful` | `FormsTellTheTruth` | what is sent was started by a form that has stored (`StartedInv`, `PostedInv`) |
| `SilenceIsEarned` | `ActivationIsWelcomed` | `FoundInv`, `OneRowPerAddress` |
| `PasswordsLockOut` | `OldPasswordIsOut` | a session that was deleted is not inserted again (`KnownInv`) |
| `EndsAreFelt`, `LostRolesAreFelt` | `EndReaches`, `RolesReach` | `ReadOK` of logins, guards and cache |
| `OnlyRacesOutlive` | `CutIsOut` | `CutInv`: a session of `cut` has no row, is not cached, and no guard has read it |
| `SomeoneStays` | `AnActiveSuper`, if removals take turns | who is about to remove one knows another |
| `SupersManageSupers` | `ManagedBySuper` | `ManagesRightly` |
| `Staleness` | `AgeBound` | `AgeInv`, `HitInv` |
| `RacesOnly` | `UpdatesAreMissedByRacesOnly` | `MissInv`, and that `Clears` covers `Reads` for every view and mutation but one |
| `KeepsDates`, `PublishesAll`, `KeepsCategories`, `SparesDeleted` | the four action properties of `ContentPublishing` | `ReadInv`, `CountInv`, `HeldInv`, `AbsentInv` |
| `RecordsAreServed`, `OrphansAreExplained` | `RecordHasFile`, `NoSilentOrphans` | `RecordInv`; the second is inductive as it stands |
| `TotalsHold` | `TotalsAreTrue` | `TotalsInv`: a report's period, and what each of its statements has read so far |
| `PartsAddUp` | `ReportAddsUp` | `PartsInv`: an undisturbed report has read one table; sums over days and over all sources count the same sets, and a cut list counts a part |

Why the strengthenings are needed:

* `NoOverlap` says nothing of a transaction that has looked and not yet inserted.
  `SnapshotInv` does: the rows it saw are still apart from its interval, unless
  somebody edited them. `Serializable` covers the rows it did not see, and the two
  together cover all. That a row nobody edited is REQUESTED is `HistoryInv`. With
  one editor per appointment, `EditorInv` says that what an editor is about to
  write is still permitted, so that no row becomes active again, and
  `ActiveSnapshotInv` extends the rest from unedited to active rows.
* `RecipientCap` counts grants in a window that has passed, while the code counts
  what it remembers. `MemoryInv` says that these are the same grants now, and
  later grants fall into later windows.
* `EndReaches` speaks of what a request sees, which a cache entry, a guard that has
  queried or a login under way may have read long before. `ReadOK(t, roles, at)` says
  that what was read at time `at` was true then: if the session has ended, the
  account been disabled or its roles changed, that came later. It holds of all
  three at the times they carry, it survives every step, and the times are
  bounded by `CacheTTL` and `MaxDelay`.
* `TypeOK` says that the cache stays within its size. `Room` removes the oldest of a
  full cache, and a finite set that is ordered by insertion has an oldest
  (`OldestExists`, by well-founded induction); hence the order is part of the type.
* `FormsTellTheTruth` says that an email is about a stored row. Between the two lie
  a call of `send` and a post on the wire, of which `StartedInv` and `PostedInv` say
  the same.
* `ActivationIsWelcomed` needs `FoundInv`: unless staff intervened, who was found
  active still is.
* `OneEmailPerActivation` is of steps, while what could repeat an email is a form
  that has found nobody, or a call under way. `MailedInv` says that the key of such
  an email is remembered, and on whose account it cannot be forgotten yet.
* `CutIsOut` speaks of admissions. `CutInv` names the two ways to one, the cache and a
  guard that has read: neither holds a session of `cut`, and a new reading finds
  no row.
* `AgeBound` is about the entry, but any answer under way may become it, so
  `AgeInv` says of answers what will be needed of the entry. It differs between
  the views whose age counts from the question and those whose age counts from the
  answer. `MissInv` does the same for the watched mutation: as long as it has not
  emptied the cache, it is pending.
* `ReadInv` says that what a call has read of a row still holds, unless the row is
  in `touched`. Every action property of that module is then a matter of one step.
* `RecordHasFile` needs to know that inserts carried out late belong to uploads
  already reported as failed, and that files are removed only when no finished
  upload has a record (`RecordInv`).

* `OutgoingMail` has two counts that the code does not keep. Emails per call stay at
  one by `DeliveryInv`, and an email leaves only after its call has begun by
  `PostedInv`: what is on the wire belongs to a call neither idle nor skipped. That
  the pruned memory and the count of all grants agree is `MemoryInv` again.
* The reports need of the table what `TableInv` says of every event ever stored: no two
  have one number, and those that are gone were older than the retention, however
  late the purge ran.
* The visitors of a period are bounded by sets, not by numbers: an id is one
  browser on one day, unless its batch arrived on an earlier day than it was
  stored on. `TotalsAreBetween` is that argument for any table, and `TotalsInv`
  says between which two tables a statement has read.
* `ReportAddsUp` compares folds with cardinalities. A fold over a set of any size is a
  recursive function of the library, and what it computes would ordinarily be shown
  by induction. `SumCounts` does without: if a sum over some set of days or sources
  differed from the number of things it counts, there would be a smallest such
  set, and taking one element away gives a smaller one. That a session falls under
  one source only is `FirstViewsAgree`: of the page views of a session one has the
  least number. `ListedSum` counts the sessions of the sources that are listed:
  all of them when the list is not full, for then it is complete (`ListedSources`).

Only model-checked: all liveness, which is out of reach of the prover
(`EveryCallEnds`, `EverySubmissionEnds`, `ShownInTheEnd`). Every invariant and
every action property that a run checks is also proved.

## 5. Where the code and its documents disagree

1. `appointments_double_booking`: `updateStatus` writes without looking at the
   status again, so that of two staff one can confirm what the other has meanwhile
   cancelled, over a slot that has been booked since. `docs/transactional-emails.md:3`
   promises that active bookings cannot overlap.
2. `role_change_is_cached`: a change of roles does not invalidate the session
   cache; the comment at `session-auth.guard.ts:19` says that it does.
3. `last_super_admin`: two simultaneous removals leave no super admin;
   `protectLastSuper` counts without a lock.
4. `registrations_show_old_course`: the list of registrations shows course titles,
   which mutations of courses do not empty; `admin.service.ts:85-86` says that
   mutations do not have to wait for the lifetime.
5. No run shows this one: `deleteCategory` counts the references and then deletes, and
   for a post that joins the category in between the foreign key sets null.
   `docs/admin-cms.md:5` promises 409 as long as a category is referenced.
   `CategoriesKept` excepts exactly this case and shows that there is no other.

## 6. What is not modelled

Titles, texts, locales, slugs, galleries and curricula are data that no property
tells apart; wording and layout of emails; exports and their formatting; search,
filters and sorting (a cache key is one entry); passwords and tokens (abstract);
HTTP parsing, validation, throttling, origin checks; seed and import scripts;
deployment, but for the restart. The rule-based slot generator is called by no
route. Of analytics: `realtime`, `leads` and the titles of pages, which are single
reads; the other statements of the report, which count devices, countries,
browsers, pages and referrers as the modelled ones count sources.

Seen while modelling, and covered by no property: `update` with PUBLISHED and no
date dates a row again; the status ARCHIVED drops the date, which bulk archiving
keeps; deleting a category whose only projects are deleted ends in a server error;
the read caches never drop an expired entry; a report over the longest range is
compared with a period that the purge has taken in part or whole; `leads` counts
no more than 500 forms of a kind; an update of an account with both password and
roles may write the first and refuse the second.

## 7. Plan

In this order; the number of runs stays as it is, so that new questions replace or
join old ones.

1. **`PureFunctions`**: `generateSlots`, `stableOrderBy` and `pageResponse`, path and
   source classification, the permission table, each against a reference definition
   over bounded inputs; in a module of its own, as it may need RECURSIVE.
2. **Answers of `deleteCategory`**, to state what `docs/admin-cms.md:5` says of categories
   in use.
3. **An account register**: an abstract specification in which checking and writing are
   one step, and the proof that `AdminAccounts` implements it when removals take
   turns, as `Appointments` implements `BookingCalendar`.
