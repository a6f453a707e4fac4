---------------------------- MODULE PublicForms ----------------------------
(***************************************************************************)
(* The public forms: a newsletter subscription, an enquiry and a course    *)
(* registration.  Each handler stores its row and then mails through       *)
(* EmailService, whose variables and actions this module shares; staff     *)
(* change and delete the rows meanwhile, and the process may restart.      *)
(*                                                                         *)
(* A subscription is found and then written by two statements.  The second *)
(* is one INSERT ... ON CONFLICT (email) DO UPDATE, so two posts of one    *)
(* address share a row; a row is identified by the submission that created *)
(* it, and emails are keyed by the row.                                    *)
(***************************************************************************)
EXTENDS EmailService

CONSTANTS
    Submissions,    \* posts of a form
    Kind,           \* Kind[f]: "newsletter", "contact" or "course"
    Email,          \* Email[f]: the address typed into f
    Inbox,          \* where staff are mailed, or NoAddress
    Batches         \* bound: what is posted in one behaviour, in this order

Newsletters == {f \in Submissions : Kind[f] = "newsletter"}
Enquiries == Submissions \ Newsletters

\* The emails a submission may cause: row is the row they are about.
FormCalls ==
    {c \in [form : Newsletters, row : Newsletters, to : {"customer"}] :
        Email[c.form] = Email[c.row]}
    \cup {c \in [form : Enquiries, row : Enquiries, to : {"customer", "admin"}] :
            c.form = c.row}

FormAddress ==
    [c \in FormCalls |-> IF c.to = "admin" THEN Inbox ELSE Email[c.form]]

KeyPerSubmission == [c \in FormCalls |-> <<c.form, c.to>>]  \* mutant of FormKey

\* kind/<row id>/recipient
FormKey == [c \in FormCalls |-> <<c.row, c.to>>]

FormKeys == {FormKey[c] : c \in FormCalls}

\* Only the address that was typed in counts against the cap.
FormPublic == {c \in FormCalls : c.to = "customer"}

ASSUME FormAssumption ==
    /\ IsFiniteSet(Submissions)
    /\ Kind \in [Submissions -> {"newsletter", "contact", "course"}]
    /\ Email \in [Submissions -> Addresses]
    /\ Inbox \in Addresses \cup {NoAddress}
    /\ NoAddress \notin Addresses
ASSUME CompositionAssumption ==
    /\ Calls = FormCalls
    /\ KeyOf = FormKey
    /\ AddressOf = FormAddress
    /\ PublicForm = FormPublic

VARIABLES
    form,       \* form[f]: how far submission f is, or its answer
    found,      \* found[f]: what f knows of the subscriber it looked up
    rowOf,      \* rowOf[f]: the rows f stored: at most one
    rows,       \* the rows in the database
    active,     \* the subscriptions among them that are active
    stored,     \* history: every row that was ever stored
    mailed,     \* history: <<row, to>> emailed since the row was last activated
    waiting     \* history: <<key, f>>, f under way when the key was recorded

handlerVars == <<form, found, rowOf, rows, active, stored>>
formVars == <<handlerVars, mailed, waiting>>
formsVars == <<vars, formVars>>

\* "ignored" is the success a bot is shown, "refused" 404, "failed" 500.
FormAnswers == {"accepted", "ignored", "refused", "failed", "lost"}

\* An active subscriber that staff have meanwhile deactivated or deleted is a
\* "stale" one: history, nothing reads it.
FormsTypeOK ==
    /\ TypeOK
    /\ form \in [Submissions -> {"idle", "find", "store", "mail"} \cup FormAnswers]
    /\ found \in [Submissions -> {"nobody", "active", "stale"}]
    /\ rowOf \in [Submissions -> SUBSET Submissions]
    /\ active \subseteq rows
    /\ rows \subseteq stored
    /\ stored \subseteq Submissions
    /\ mailed \subseteq Submissions \X {"customer", "admin"}
    /\ waiting \subseteq Keys \X Submissions

FormsInit ==
    /\ Init
    /\ form = [f \in Submissions |-> "idle"]
    /\ found = [f \in Submissions |-> "nobody"]
    /\ rowOf = [f \in Submissions |-> {}]
    /\ rows = {}
    /\ active = {}
    /\ stored = {}
    /\ mailed = {}
    /\ waiting = {}

-----------------------------------------------------------------------------
(* The handlers *)

MayPost(f) ==
    /\ form[f] = "idle"
    /\ \E B \in Batches : \E i \in DOMAIN B :
          /\ f = B[i]
          /\ {g \in Submissions : form[g] # "idle"} = {B[j] : j \in 1..(i - 1)}

\* A visitor posts a form.  An enquiry is stored at once, the others look
\* something up first.
Submit(f) ==
    /\ MayPost(f)
    /\ form' = [form EXCEPT ![f] =
                  IF Kind[f] = "contact" THEN "store" ELSE "find"]
    /\ UNCHANGED <<vars, found, rowOf, rows, active, stored, mailed, waiting>>

\* HoneypotInterceptor: a bot filled in the hidden field.  The post ends before
\* the handler, with the answer a person would get.
Ignore(f) ==
    /\ MayPost(f)
    /\ form' = [form EXCEPT ![f] = "ignored"]
    /\ UNCHANGED <<vars, found, rowOf, rows, active, stored, mailed, waiting>>

\* The row of the address: none or one.
Subscription(f) == {r \in rows \cap Newsletters : Email[r] = Email[f]}

FindNobody(f) ==            \* mutant of FindSubscriber
    /\ form[f] = "find"
    /\ Kind[f] = "newsletter"
    /\ form' = [form EXCEPT ![f] = "store"]
    /\ UNCHANGED <<vars, found, rowOf, rows, active, stored, mailed, waiting>>

FindAnySubscriber(f) ==     \* mutant of FindSubscriber
    /\ form[f] = "find"
    /\ Kind[f] = "newsletter"
    /\ found' = [found EXCEPT ![f] =
                   IF Subscription(f) # {} THEN "active" ELSE "nobody"]
    /\ form' = [form EXCEPT ![f] = "store"]
    /\ UNCHANGED <<vars, rowOf, rows, active, stored, mailed, waiting>>

FindSubscriber(f) ==
    /\ form[f] = "find"
    /\ Kind[f] = "newsletter"
    /\ found' = [found EXCEPT ![f] =
                   IF Subscription(f) \cap active # {} THEN "active" ELSE "nobody"]
    /\ form' = [form EXCEPT ![f] = "store"]
    /\ UNCHANGED <<vars, rowOf, rows, active, stored, mailed, waiting>>

\* The course is looked up: it is published, or the answer is 404.
FindCourse(f) ==
    /\ form[f] = "find"
    /\ Kind[f] = "course"
    /\ form' \in {[form EXCEPT ![f] = a] : a \in {"store", "refused"}}
    /\ UNCHANGED <<vars, found, rowOf, rows, active, stored, mailed, waiting>>

\* Whoever becomes active has not been mailed since.
Activate(R) == mailed' = {m \in mailed : m[1] \notin R \ active}

\* The INSERT of an enquiry, or the upsert of a subscription: it creates the
\* row of the address or finds it, and makes it active.
StoreRow(f) ==
    LET r == IF f \in Newsletters /\ Subscription(f) # {}
             THEN Subscription(f) ELSE {f}
    IN  /\ form[f] = "store"
        /\ rowOf' = [rowOf EXCEPT ![f] = r]
        /\ rows' = rows \cup r
        /\ active' = active \cup (r \cap Newsletters)
        /\ stored' = stored \cup r
        /\ Activate(r \cap Newsletters)

\* Whoever was already subscribed is answered now; the others are mailed.
Store(f) ==
    /\ StoreRow(f)
    /\ form' = [form EXCEPT ![f] =
                  IF found[f] = "nobody" THEN "mail" ELSE "accepted"]
    /\ UNCHANGED <<vars, found, waiting>>

MailAnyway(f) ==            \* mutant of StoreError
    /\ form[f] = "store"
    /\ form' = [form EXCEPT ![f] = "mail"]
    /\ rowOf' = [rowOf EXCEPT ![f] = {f}]
    /\ UNCHANGED <<vars, found, rows, active, stored, mailed, waiting>>

\* A database error answers 500 (a query before the row is stored, or the
\* statement itself, as when the course was deleted meanwhile) ...
StoreError(f) ==
    /\ form[f] \in {"find", "store"}
    /\ form' = [form EXCEPT ![f] = "failed"]
    /\ UNCHANGED <<vars, found, rowOf, rows, active, stored, mailed, waiting>>

\* ... and leaves the row when only the acknowledgement was lost.
StoreUnacknowledged(f) ==
    /\ StoreRow(f)
    /\ form' = [form EXCEPT ![f] = "failed"]
    /\ UNCHANGED <<vars, found, waiting>>

\* The emails of submission f, about the row it stored.
Mails(f) == {c \in FormCalls : c.form = f /\ c.row \in rowOf[f]}

\* EmailService.send is called: both of an enquiry's emails start together and
\* run side by side.
StartMail(c) ==
    /\ form[c.form] = "mail"
    /\ c \in Mails(c.form)
    /\ SkipUnaddressed(c) \/ SkipCapped(c) \/ Send(c)
    /\ UNCHANGED formVars

\* Every send has settled: the visitor is told that the form was received,
\* whatever became of the mail.
AnswerForm(f) ==
    /\ form[f] = "mail"
    /\ \A c \in Mails(f) : pc[c] \in Results
    /\ form' = [form EXCEPT ![f] = "accepted"]
    /\ UNCHANGED <<vars, found, rowOf, rows, active, stored, mailed, waiting>>

-----------------------------------------------------------------------------
(* Staff *)

\* found, once row r is no longer active.
Outdated(r) ==
    [f \in Submissions |->
        IF f \in Newsletters /\ r \in Subscription(f) /\ found[f] = "active"
        THEN "stale" ELSE found[f]]

\* updateSubscription switches a subscription on or off.
SetActive(r) ==
    /\ r \in rows \cap Newsletters
    /\ \/ r \notin active /\ active' = active \cup {r} /\ Activate({r})
          /\ UNCHANGED found
       \/ r \in active /\ active' = active \ {r} /\ found' = Outdated(r)
          /\ UNCHANGED mailed
    /\ UNCHANGED <<vars, form, rowOf, rows, stored, waiting>>

\* deleteContact, deleteRegistration and deleteSubscription.
DeleteRow(r) ==
    /\ r \in rows
    /\ rows' = rows \ {r}
    /\ active' = active \ {r}
    /\ found' = Outdated(r)
    /\ UNCHANGED <<vars, form, rowOf, stored, mailed, waiting>>

-----------------------------------------------------------------------------

\* The process restarts: every handler dies with it, rows stay.
FormsRestart ==
    /\ Restart
    /\ form' = [f \in Submissions |->
                  IF form[f] \in {"find", "store", "mail"} THEN "lost" ELSE form[f]]
    /\ UNCHANGED <<found, rowOf, rows, active, stored, mailed, waiting>>

\* What a handler does by itself.
Handle(f) ==
    \/ FindSubscriber(f) \/ FindCourse(f)
    \/ Store(f) \/ StoreError(f) \/ StoreUnacknowledged(f)
    \/ AnswerForm(f)

Staff == \E r \in Submissions : SetActive(r) \/ DeleteRow(r)

\* A handler or a send of submission f is under way.
Busy(f) ==
    \/ form[f] \in {"find", "store", "mail"}
    \/ \E c \in Calls : c.form = f /\ ~Over(c)

\* The histories of what the provider has just done.
Record ==
    /\ mailed' = mailed \cup {<<p[1].row, p[1].to>> : p \in emails' \ emails}
    /\ waiting' = waiting \cup
                     {w \in (known' \ known) \X Submissions : Busy(w[2])}
    /\ UNCHANGED handlerVars

\* A call of send by itself, and posts that arrive behind its back.
Deliver ==
    /\ \/ \E c \in Calls : Progress(c)
       \/ \E p \in wire : AcceptUnheard(p) \/ Lose(p)
       \/ Tick
    /\ Record

\* The provider forgets a key after 24 hours.  A form that was under way when it
\* was recorded is over by then; another may have been posted meanwhile.
Expire(k) ==
    /\ Forget(k)
    /\ \A f \in Submissions : Busy(f) => <<k, f>> \notin waiting
    /\ waiting' = {w \in waiting : w[1] # k}
    /\ UNCHANGED <<handlerVars, mailed>>

FormsNext ==
    \/ \E f \in Submissions : Submit(f) \/ Ignore(f) \/ Handle(f)
    \/ \E c \in Calls : StartMail(c)
    \/ Staff
    \/ Deliver
    \/ \E k \in known : Expire(k)
    \/ FormsRestart

FormsSpec == FormsInit /\ [][FormsNext]_formsVars

SendStep(f) == \E c \in Calls :
    /\ c.form = f
    /\ StartMail(c) \/ (Progress(c) /\ Record)

\* Every await of a handler is a statement that ends or a send that ends, and a
\* handler has finitely many, so it is enough that some handler goes on while one
\* can.  Nothing makes visitors post, staff act, or the provider answer.
FormsFairSpec ==
    /\ FormsSpec
    /\ WF_formsVars(\E f \in Submissions : Handle(f) \/ SendStep(f))

-----------------------------------------------------------------------------
(* Properties *)

\* One email per row and recipient, for as long as the row stays as it is: an
\* enquiry is confirmed and announced once, and a subscription welcomed once each
\* time it becomes active ("Repeated submissions must not send a new welcome email
\* to an active subscriber").  Two posts at once both find nobody: the key spares
\* the second email.  A post of the day after, when the key is forgotten, finds
\* the active subscriber: the look-up does.
OneEmailPerActivation ==
    [][\A p \in emails' \ emails :
          <<p[1].row, p[1].to>> \notin mailed]_formsVars

\* What visitors and staff are told is true: an accepted form was stored ("Never
\* undo saved enquiries on mail failure"), a refused or ignored one was not, and
\* an email tells of a stored row ("your enquiry has been saved").
FormsTellTheTruth ==
    /\ \A f \in Submissions :
          /\ form[f] \in {"mail", "accepted"} =>
                rowOf[f] # {} /\ rowOf[f] \subseteq stored
          /\ form[f] \in {"refused", "ignored"} => f \notin stored
    /\ \A p \in emails : p[1].row \in stored

\* A form that makes a subscription active goes on to welcome its subscriber;
\* it stays silent only when staff ended the subscription after the form had
\* found it active.
ActivationIsWelcomed ==
    [][\A f \in Submissions :
          form[f] = "store" /\ form'[f] = "accepted" /\ ~(active' \subseteq active)
              => found[f] = "stale"]_formsVars

\* Every form that was posted comes to an answer, whatever the provider does:
\* its timeouts and its one retry end every send it waits for.  (Posts are
\* finitely many, so this says that in the end none is without its answer.)
EverySubmissionEnds ==
    <>[](\A f \in Submissions : form[f] \in {"idle"} \cup FormAnswers)

-----------------------------------------------------------------------------
(* Inductive invariants, used by PublicFormsProofs *)

\* email is @unique: an address has one subscription.
OneRowPerAddress ==
    \A r, s \in rows \cap Newsletters : Email[r] = Email[s] => r = s

\* What a form knows of its subscriber is true until it acts on it, because
\* staff who end a subscription outdate it.
FoundInv ==
    \A f \in Newsletters :
        found[f] = "active" => Subscription(f) \cap active # {}

\* A form that may yet send message m: it mails its row, or has found nobody and
\* is about to store what is an active subscription already, or its call or post
\* is on the way.
MayMail(f, m) ==
    \/ /\ form[f] = "store" /\ found[f] = "nobody"
       /\ m[1] \in Subscription(f) \cap active /\ f \in Newsletters
    \/ form[f] = "mail" /\ m[1] \in rowOf[f]
    \/ \E c \in Calls : c.form = f /\ <<c.row, c.to>> = m /\ ~Over(c)

\* As long as a form may repeat an email, the provider knows its key, since the
\* form was under way when the key was recorded.
MailedInv ==
    \A m \in mailed :
        /\ m[1] \in stored
        /\ \A f \in Submissions :
              MayMail(f, m) => m \in known /\ <<m, f>> \in waiting
=============================================================================
