---------------------------- MODULE EmailService ----------------------------
(***************************************************************************)
(* EmailService.send: concurrent calls that post one email each to the     *)
(* provider (Resend), with a timeout, one retry under the same idempotency *)
(* key, and a cap on what public forms may send to one address, which is   *)
(* kept in the memory of the API process.                                  *)
(*                                                                         *)
(* The network is free to delay a post for as long as it likes, beyond the *)
(* caller's timeout or death, and to lose it or its answer: a lost post is *)
(* one never received.  The provider sends one email per idempotency key   *)
(* for as long as it remembers the key (24 hours), which is longer than    *)
(* any call and its posts last.                                            *)
(***************************************************************************)
EXTENDS Integers, FiniteSets

CONSTANTS
    Calls,          \* calls of send
    Keys,           \* idempotency keys
    Addresses,      \* recipients, trimmed and in lower case
    KeyOf,          \* the key of each call; two calls may share one
    AddressOf,      \* the recipient of each call, or NoAddress
    NoAddress,      \* no recipient configured
    PublicForm,     \* the calls made for an address typed into a public form
    Cap,            \* PUBLIC_FORM_EMAILS_PER_RECIPIENT
    Window,         \* PUBLIC_FORM_WINDOW_MS
    MaxEvents       \* bound: ticks of the clock and restarts of the process

ASSUME CallAssumption ==
    /\ IsFiniteSet(Calls)
    /\ KeyOf \in [Calls -> Keys]
    /\ AddressOf \in [Calls -> Addresses \cup {NoAddress}]
    /\ PublicForm \subseteq Calls
ASSUME CapAssumption == Cap \in Nat /\ Window \in Nat
ASSUME BoundAssumption == MaxEvents \in Nat

VARIABLES
    now,        \* the clock
    life,       \* how often the process was restarted
    pc,         \* pc[c]: how far call c is, or its result
    attempt,    \* attempt[c]: 0 for the first post, 1 for the retry
    remembered, \* publicFormSends: the calls whose grant is kept in memory
    granted,    \* granted[c]: [at, life] when the cap let call c pass
    wire,       \* posts the provider may yet receive: <<call, attempt>>
    known,      \* the keys the provider remembers
    emails      \* the posts the provider turned into an email

vars == <<now, life, pc, attempt, remembered, granted, wire, known, emails>>
provider == <<known, emails>>

Results == {"sent", "failed", "skipped", "lost"}
Ungranted == [at |-> 0 - 1, life |-> 0 - 1]

TypeOK ==
    /\ now \in Nat /\ life \in Nat /\ now + life <= MaxEvents
    /\ pc \in [Calls -> {"idle", "posted", "backoff"} \cup Results]
    /\ attempt \in [Calls -> {0, 1}]
    /\ remembered \subseteq Calls
    /\ granted \in [Calls -> [at : Int, life : Int]]
    /\ wire \subseteq Calls \X {0, 1}
    /\ known \subseteq Keys
    /\ emails \subseteq Calls \X {0, 1}

Init ==
    /\ now = 0
    /\ life = 0
    /\ pc = [c \in Calls |-> "idle"]
    /\ attempt = [c \in Calls |-> 0]
    /\ remembered = {}
    /\ granted = [c \in Calls |-> Ungranted]
    /\ wire = {}
    /\ known = {}
    /\ emails = {}

-----------------------------------------------------------------------------
(* The cap of public forms: allowPublicFormSend *)

RecentForever == remembered         \* mutant of Recent

\* The grants that count now.  Each call first prunes the others, of every
\* address.
Recent == {c \in remembered : granted[c].at > now - Window}

AllowedOneMore(c) ==        \* mutant of Allowed
    Cardinality({d \in Recent : AddressOf[d] = AddressOf[c]}) <= Cap

Allowed(c) == Cardinality({d \in Recent : AddressOf[d] = AddressOf[c]}) < Cap

Grant(c) ==
    /\ remembered' = Recent \cup {c}
    /\ granted' = [granted EXCEPT ![c] = [at |-> now, life |-> life]]

-----------------------------------------------------------------------------
(* send *)

\* fetch: post number n leaves for the provider.
Post(c, n) ==
    /\ pc' = [pc EXCEPT ![c] = "posted"]
    /\ attempt' = [attempt EXCEPT ![c] = n]
    /\ wire' = wire \cup {<<c, n>>}

\* Without a recipient the email is skipped.
SkipUnaddressed(c) ==
    /\ pc[c] = "idle"
    /\ AddressOf[c] = NoAddress
    /\ pc' = [pc EXCEPT ![c] = "skipped"]
    /\ UNCHANGED <<now, life, attempt, remembered, granted, wire, provider>>

\* The cap is reached: the pruning stays.
SkipCapped(c) ==
    /\ pc[c] = "idle"
    /\ AddressOf[c] # NoAddress
    /\ c \in PublicForm
    /\ ~Allowed(c)
    /\ pc' = [pc EXCEPT ![c] = "skipped"]
    /\ remembered' = Recent
    /\ UNCHANGED <<now, life, attempt, granted, wire, provider>>

\* The quota is used up before the post, whatever becomes of it.
Send(c) ==
    /\ pc[c] = "idle"
    /\ AddressOf[c] # NoAddress
    /\ \/ c \in PublicForm /\ Allowed(c) /\ Grant(c)
       \/ c \notin PublicForm /\ UNCHANGED <<remembered, granted>>
    /\ Post(c, 0)
    /\ UNCHANGED <<now, life, provider>>

KeyPerAttempt(p) == p           \* mutant of Key

\* The Idempotency-Key of a post: the retry's is the first post's.
Key(p) == KeyOf[p[1]]

\* The provider takes a post; under a key it knows it sends nothing more.
Receive(p) ==
    /\ wire' = wire \ {p}
    /\ known' = known \cup {Key(p)}
    /\ emails' = IF Key(p) \in known THEN emails ELSE emails \cup {p}

\* It answers 2xx in time ...
Accept(c) ==
    /\ pc[c] = "posted"
    /\ <<c, attempt[c]>> \in wire
    /\ Receive(<<c, attempt[c]>>)
    /\ pc' = [pc EXCEPT ![c] = "sent"]
    /\ UNCHANGED <<now, life, attempt, remembered, granted>>

\* ... or too late, or the answer is lost: the caller learns nothing.
AcceptUnheard(p) ==
    /\ p \in wire
    /\ Receive(p)
    /\ UNCHANGED <<now, life, pc, attempt, remembered, granted>>

\* A post is lost on the way.
Lose(p) ==
    /\ p \in wire
    /\ wire' = wire \ {p}
    /\ UNCHANGED <<now, life, pc, attempt, remembered, granted, provider>>

\* Nothing of call c can reach the provider any more.
Over(c) == pc[c] \notin {"posted", "backoff"} /\ \A p \in wire : p[1] # c

\* The provider forgets a key, of which the calls whose email it recorded are
\* long over.
Forget(k) ==
    /\ k \in known
    /\ \A p \in emails : KeyOf[p[1]] = k => Over(p[1])
    /\ known' = known \ {k}
    /\ UNCHANGED <<now, life, pc, attempt, remembered, granted, wire, emails>>

\* 4xx other than 429: no retry.
Reject(c) ==
    /\ pc[c] = "posted"
    /\ <<c, attempt[c]>> \in wire
    /\ wire' = wire \ {<<c, attempt[c]>>}
    /\ pc' = [pc EXCEPT ![c] = "failed"]
    /\ UNCHANGED <<now, life, attempt, remembered, granted, provider>>

UnansweredOnceMore(c) ==    \* mutant of Unanswered
    /\ pc[c] = "posted"
    /\ pc' = [pc EXCEPT ![c] = IF attempt[c] <= 1 THEN "backoff" ELSE "failed"]
    /\ UNCHANGED <<now, life, attempt, remembered, granted, wire, provider>>

NoTimeout(c) ==             \* mutant of Unanswered
    /\ pc[c] = "posted"
    /\ <<c, attempt[c]>> \in wire
    /\ pc' = [pc EXCEPT ![c] = IF attempt[c] = 0 THEN "backoff" ELSE "failed"]
    /\ UNCHANGED <<now, life, attempt, remembered, granted, wire, provider>>

SentUnlessRejected(c) ==    \* mutant of Unanswered
    /\ pc[c] = "posted"
    /\ pc' = [pc EXCEPT ![c] = IF attempt[c] = 0 THEN "backoff" ELSE "sent"]
    /\ UNCHANGED <<now, life, attempt, remembered, granted, wire, provider>>

\* 429, 5xx, a network error or the timeout: retry once, then give up.  The
\* post may still be on its way.
Unanswered(c) ==
    /\ pc[c] = "posted"
    /\ pc' = [pc EXCEPT ![c] = IF attempt[c] = 0 THEN "backoff" ELSE "failed"]
    /\ UNCHANGED <<now, life, attempt, remembered, granted, wire, provider>>

\* The pause is over: post again under the same key.
Retry(c) ==
    /\ pc[c] = "backoff"
    /\ Post(c, attempt[c] + 1)
    /\ UNCHANGED <<now, life, remembered, granted, provider>>

-----------------------------------------------------------------------------

Tick ==
    /\ now + life < MaxEvents
    /\ now' = now + 1
    /\ UNCHANGED <<life, pc, attempt, remembered, granted, wire, provider>>

\* The process restarts: its memory and its calls are gone, posts are not.
Restart ==
    /\ now + life < MaxEvents
    /\ life' = life + 1
    /\ remembered' = {}
    /\ pc' = [c \in Calls |->
                IF pc[c] \in {"posted", "backoff"} THEN "lost" ELSE pc[c]]
    /\ UNCHANGED <<now, attempt, granted, wire, provider>>

\* What a running call does by itself: its answer arrives or its timer fires.
Progress(c) == Accept(c) \/ Reject(c) \/ Unanswered(c) \/ Retry(c)

Next ==
    \/ \E c \in Calls :
          \/ SkipUnaddressed(c) \/ SkipCapped(c) \/ Send(c)
          \/ Progress(c)
    \/ \E p \in wire : AcceptUnheard(p) \/ Lose(p)
    \/ \E k \in known : Forget(k)
    \/ Tick
    \/ Restart

Spec == Init /\ [][Next]_vars

-----------------------------------------------------------------------------
(* Properties *)

\* The public-form grants to address a of process lifetime l in the window
\* that ends at time t.
GrantsInWindow(a, l, t) ==
    {d \in Calls : /\ granted[d].life = l
                   /\ AddressOf[d] = a
                   /\ granted[d].at > t - Window
                   /\ granted[d].at <= t}

\* In no window, wherever it ends, may public forms send more than Cap emails
\* to one address, as long as the process lives.
RecipientCap ==
    \A c \in Calls : granted[c] # Ungranted =>
        Cardinality(GrantsInWindow(AddressOf[c], granted[c].life, granted[c].at))
            <= Cap

\* The cap refuses nobody wrongly: whoever is skipped for it, the address did
\* get its Cap grants in the window before.
SkippedOnlyAtCap ==
    [][\A c \in Calls :
          pc[c] = "idle" /\ pc'[c] = "skipped" /\ AddressOf[c] # NoAddress =>
              Cardinality(GrantsInWindow(AddressOf[c], life, now)) >= Cap]_vars

\* "sent" means that the provider sent the email, or had sent it already.
SentMeansAccepted == \A c \in Calls :
    pc[c] = "sent" => \E p \in emails : KeyOf[p[1]] = KeyOf[c]

\* However retries, timeouts, late posts, restarts and forgotten keys mix, a call
\* sends one email at most.
OneEmailPerCall == \A p, q \in emails : p[1] = q[1] => p = q

\* Seen by its callers, send() is as simple as OutgoingMail: whatever posts, late
\* answers, retries and restarts do, an email leaves once at most per call, never
\* while one of the same key is recent, never for a call that was skipped, and
\* always for one that answers "sent"; and the pruned memory refuses exactly whom
\* a count of all grants would.
CallersView(c) ==
    CASE pc[c] = "idle"                   -> "none"
      [] pc[c] \in {"posted", "backoff"} -> "pending"
      [] OTHER                            -> pc[c]
EmailsOf(c) == {p \in emails : p[1] = c}
Outbox == INSTANCE OutgoingMail
            WITH answer <- [c \in Calls |-> CallersView(c)],
                 sent <- [c \in Calls |-> Cardinality(EmailsOf(c))],
                 recent <- known
ImplementsOutgoingMail == Outbox!Spec
=============================================================================
