---------------------------- MODULE OutgoingMail ----------------------------
(***************************************************************************)
(* What a caller of send() is promised, with no post, retry, timeout or    *)
(* pruned memory in sight.  An email leaves once at most per call, only    *)
(* for a call that has begun, and not while one of the same key is recent; *)
(* it, or the recent one, has left when the call answers "sent", and it    *)
(* may leave after its call has ended in any other way.  A call is skipped *)
(* when it has no address or when its address has had its share of public  *)
(* forms, and only then.  EmailService is shown to implement this.         *)
(***************************************************************************)
EXTENDS Integers, FiniteSets

CONSTANTS
    Calls,          \* calls of send
    KeyOf,          \* the key of each call; two calls may share one
    AddressOf,      \* the recipient of each call, or NoAddress
    NoAddress,      \* no recipient configured
    PublicForm,     \* the calls made for an address typed into a public form
    Cap,            \* emails of public forms to one address ...
    Window          \* ... in this much time

VARIABLES
    now,        \* the clock
    life,       \* how often the process was restarted
    answer,     \* answer[c]: "none", "pending" or what call c answered
    sent,       \* sent[c]: how many emails have left for call c
    recent,     \* the keys under which an email left recently
    granted     \* granted[c]: [at, life] when public-form call c began

vars == <<now, life, answer, sent, recent, granted>>

Init ==
    /\ now = 0
    /\ life = 0
    /\ answer = [c \in Calls |-> "none"]
    /\ sent = [c \in Calls |-> 0]
    /\ recent = {}
    /\ granted = [c \in Calls |-> [at |-> 0 - 1, life |-> 0 - 1]]

Answers(c, before, after) ==
    answer[c] = before /\ answer' = [answer EXCEPT ![c] = after]

\* What public forms have sent to the address of c in this life of the process
\* and the window that ends now.
Share(c) == {d \in Calls : /\ AddressOf[d] = AddressOf[c]
                           /\ granted[d].life = life
                           /\ granted[d].at > now - Window}
Full(c) == c \in PublicForm /\ Cardinality(Share(c)) >= Cap

Skip(c) ==
    /\ Answers(c, "none", "skipped")
    /\ AddressOf[c] = NoAddress \/ Full(c)
    /\ UNCHANGED <<now, life, sent, recent, granted>>

Begin(c) ==
    /\ Answers(c, "none", "pending")
    /\ AddressOf[c] # NoAddress
    /\ ~Full(c)
    /\ granted' = IF c \in PublicForm
                  THEN [granted EXCEPT ![c] = [at |-> now, life |-> life]]
                  ELSE granted
    /\ UNCHANGED <<now, life, sent, recent>>

GiveUp(c) ==
    /\ Answers(c, "pending", "failed")
    /\ UNCHANGED <<now, life, sent, recent, granted>>

\* The email of call c leaves, the first of its key in a while.
Leaves(c) ==
    /\ KeyOf[c] \notin recent
    /\ sent[c] = 0
    /\ sent' = [sent EXCEPT ![c] = 1]
    /\ recent' = recent \cup {KeyOf[c]}

\* It leaves now at the latest, unless one of its key is recent.
Confirm(c) ==
    /\ Answers(c, "pending", "sent")
    /\ \/ Leaves(c)
       \/ KeyOf[c] \in recent /\ UNCHANGED <<sent, recent>>
    /\ UNCHANGED <<now, life, granted>>

\* It leaves unheard.
Leave(c) ==
    /\ answer[c] \notin {"none", "skipped"}
    /\ Leaves(c)
    /\ UNCHANGED <<now, life, answer, granted>>

\* A key is no longer recent, of which no call that has sent is pending.
Pass(k) ==
    /\ k \in recent
    /\ \A c \in Calls : KeyOf[c] = k /\ sent[c] > 0 => answer[c] # "pending"
    /\ recent' = recent \ {k}
    /\ UNCHANGED <<now, life, answer, sent, granted>>

Tick ==
    /\ now' = now + 1
    /\ UNCHANGED <<life, answer, sent, recent, granted>>

\* The process dies, and with it every pending call.
Die ==
    /\ life' = life + 1
    /\ answer' = [c \in Calls |->
                    IF answer[c] = "pending" THEN "lost" ELSE answer[c]]
    /\ UNCHANGED <<now, sent, recent, granted>>

Next ==
    \/ \E c \in Calls : Skip(c) \/ Begin(c) \/ GiveUp(c) \/ Confirm(c) \/ Leave(c)
    \/ \E k \in recent : Pass(k)
    \/ Tick
    \/ Die

Spec == Init /\ [][Next]_vars
=============================================================================
