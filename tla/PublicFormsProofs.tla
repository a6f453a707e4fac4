------------------------- MODULE PublicFormsProofs -------------------------
(***************************************************************************)
(* Proofs about EmailService and PublicForms, for any calls, submissions,  *)
(* addresses, cap, window and number of restarts.  First EmailService by   *)
(* itself: nothing of the forms is cited there.  Then the forms, which     *)
(* implement EmailService: they only choose when its calls start, so that  *)
(* what is proved of it holds of them too.                                 *)
(***************************************************************************)
EXTENDS PublicForms, FiniteSetTheorems, TLAPS

(***************************************************************************)
(* Types: a call that pauses has posted once.                              *)
(***************************************************************************)

PausedOnce == \A c \in Calls : pc[c] = "backoff" => attempt[c] = 0

LEMMA TypeInvariant == Spec => [](TypeOK /\ PausedOnce)
<1>1. Init => TypeOK /\ PausedOnce
  BY BoundAssumption DEF Init, TypeOK, PausedOnce, Ungranted
<1>2. TypeOK /\ PausedOnce /\ [Next]_vars => TypeOK' /\ PausedOnce'
  <2> SUFFICES ASSUME TypeOK, PausedOnce, [Next]_vars
               PROVE  TypeOK' /\ PausedOnce'
    OBVIOUS
  <2> USE DEF TypeOK, PausedOnce, Results, provider
  <2>1. ASSUME NEW c \in Calls, SkipUnaddressed(c) \/ SkipCapped(c)
        PROVE  TypeOK' /\ PausedOnce'
    BY <2>1 DEF SkipUnaddressed, SkipCapped, Recent
  <2>2. ASSUME NEW c \in Calls, Send(c) PROVE TypeOK' /\ PausedOnce'
    BY <2>2 DEF Send, Post, Grant, Recent
  <2>3. ASSUME NEW c \in Calls, Accept(c) \/ Reject(c) \/ Unanswered(c)
        PROVE  TypeOK' /\ PausedOnce'
    BY <2>3, CallAssumption DEF Accept, Reject, Unanswered, Receive, Key
  <2>4. ASSUME NEW c \in Calls, Retry(c) PROVE TypeOK' /\ PausedOnce'
    BY <2>4 DEF Retry, Post
  <2>5. ASSUME NEW p \in wire, AcceptUnheard(p) \/ Lose(p)
        PROVE  TypeOK' /\ PausedOnce'
    BY <2>5, CallAssumption DEF AcceptUnheard, Lose, Receive, Key
  <2>6. CASE Tick
    BY <2>6, BoundAssumption DEF Tick
  <2>7. CASE Restart
    BY <2>7, BoundAssumption DEF Restart
  <2>8. CASE UNCHANGED vars
    BY <2>8 DEF vars
  <2>9. ASSUME NEW k \in known, Forget(k) PROVE TypeOK' /\ PausedOnce'
    BY <2>9 DEF Forget
  <2>10. QED
    BY <2>1, <2>2, <2>3, <2>4, <2>5, <2>6, <2>7, <2>8, <2>9 DEF Next, Progress
<1>3. QED
  BY <1>1, <1>2, PTL DEF Spec

\* Every variable keeps its type; a call posts twice at most.
THEOREM TypeCorrect == Spec => []TypeOK
BY TypeInvariant, PTL

(***************************************************************************)
(* What the provider sends.  A post belongs to a call that has begun, and  *)
(* a call that has sent its email either is over or has a key the provider *)
(* knows, so that none of its posts sends another.                         *)
(***************************************************************************)

PostedInv ==
    /\ \A p \in wire : pc[p[1]] \notin {"idle", "skipped"}
    /\ \A p \in emails : pc[p[1]] \notin {"idle", "skipped"}

\* What is posted comes from a call that has started, and was not skipped.
LEMMA PostedFromStarted == Spec => [](TypeOK /\ PostedInv)
<1>1. Init => PostedInv
  BY DEF Init, PostedInv
<1>2. TypeOK /\ PostedInv /\ [Next]_vars => PostedInv'
  <2> SUFFICES ASSUME TypeOK, PostedInv, [Next]_vars PROVE PostedInv'
    OBVIOUS
  <2> USE DEF TypeOK, PostedInv, provider
  <2>1. ASSUME NEW c \in Calls, SkipUnaddressed(c) \/ SkipCapped(c) \/ Send(c)
        PROVE  PostedInv'
    BY <2>1 DEF SkipUnaddressed, SkipCapped, Send, Post
  <2>2. ASSUME NEW c \in Calls, Progress(c) PROVE PostedInv'
    BY <2>2 DEF Progress, Accept, Reject, Unanswered, Retry, Receive, Post
  <2>3. ASSUME NEW p \in wire, AcceptUnheard(p) PROVE PostedInv'
    BY <2>3 DEF AcceptUnheard, Receive
  <2>4. ASSUME \/ \E p \in wire : Lose(p)
               \/ \E k \in known : Forget(k)
        PROVE  PostedInv'
    BY <2>4 DEF Lose, Forget
  <2>5. CASE Tick \/ Restart \/ UNCHANGED vars
    BY <2>5 DEF Tick, Restart, vars
  <2>6. QED
    BY <2>1, <2>2, <2>3, <2>4, <2>5 DEF Next
<1>3. QED
  BY <1>1, <1>2, TypeCorrect, PTL DEF Spec

LEMMA OverStays ==
    ASSUME TypeOK, [Next]_vars, NEW c \in Calls, Over(c), pc[c] # "idle"
    PROVE  Over(c)'
<1> USE DEF Over, TypeOK
<1>1. ASSUME NEW d \in Calls, SkipUnaddressed(d) \/ SkipCapped(d) \/ Send(d)
      PROVE  Over(c)'
  BY <1>1 DEF SkipUnaddressed, SkipCapped, Send, Post
<1>2. ASSUME NEW d \in Calls, Progress(d) PROVE Over(c)'
  BY <1>2 DEF Progress, Accept, Reject, Unanswered, Retry, Receive, Post
<1>3. ASSUME NEW p \in wire, AcceptUnheard(p) \/ Lose(p) PROVE Over(c)'
  BY <1>3 DEF AcceptUnheard, Lose, Receive
<1>4. CASE (\E k \in known : Forget(k)) \/ Tick \/ Restart \/ UNCHANGED vars
  BY <1>4 DEF Forget, Tick, Restart, vars
<1>5. QED
  BY <1>1, <1>2, <1>3, <1>4 DEF Next

DeliveryInv ==
    /\ SentMeansAccepted
    /\ OneEmailPerCall
    /\ \A k \in known : \E p \in emails : KeyOf[p[1]] = k
    /\ \A p \in emails : Over(p[1]) \/ KeyOf[p[1]] \in known

\* A received post is the first email of its call, or its key is known and it is
\* none.
LEMMA Receipt ==
    ASSUME TypeOK, DeliveryInv, NEW p \in wire, Receive(p)
    PROVE  /\ p[1] \in Calls
           /\ \/ /\ KeyOf[p[1]] \in known
                 /\ UNCHANGED <<known, emails>>
              \/ /\ KeyOf[p[1]] \notin known
                 /\ \A q \in emails : q[1] # p[1]
                 /\ known' = known \cup {KeyOf[p[1]]}
                 /\ emails' = emails \cup {p}
<1>1. p[1] \in Calls /\ ~Over(p[1])
  BY DEF TypeOK, Over
<1>2. QED
  BY <1>1 DEF Receive, Key, DeliveryInv

LEMMA NextDelivery ==
    ASSUME TypeOK, PostedInv, DeliveryInv, [Next]_vars
    PROVE  DeliveryInv'
<1> USE DEF SentMeansAccepted, OneEmailPerCall
<1>0. \A p \in emails : /\ p[1] \in Calls /\ pc[p[1]] # "idle"
                        /\ Over(p[1]) => Over(p[1])'
  <2> SUFFICES ASSUME NEW p \in emails
               PROVE  /\ p[1] \in Calls /\ pc[p[1]] # "idle"
                      /\ Over(p[1]) => Over(p[1])'
    OBVIOUS
  <2>1. p[1] \in Calls /\ pc[p[1]] # "idle"
    BY DEF TypeOK, PostedInv
  <2>2. QED
    BY <2>1, OverStays
<1>1. ASSUME NEW p \in wire, Receive(p)
      PROVE  /\ emails \subseteq emails' /\ known \subseteq known'
             /\ \E q \in emails' : KeyOf[q[1]] = KeyOf[p[1]]
             /\ OneEmailPerCall'
             /\ \A k \in known' : \E q \in emails' : KeyOf[q[1]] = k
             /\ \A q \in emails' : Over(q[1])' \/ KeyOf[q[1]] \in known'
  BY <1>0, <1>1, Receipt DEF DeliveryInv
<1>2. ASSUME NEW c \in Calls, Accept(c) PROVE DeliveryInv'
  <2>1. <<c, attempt[c]>> \in wire /\ Receive(<<c, attempt[c]>>)
    BY <1>2 DEF Accept
  <2>2. <<c, attempt[c]>>[1] = c
    OBVIOUS
  <2>3. pc' = [pc EXCEPT ![c] = "sent"]
    BY <1>2 DEF Accept
  <2>4. SentMeansAccepted'
    BY <1>1, <2>1, <2>2, <2>3 DEF TypeOK, DeliveryInv
  <2>5. QED
    BY <1>1, <2>1, <2>4 DEF DeliveryInv
<1>3. ASSUME NEW p \in wire, AcceptUnheard(p) PROVE DeliveryInv'
  <2>1. Receive(p) /\ pc' = pc
    BY <1>3 DEF AcceptUnheard
  <2>2. SentMeansAccepted'
    BY <1>1, <2>1 DEF DeliveryInv
  <2>3. QED
    BY <1>1, <2>1, <2>2 DEF DeliveryInv
<1>4. ASSUME emails' = emails, known' = known,
             \A c \in Calls : pc'[c] = "sent" => pc[c] = "sent"
      PROVE  DeliveryInv'
  BY <1>0, <1>4 DEF DeliveryInv
<1>5. ASSUME NEW c \in Calls,
             \/ SkipUnaddressed(c) \/ SkipCapped(c) \/ Send(c)
             \/ Reject(c) \/ Unanswered(c) \/ Retry(c)
      PROVE  DeliveryInv'
  BY <1>4, <1>5
     DEF SkipUnaddressed, SkipCapped, Send, Post, Reject, Unanswered, Retry,
         provider, TypeOK
<1>6. CASE (\E p \in wire : Lose(p)) \/ Tick \/ Restart \/ UNCHANGED vars
  BY <1>4, <1>6 DEF Lose, Tick, Restart, vars, provider, TypeOK
<1>7. ASSUME NEW k \in known, Forget(k) PROVE DeliveryInv'
  <2>1. /\ known' = known \ {k} /\ emails' = emails /\ pc' = pc
        /\ \A p \in emails : KeyOf[p[1]] = k => Over(p[1])
    BY <1>7 DEF Forget
  <2>2. QED
    BY <1>0, <2>1 DEF DeliveryInv
<1>8. QED
  BY <1>2, <1>3, <1>5, <1>6, <1>7 DEF Next, Progress

LEMMA Delivery == Spec => []DeliveryInv
<1>1. Init => DeliveryInv
  BY DEF Init, DeliveryInv, SentMeansAccepted, OneEmailPerCall
<1>2. QED
  BY <1>1, NextDelivery, PostedFromStarted, PTL DEF Spec

\* A call that answers "sent" is right, however late posts arrive.
THEOREM SentIsTrue == Spec => []SentMeansAccepted
BY Delivery, PTL DEF DeliveryInv

\* Retries, timeouts, restarts and forgotten keys never make a call send twice.
THEOREM NoDuplicateEmail == Spec => []OneEmailPerCall
BY Delivery, PTL DEF DeliveryInv

(***************************************************************************)
(* The cap of public forms.  The memory of the process holds exactly its   *)
(* own grants of the last window, so counting the memory counts them.      *)
(***************************************************************************)

IdleUngranted == \A c \in Calls : pc[c] = "idle" => granted[c] = Ungranted

GrantedInPast == \A c \in Calls :
    /\ granted[c].at <= now /\ granted[c].life <= life
    /\ granted[c] # Ungranted => granted[c].life \in Nat

OwnGrantsOnly == \A c \in remembered :
    granted[c].life = life /\ granted[c] # Ungranted

RecentKept == \A c \in Calls :
    granted[c].life = life /\ granted[c].at > now - Window => c \in remembered

MemoryInv == IdleUngranted /\ GrantedInPast /\ OwnGrantsOnly /\ RecentKept

\* The grants that count for the cap are those of the window that ends now.
LEMMA RecentIsWindow ==
    ASSUME TypeOK, MemoryInv, NEW a
    PROVE  {d \in Recent : AddressOf[d] = a} = GrantsInWindow(a, life, now)
BY DEF TypeOK, MemoryInv, GrantedInPast, OwnGrantsOnly, RecentKept, Recent,
       GrantsInWindow

LEMMA WindowFinite ==
    ASSUME NEW a, NEW l, NEW t
    PROVE  /\ IsFiniteSet(GrantsInWindow(a, l, t))
           /\ Cardinality(GrantsInWindow(a, l, t)) \in Nat
<1>1. GrantsInWindow(a, l, t) \subseteq Calls
  BY DEF GrantsInWindow
<1>2. QED
  BY <1>1, CallAssumption, FS_Subset, FS_CardinalityType

LEMMA InitMemory == Init => MemoryInv
BY CapAssumption
   DEF Init, MemoryInv, IdleUngranted, GrantedInPast, OwnGrantsOnly,
       RecentKept, Ungranted

LEMMA NextMemory == TypeOK /\ MemoryInv /\ [Next]_vars => MemoryInv'
<1> SUFFICES ASSUME TypeOK, MemoryInv, [Next]_vars PROVE MemoryInv'
  OBVIOUS
<1> USE CapAssumption
    DEF TypeOK, MemoryInv, IdleUngranted, GrantedInPast, OwnGrantsOnly,
        RecentKept
<1>1. ASSUME NEW c \in Calls, SkipUnaddressed(c) PROVE MemoryInv'
  BY <1>1 DEF SkipUnaddressed
<1>2. ASSUME NEW c \in Calls, SkipCapped(c) PROVE MemoryInv'
  BY <1>2 DEF SkipCapped, Recent
<1>3. ASSUME NEW c \in Calls, Send(c) PROVE MemoryInv'
  <2>1. CASE Grant(c)
    BY <1>3, <2>1 DEF Send, Post, Grant, Recent, Ungranted
  <2>2. CASE UNCHANGED <<remembered, granted>>
    BY <1>3, <2>2 DEF Send, Post
  <2>3. QED
    BY <1>3, <2>1, <2>2 DEF Send
<1>4. ASSUME NEW c \in Calls, Progress(c) PROVE MemoryInv'
  BY <1>4 DEF Progress, Accept, Reject, Unanswered, Retry, Post
<1>5. ASSUME \/ \E p \in wire : AcceptUnheard(p) \/ Lose(p)
             \/ \E k \in known : Forget(k)
      PROVE  MemoryInv'
  BY <1>5 DEF AcceptUnheard, Lose, Forget
<1>6. CASE Tick
  BY <1>6, BoundAssumption DEF Tick
<1>7. CASE Restart
  BY <1>7, BoundAssumption DEF Restart
<1>8. CASE UNCHANGED vars
  BY <1>8 DEF vars
<1>9. QED
  BY <1>1, <1>2, <1>3, <1>4, <1>5, <1>6, <1>7, <1>8 DEF Next

LEMMA Memory == Spec => [](TypeOK /\ MemoryInv)
BY InitMemory, NextMemory, TypeCorrect, PTL DEF Spec

LEMMA AddOne ==
    ASSUME NEW S, NEW x, IsFiniteSet(S), x \notin S
    PROVE  /\ IsFiniteSet(S \cup {x})
           /\ Cardinality(S \cup {x}) = Cardinality(S) + 1
BY FS_AddElement

\* A new grant fills its own window to the cap at most.
LEMMA GrantFits ==
    ASSUME TypeOK, MemoryInv, NEW c \in Calls,
           pc[c] = "idle", Allowed(c), Grant(c), UNCHANGED <<now, life>>
    PROVE  Cardinality(GrantsInWindow(AddressOf[c], life, now)') <= Cap
<1> DEFINE W == GrantsInWindow(AddressOf[c], life, now)
<1>1. IsFiniteSet(W) /\ Cardinality(W) \in Nat /\ Cardinality(W) < Cap
  BY RecentIsWindow, WindowFinite DEF Allowed
<1>2. W' \subseteq W \cup {c}
  BY DEF GrantsInWindow, Grant, TypeOK
<1>3. /\ IsFiniteSet(W \cup {c})
      /\ Cardinality(W \cup {c}) = Cardinality(W) + 1
  <2>1. c \notin W
    BY DEF MemoryInv, IdleUngranted, Ungranted, GrantsInWindow, TypeOK
  <2>2. QED
    BY <1>1, <2>1, AddOne
<1>4. Cardinality(W') <= Cardinality(W \cup {c}) /\ Cardinality(W') \in Nat
  BY <1>2, <1>3, FS_Subset, FS_CardinalityType
<1>5. QED
  BY <1>1, <1>3, <1>4, FS_CardinalityType, CapAssumption

LEMMA NextCap ==
    TypeOK /\ MemoryInv /\ RecipientCap /\ [Next]_vars => RecipientCap'
<1> SUFFICES ASSUME TypeOK, MemoryInv, RecipientCap, [Next]_vars
             PROVE  RecipientCap'
  OBVIOUS
<1>1. ASSUME UNCHANGED granted PROVE RecipientCap'
  BY <1>1 DEF RecipientCap, GrantsInWindow
<1>2. ASSUME NEW c \in Calls, pc[c] = "idle", Allowed(c), Grant(c),
             UNCHANGED <<now, life>>
      PROVE  RecipientCap'
  <2> SUFFICES ASSUME NEW d \in Calls, granted'[d] # Ungranted
               PROVE  Cardinality(GrantsInWindow(AddressOf[d],
                          granted[d].life, granted[d].at)') <= Cap
    BY DEF RecipientCap
  <2>1. granted' = [granted EXCEPT ![c] = [at |-> now, life |-> life]]
    BY <1>2 DEF Grant
  <2>2. CASE /\ AddressOf[d] = AddressOf[c]
             /\ granted'[d].life = life /\ granted'[d].at = now
    <3>1. GrantsInWindow(AddressOf[d], granted[d].life, granted[d].at)'
            = GrantsInWindow(AddressOf[c], life, now)'
      BY <1>2, <2>2
    <3>2. QED
      BY <1>2, <3>1, GrantFits
  <2>3. CASE ~(/\ AddressOf[d] = AddressOf[c]
               /\ granted'[d].life = life /\ granted'[d].at = now)
    <3>1. d # c /\ granted'[d] = granted[d]
      BY <2>1, <2>3 DEF TypeOK
    <3>2. granted[d].at \in Int /\ granted[d].at <= now /\ now \in Int
      BY DEF TypeOK, MemoryInv, GrantedInPast
    <3>3. GrantsInWindow(AddressOf[d], granted[d].life, granted[d].at)'
            = GrantsInWindow(AddressOf[d], granted[d].life, granted[d].at)
      <4>1. c \notin GrantsInWindow(AddressOf[d], granted[d].life, granted[d].at)
        BY <1>2, <3>1 DEF MemoryInv, IdleUngranted, GrantedInPast, Ungranted,
                          GrantsInWindow
      <4>2. c \notin GrantsInWindow(AddressOf[d], granted[d].life,
                                     granted[d].at)'
        <5>1. granted'[c].at = now /\ granted'[c].life = life
          BY <2>1 DEF TypeOK
        <5>2. granted'[d].life = granted[d].life /\ granted'[d].at = granted[d].at
          BY <3>1
        <5>3. now <= granted[d].at => granted[d].at = now
          BY <3>2
        <5>4. QED
          BY <2>3, <5>1, <5>2, <5>3 DEF GrantsInWindow
      <4>3. \A e \in Calls : e # c => granted'[e] = granted[e]
        BY <2>1 DEF TypeOK
      <4>4. QED
        BY <3>1, <4>1, <4>2, <4>3 DEF GrantsInWindow
    <3>4. QED
      BY <3>1, <3>3 DEF RecipientCap
  <2>4. QED
    BY <2>2, <2>3
<1>3. ASSUME NEW c \in Calls, Send(c) PROVE RecipientCap'
  BY <1>1, <1>2, <1>3 DEF Send
<1>4. ASSUME NEW c \in Calls, SkipUnaddressed(c) \/ SkipCapped(c) \/ Progress(c)
      PROVE  RecipientCap'
  BY <1>1, <1>4 DEF SkipUnaddressed, SkipCapped, Progress, Accept, Reject,
                    Unanswered, Retry
<1>5. CASE \/ \E p \in wire : AcceptUnheard(p) \/ Lose(p)
           \/ \E k \in known : Forget(k)
           \/ Tick \/ Restart \/ UNCHANGED vars
  BY <1>1, <1>5 DEF AcceptUnheard, Lose, Forget, Tick, Restart, vars
<1>6. QED
  BY <1>3, <1>4, <1>5 DEF Next

\* Public forms send an address at most Cap emails in any window of a process.
THEOREM AddressIsSpared == Spec => []RecipientCap
<1>1. Init => RecipientCap
  BY DEF Init, RecipientCap
<1>2. QED
  BY <1>1, NextCap, Memory, PTL DEF Spec

\* The cap never refuses an address that has not had its Cap emails.
THEOREM CapRefusesRightly == Spec => SkippedOnlyAtCap
<1>1. ASSUME TypeOK, MemoryInv, [Next]_vars
      PROVE  \A c \in Calls :
                pc[c] = "idle" /\ pc'[c] = "skipped"
                    /\ AddressOf[c] # NoAddress =>
                  Cardinality(GrantsInWindow(AddressOf[c], life, now)) >= Cap
  <2> SUFFICES ASSUME NEW c \in Calls, pc[c] = "idle", pc'[c] = "skipped",
                      AddressOf[c] # NoAddress
               PROVE  Cardinality(GrantsInWindow(AddressOf[c], life, now)) >= Cap
    OBVIOUS
  <2>0. pc \in [Calls -> {"idle", "posted", "backoff"} \cup Results]
    BY <1>1 DEF TypeOK
  <2>1. ~Allowed(c)
    <3>1. ASSUME NEW d \in Calls,
                 \/ SkipUnaddressed(d) \/ SkipCapped(d) \/ Send(d) \/ Progress(d)
          PROVE  ~Allowed(c)
      <4> USE <1>1, <2>0
      <4>1. d = c
        <5> SUFFICES ASSUME d # c PROVE FALSE
          OBVIOUS
        <5>1. CASE SkipUnaddressed(d) \/ SkipCapped(d)
          BY <5>1 DEF SkipUnaddressed, SkipCapped
        <5>2. CASE Send(d) \/ Retry(d)
          BY <5>2 DEF Send, Retry, Post
        <5>3. CASE Accept(d) \/ Reject(d) \/ Unanswered(d)
          BY <5>3 DEF Accept, Reject, Unanswered
        <5>4. QED
          BY <3>1, <5>1, <5>2, <5>3 DEF Progress
      <4>2. ~SkipUnaddressed(d)
        BY <4>1 DEF SkipUnaddressed
      <4>3. ~Send(d)
        BY <4>1 DEF Send, Post
      <4>4. ~Progress(d)
        BY <4>1 DEF Progress, Accept, Reject, Unanswered, Retry
      <4>5. ~Allowed(d)
        BY <3>1, <4>2, <4>3, <4>4 DEF SkipCapped
      <4>6. QED
        BY <4>1, <4>5, Zenon
    <3>2. ~(\/ \E p \in wire : AcceptUnheard(p) \/ Lose(p)
            \/ \E k \in known : Forget(k)
            \/ Tick \/ Restart \/ UNCHANGED vars)
      BY DEF AcceptUnheard, Lose, Forget, Tick, Restart, vars, TypeOK
    <3>3. QED
      BY <1>1, <3>1, <3>2 DEF Next
  <2>2. QED
    BY <1>1, <2>1, RecentIsWindow, WindowFinite, CapAssumption DEF Allowed
<1>2. QED
  BY <1>1, Memory, PTL DEF Spec, SkippedOnlyAtCap

(***************************************************************************)
(* What callers see: EmailService implements OutgoingMail.  An email that  *)
(* leaves is a post on the wire, which belongs to a call that has begun;   *)
(* there are never two emails of one call to count; and the memory of the  *)
(* process decides as all grants together would.                           *)
(***************************************************************************)

OutgoingInv == TypeOK /\ MemoryInv /\ PostedInv /\ DeliveryInv

answerBar == [c \in Calls |-> CallersView(c)]
sentBar == [c \in Calls |-> Cardinality(EmailsOf(c))]

\* How a call looks to its caller follows from its pc alone.
LEMMA ViewChanges ==
    ASSUME TypeOK, NEW c \in Calls, NEW v, pc' = [pc EXCEPT ![c] = v],
           NEW w, w = CASE v = "idle"                   -> "none"
                        [] v \in {"posted", "backoff"} -> "pending"
                        [] OTHER                        -> v
    PROVE  answerBar' = [answerBar EXCEPT ![c] = w]
BY DEF answerBar, CallersView, TypeOK

\* A post that the provider takes is the email of its call, or sends nothing as
\* one of its key is recent.
LEMMA ReceiptCounts ==
    ASSUME OutgoingInv, NEW p \in wire, Receive(p)
    PROVE  /\ p[1] \in Calls
           /\ \/ Outbox!Leaves(p[1])
              \/ KeyOf[p[1]] \in known /\ UNCHANGED <<sentBar, known>>
<1>1. TypeOK /\ DeliveryInv
  BY DEF OutgoingInv
<1>2. p[1] \in Calls
  BY <1>1, Receipt
<1>3. CASE UNCHANGED <<known, emails>> /\ KeyOf[p[1]] \in known
  BY <1>2, <1>3 DEF sentBar, EmailsOf
<1>4. CASE /\ KeyOf[p[1]] \notin known
           /\ \A q \in emails : q[1] # p[1]
           /\ known' = known \cup {KeyOf[p[1]]}
           /\ emails' = emails \cup {p}
  <2>1. EmailsOf(p[1]) = {} /\ EmailsOf(p[1])' = {p}
    BY <1>4 DEF EmailsOf
  <2>2. \A c \in Calls : c # p[1] => EmailsOf(c)' = EmailsOf(c)
    BY <1>4 DEF EmailsOf
  <2>3. Cardinality(EmailsOf(p[1])) = 0 /\ Cardinality(EmailsOf(p[1])') = 1
    BY <2>1, FS_EmptySet, FS_Singleton
  <2>4. sentBar[p[1]] = 0 /\ sentBar' = [sentBar EXCEPT ![p[1]] = 1]
    BY <1>2, <2>2, <2>3 DEF sentBar
  <2> QED  BY <1>2, <1>4, <2>4 DEF Outbox!Leaves, sentBar
<1> QED  BY <1>1, <1>3, <1>4, Receipt

\* A public form finds no room in the memory exactly when its address has had
\* its share of the window.
LEMMA MemoryDecides ==
    ASSUME OutgoingInv, NEW c \in Calls
    PROVE  Outbox!Full(c) <=> c \in PublicForm /\ ~Allowed(c)
<1> DEFINE W == GrantsInWindow(AddressOf[c], life, now)
<1>1. TypeOK /\ MemoryInv
  BY DEF OutgoingInv
<1>2. Outbox!Share(c) = W
  BY <1>1, CapAssumption
     DEF Outbox!Share, GrantsInWindow, MemoryInv, GrantedInPast
<1>3. {d \in Recent : AddressOf[d] = AddressOf[c]} = W
  BY <1>1, RecentIsWindow
<1>4. Cardinality(W) \in Nat
  BY WindowFinite
<1>5. Allowed(c) <=> Cardinality(W) < Cap
  BY <1>3 DEF Allowed
<1>6. Outbox!Full(c) <=> c \in PublicForm /\ Cardinality(W) >= Cap
  <2>1. Outbox!Cardinality(W) = Cardinality(W)
    BY DEF Outbox!Cardinality, Cardinality
  <2> QED  BY <1>2, <2>1 DEF Outbox!Full
<1> HIDE DEF W
<1> QED  BY <1>4, <1>5, <1>6, CapAssumption

\* What one step of EmailService is to its callers.
LEMMA StepsOutgoing ==
    OutgoingInv /\ [Next]_vars => [Outbox!Next]_(Outbox!vars)
<1> DEFINE seen == <<now, life, answerBar, sentBar, known, granted>>
<1> SUFFICES ASSUME OutgoingInv, [Next]_vars
             PROVE  Outbox!Next \/ UNCHANGED seen
  BY DEF Outbox!vars, answerBar, sentBar
<1> USE DEF Outbox!Answers, provider
<1>1. TypeOK /\ PostedInv
  BY DEF OutgoingInv
<1>2. ASSUME NEW c \in Calls
      PROVE  /\ answerBar[c] = CallersView(c)
             /\ emails' = emails => sentBar' = sentBar
  BY DEF answerBar, sentBar, EmailsOf
<1>3. ASSUME NEW c \in Calls, SkipUnaddressed(c) \/ SkipCapped(c)
      PROVE  Outbox!Skip(c)
  <2>1. /\ CallersView(c) = "none" /\ UNCHANGED <<emails, known>>
        /\ pc' = [pc EXCEPT ![c] = "skipped"]
        /\ AddressOf[c] = NoAddress \/ (c \in PublicForm /\ ~Allowed(c))
        /\ UNCHANGED <<now, life, granted>>
    BY <1>3 DEF SkipUnaddressed, SkipCapped, CallersView
  <2>2. answerBar' = [answerBar EXCEPT ![c] = "skipped"]
    BY <1>1, <2>1, ViewChanges
  <2> QED  BY <1>2, <2>1, <2>2, MemoryDecides DEF Outbox!Skip, answerBar, sentBar
<1>4. ASSUME NEW c \in Calls, Send(c) PROVE Outbox!Begin(c)
  <2>1. /\ CallersView(c) = "none" /\ UNCHANGED <<emails, known>>
        /\ pc' = [pc EXCEPT ![c] = "posted"]
        /\ AddressOf[c] # NoAddress /\ ~(c \in PublicForm /\ ~Allowed(c))
        /\ granted' = IF c \in PublicForm
                      THEN [granted EXCEPT ![c] = [at |-> now, life |-> life]]
                      ELSE granted
        /\ UNCHANGED <<now, life>>
    BY <1>4 DEF Send, Post, Grant, CallersView
  <2>2. answerBar' = [answerBar EXCEPT ![c] = "pending"]
    BY <1>1, <2>1, ViewChanges
  <2> QED  BY <1>2, <2>1, <2>2, MemoryDecides DEF Outbox!Begin, answerBar, sentBar
<1>5. ASSUME NEW c \in Calls, Accept(c) PROVE Outbox!Confirm(c)
  <2>1. /\ <<c, attempt[c]>> \in wire /\ Receive(<<c, attempt[c]>>)
        /\ CallersView(c) = "pending" /\ pc' = [pc EXCEPT ![c] = "sent"]
        /\ UNCHANGED <<now, life, granted>>
    BY <1>5 DEF Accept, CallersView
  <2>2. answerBar' = [answerBar EXCEPT ![c] = "sent"]
    BY <1>1, <2>1, ViewChanges
  <2>3. \/ Outbox!Leaves(c)
        \/ KeyOf[c] \in known /\ UNCHANGED <<sentBar, known>>
    <3>1. <<c, attempt[c]>>[1] = c
      OBVIOUS
    <3> QED  BY <2>1, <3>1, ReceiptCounts
  <2> QED  BY <1>2, <2>1, <2>2, <2>3 DEF Outbox!Confirm, answerBar, sentBar
<1>6. ASSUME NEW p \in wire, AcceptUnheard(p)
      PROVE  Outbox!Next \/ UNCHANGED seen
  <2>1. Receive(p) /\ pc' = pc /\ UNCHANGED <<now, life, granted>>
    BY <1>6 DEF AcceptUnheard
  <2>2. answerBar' = answerBar /\ p[1] \in Calls
    BY <2>1, ReceiptCounts DEF answerBar, CallersView
  <2>3. CASE UNCHANGED <<sentBar, known>>
    BY <2>1, <2>2, <2>3
  <2>4. CASE Outbox!Leaves(p[1])
    <3>1. CallersView(p[1]) \notin {"none", "skipped"}
      <4>1. pc[p[1]] \in {"posted", "backoff"} \cup (Results \ {"skipped"})
        BY <1>1, <2>2 DEF TypeOK, PostedInv
      <4> QED  BY <4>1 DEF CallersView, Results
    <3>2. Outbox!Leave(p[1])
      BY <1>2, <2>1, <2>2, <2>4, <3>1 DEF Outbox!Leave, answerBar
    <3> QED  BY <2>2, <3>2 DEF Outbox!Next
  <2> QED  BY <2>1, <2>3, <2>4, ReceiptCounts
<1>7. ASSUME NEW c \in Calls, Reject(c) \/ Unanswered(c) \/ Retry(c)
      PROVE  Outbox!GiveUp(c) \/ UNCHANGED seen
  <2>1. PICK v \in {"failed", "backoff", "posted"} :
             /\ UNCHANGED <<emails, known>> /\ pc' = [pc EXCEPT ![c] = v]
             /\ UNCHANGED <<now, life, granted>>
    BY <1>7 DEF Reject, Unanswered, Retry, Post
  <2>2. CallersView(c) = "pending"
    BY <1>7 DEF Reject, Unanswered, Retry, CallersView
  <2>3. CASE v = "failed"
    <3>1. answerBar' = [answerBar EXCEPT ![c] = "failed"]
      BY <1>1, <2>1, <2>3, ViewChanges
    <3> QED  BY <1>2, <2>1, <2>2, <3>1 DEF Outbox!GiveUp, answerBar, sentBar
  <2>4. CASE v # "failed"
    <3>1. answerBar' = [answerBar EXCEPT ![c] = "pending"]
      BY <1>1, <2>1, <2>4, ViewChanges
    <3> QED  BY <1>2, <2>1, <2>2, <3>1 DEF answerBar
  <2> QED  BY <2>3, <2>4
<1>8. CASE Restart
  <2>1. /\ UNCHANGED <<emails, known>> /\ life' = life + 1
        /\ UNCHANGED <<now, granted>>
        /\ pc' = [c \in Calls |->
                    IF pc[c] \in {"posted", "backoff"} THEN "lost" ELSE pc[c]]
    BY <1>8 DEF Restart
  <2>2. answerBar' = [c \in Calls |-> IF answerBar[c] = "pending" THEN "lost"
                                                            ELSE answerBar[c]]
    BY <1>1, <2>1 DEF answerBar, CallersView, TypeOK, Results
  <2>3. sentBar' = sentBar
    BY <2>1 DEF sentBar, EmailsOf
  <2> QED  BY <2>1, <2>2, <2>3 DEF Outbox!Next, Outbox!Die, answerBar, sentBar
<1>9. CASE Tick
  <2>1. UNCHANGED <<answerBar, sentBar>>
    BY <1>9 DEF Tick, answerBar, sentBar, CallersView, EmailsOf
  <2> QED  BY <1>9, <2>1 DEF Tick, Outbox!Next, Outbox!Tick, answerBar, sentBar
<1>10. CASE UNCHANGED vars \/ \E p \in wire : Lose(p)
  BY <1>10 DEF vars, Lose, answerBar, sentBar, CallersView, EmailsOf
<1>11. ASSUME NEW k \in known, Forget(k) PROVE Outbox!Pass(k)
  <2>1. /\ known' = known \ {k}
        /\ UNCHANGED <<now, life, answerBar, sentBar, granted>>
    BY <1>11 DEF Forget, answerBar, sentBar, CallersView, EmailsOf
  <2>2. ASSUME NEW c \in Calls, KeyOf[c] = k, sentBar[c] > 0
        PROVE  answerBar[c] # "pending"
    <3>1. EmailsOf(c) # {}
      BY <2>2, FS_EmptySet DEF sentBar
    <3>2. Over(c)
      BY <1>11, <2>2, <3>1 DEF Forget, EmailsOf
    <3>3. pc[c] \in {"idle"} \cup Results
      BY <1>1, <3>2 DEF Over, TypeOK
    <3> QED  BY <1>2, <3>3 DEF CallersView, Results
  <2> QED  BY <2>1, <2>2 DEF Outbox!Pass, answerBar, sentBar
<1> QED
  BY <1>3, <1>4, <1>5, <1>6, <1>7, <1>8, <1>9, <1>10, <1>11
     DEF Next, Progress, Outbox!Next

\* Whatever posts, answers, timeouts and restarts do, callers of send() see
\* OutgoingMail: an email leaves once at most per call, only for a call that has
\* begun, and not while one of its key is recent.
THEOREM MailIsOutgoing == Spec => ImplementsOutgoingMail
<1>1. Init => Outbox!Init
  BY FS_EmptySet DEF Init, Ungranted, Outbox!Init, CallersView, EmailsOf
<1>2. QED
  BY <1>1, StepsOutgoing, Memory, PostedFromStarted, Delivery, PTL
     DEF OutgoingInv, Spec, ImplementsOutgoingMail, Outbox!Spec

-----------------------------------------------------------------------------
(* The forms *)

(***************************************************************************)
(* Every step of the forms is a step of EmailService, or leaves it alone.  *)
(***************************************************************************)

LEMMA FormsStepIsEmailStep == [FormsNext]_formsVars => [Next]_vars
<1> SUFFICES ASSUME [FormsNext]_formsVars PROVE [Next]_vars
  OBVIOUS
<1>1. ASSUME NEW f \in Submissions, Submit(f) \/ Ignore(f) \/ Handle(f)
      PROVE  UNCHANGED vars
  BY <1>1 DEF Submit, Ignore, Handle, FindSubscriber, FindCourse, Store,
              StoreError, StoreUnacknowledged, AnswerForm
<1>2. ASSUME NEW c \in Calls, StartMail(c) PROVE Next
  BY <1>2 DEF StartMail, Next
<1>3. CASE Staff
  BY <1>3 DEF Staff, SetActive, DeleteRow
<1>4. CASE Deliver \/ \E k \in known : Expire(k)
  BY <1>4 DEF Deliver, Expire, Next
<1>5. CASE FormsRestart
  BY <1>5 DEF FormsRestart, Next
<1>6. CASE UNCHANGED formsVars
  BY <1>6 DEF formsVars
<1>7. QED
  BY <1>1, <1>2, <1>3, <1>4, <1>5, <1>6 DEF FormsNext

\* The forms compose with EmailService without changing it.
THEOREM FormsImplementEmailService == FormsSpec => Spec
BY FormsStepIsEmailStep, PTL DEF FormsSpec, Spec, FormsInit

\* So a form never floods an address, nor reports "sent" for nothing.
THEOREM FormsSendSafely ==
    FormsSpec => [](RecipientCap /\ SentMeansAccepted) /\ SkippedOnlyAtCap
BY FormsImplementEmailService, AddressIsSpared, SentIsTrue, CapRefusesRightly,
   PTL

\* To a form, too, sending is as simple as OutgoingMail.
THEOREM FormsMailIsOutgoing == FormsSpec => ImplementsOutgoingMail
BY FormsImplementEmailService, MailIsOutgoing

(***************************************************************************)
(* Types.                                                                  *)
(***************************************************************************)

LEMMA StoreRowTypes ==
    ASSUME FormsTypeOK, NEW f \in Submissions, StoreRow(f)
    PROVE  /\ rowOf' \in [Submissions -> SUBSET Submissions]
           /\ active' \subseteq rows' /\ rows' \subseteq stored'
           /\ stored' \subseteq Submissions
           /\ mailed' \subseteq mailed
BY DEF StoreRow, Activate, FormsTypeOK, Subscription, Newsletters

\* What a call of send is about.
LEMMA CallShape ==
    ASSUME NEW c \in Calls
    PROVE  /\ c.form \in Submissions /\ c.row \in Submissions
           /\ c.to \in {"customer", "admin"}
           /\ KeyOf[c] = <<c.row, c.to>>
BY CompositionAssumption DEF FormCalls, FormKey, Newsletters, Enquiries

LEMMA RecordTypes ==
    ASSUME FormsTypeOK, TypeOK', Record
    PROVE  /\ mailed' \subseteq Submissions \X {"customer", "admin"}
           /\ waiting' \subseteq Keys \X Submissions
<1>1. ASSUME NEW p \in emails'
      PROVE  <<p[1].row, p[1].to>> \in Submissions \X {"customer", "admin"}
  <2>1. p[1] \in Calls
    BY <1>1 DEF TypeOK
  <2> QED  BY <2>1, CallShape
<1>2. known' \subseteq Keys
  BY DEF TypeOK
<1> QED
  BY <1>1, <1>2 DEF Record, FormsTypeOK

LEMMA NextFormsType ==
    ASSUME FormsTypeOK, TypeOK', [FormsNext]_formsVars
    PROVE  FormsTypeOK'
<1> USE DEF FormsTypeOK, FormAnswers
<1>1. ASSUME NEW f \in Submissions, Submit(f) \/ Ignore(f) PROVE FormsTypeOK'
  BY <1>1 DEF Submit, Ignore
<1>2. ASSUME NEW f \in Submissions, FindSubscriber(f) \/ FindCourse(f)
      PROVE  FormsTypeOK'
  BY <1>2 DEF FindSubscriber, FindCourse
<1>3. ASSUME NEW f \in Submissions, Store(f) \/ StoreUnacknowledged(f)
      PROVE  FormsTypeOK'
  <2>1. StoreRow(f)
    BY <1>3 DEF Store, StoreUnacknowledged
  <2>2. /\ UNCHANGED <<found, waiting>>
        /\ \E a \in {"mail", "accepted", "failed"} : form' = [form EXCEPT ![f] = a]
    BY <1>3 DEF Store, StoreUnacknowledged
  <2>3. QED
    BY <2>1, <2>2, StoreRowTypes
<1>4. ASSUME NEW f \in Submissions, StoreError(f) \/ AnswerForm(f)
      PROVE  FormsTypeOK'
  BY <1>4 DEF StoreError, AnswerForm
<1>5. CASE (\E c \in Calls : StartMail(c)) \/ UNCHANGED formsVars
  BY <1>5 DEF StartMail, formsVars, formVars, handlerVars
<1>d. CASE Deliver
  BY <1>d, RecordTypes DEF Deliver, Record, handlerVars
<1>e. ASSUME NEW k \in known, Expire(k) PROVE FormsTypeOK'
  BY <1>e DEF Expire, handlerVars
<1>6. ASSUME NEW r \in Submissions, SetActive(r) \/ DeleteRow(r)
      PROVE  FormsTypeOK'
  <2>1. Outdated(r) \in [Submissions -> {"nobody", "active", "stale"}]
    BY DEF Outdated
  <2>2. QED
    BY <1>6, <2>1 DEF SetActive, Activate, DeleteRow
<1>7. CASE FormsRestart
  BY <1>7 DEF FormsRestart
<1>8. QED
  BY <1>1, <1>2, <1>3, <1>4, <1>5, <1>d, <1>e, <1>6, <1>7
     DEF FormsNext, Handle, Staff

\* Every variable keeps its type, whatever forms, staff and the network do.
THEOREM FormsTypeCorrect == FormsSpec => []FormsTypeOK
<1>1. FormsInit /\ TypeOK => FormsTypeOK
  BY DEF FormsInit, FormsTypeOK
<1>2. FormsTypeOK /\ TypeOK' /\ [FormsNext]_formsVars => FormsTypeOK'
  BY NextFormsType
<1>3. FormsSpec => []TypeOK
  BY FormsImplementEmailService, TypeCorrect, PTL
<1>4. QED
  BY <1>1, <1>2, <1>3, PTL DEF FormsSpec

(***************************************************************************)
(* What is told.  A call belongs to a submission that is past storing its  *)
(* row once it has started, and a submission owns the row of its identity  *)
(* until it stores one.                                                    *)
(***************************************************************************)

StoredInv == \A f \in Submissions :
    /\ rowOf[f] \subseteq stored
    /\ form[f] \in {"mail", "accepted"} => rowOf[f] # {}
    /\ form[f] \in {"idle", "find", "store", "refused", "ignored"} => f \notin stored

StartedInv == \A c \in Calls : pc[c] # "idle" => c.row \in stored

LEMMA NextStored ==
    ASSUME FormsTypeOK, StoredInv, [FormsNext]_formsVars
    PROVE  StoredInv'
<1> USE DEF FormsTypeOK, StoredInv
<1>1. ASSUME NEW f \in Submissions, Submit(f) \/ Ignore(f) PROVE StoredInv'
  BY <1>1 DEF Submit, Ignore, MayPost
<1>2. ASSUME NEW f \in Submissions, FindSubscriber(f) \/ FindCourse(f)
      PROVE  StoredInv'
  BY <1>2 DEF FindSubscriber, FindCourse
<1>3. ASSUME NEW f \in Submissions, Store(f) \/ StoreUnacknowledged(f)
      PROVE  StoredInv'
  <2>1. PICK R \in SUBSET Submissions :
            /\ R # {} /\ R \subseteq rows \cup {f}
            /\ rowOf' = [rowOf EXCEPT ![f] = R]
            /\ stored' = stored \cup R
    BY <1>3 DEF Store, StoreUnacknowledged, StoreRow, Subscription
  <2>2. /\ form[f] = "store"
        /\ \E a \in {"mail", "accepted", "failed"} : form' = [form EXCEPT ![f] = a]
    BY <1>3 DEF Store, StoreUnacknowledged, StoreRow
  <2>3. QED
    BY <2>1, <2>2
<1>4. ASSUME NEW f \in Submissions, StoreError(f) \/ AnswerForm(f)
      PROVE  StoredInv'
  BY <1>4 DEF StoreError, AnswerForm
<1>5. CASE \/ \E c \in Calls : StartMail(c)
           \/ \E k \in known : Expire(k)
           \/ Staff \/ Deliver \/ UNCHANGED formsVars
  BY <1>5 DEF StartMail, Expire, Staff, SetActive, DeleteRow, Deliver, Record,
              formsVars, formVars, handlerVars
<1>6. CASE FormsRestart
  BY <1>6 DEF FormsRestart
<1>7. QED
  BY <1>1, <1>2, <1>3, <1>4, <1>5, <1>6 DEF FormsNext, Handle

LEMMA NextStarted ==
    ASSUME FormsTypeOK, StoredInv, StartedInv, [FormsNext]_formsVars
    PROVE  StartedInv'
<1> USE DEF FormsTypeOK, TypeOK, StartedInv
<1>1. stored \subseteq stored'
  BY DEF FormsNext, Handle, Submit, Ignore, FindSubscriber, FindCourse, Store,
         StoreError, StoreUnacknowledged, StoreRow, AnswerForm, StartMail, Staff,
         SetActive, DeleteRow, Deliver, Record, Expire, FormsRestart, formsVars,
         formVars, handlerVars
<1>2. ASSUME \A c \in Calls : pc'[c] # "idle" => pc[c] # "idle"
      PROVE  StartedInv'
  BY <1>1, <1>2
<1>3. ASSUME NEW c \in Calls, StartMail(c) PROVE StartedInv'
  <2>1. c.row \in stored
    BY <1>3, CompositionAssumption DEF StartMail, Mails, FormCalls,
                                            Newsletters, Enquiries, StoredInv
  <2>2. \A d \in Calls \ {c} : pc'[d] = pc[d]
    BY <1>3 DEF StartMail, SkipUnaddressed, SkipCapped, Send, Post
  <2>3. QED
    BY <1>1, <2>1, <2>2
<1>4. CASE Deliver
  <2>1. ASSUME NEW c \in Calls, Progress(c) PROVE StartedInv'
    BY <1>2, <2>1 DEF Progress, Accept, Reject, Unanswered, Retry, Post
  <2>2. ASSUME NEW p \in wire, AcceptUnheard(p) \/ Lose(p) PROVE StartedInv'
    BY <1>2, <2>2 DEF AcceptUnheard, Lose
  <2>3. QED
    BY <1>2, <1>4, <2>1, <2>2 DEF Deliver, Tick
<1>5. CASE FormsRestart
  BY <1>2, <1>5 DEF FormsRestart, Restart
<1>6. ASSUME UNCHANGED vars PROVE StartedInv'
  BY <1>2, <1>6 DEF vars
<1>7. ASSUME NEW k \in known, Expire(k) PROVE StartedInv'
  BY <1>2, <1>7 DEF Expire, Forget
<1>8. QED
  BY <1>3, <1>4, <1>5, <1>6, <1>7
     DEF FormsNext, Handle, Submit, Ignore, FindSubscriber, FindCourse, Store,
         StoreError, StoreUnacknowledged, AnswerForm, Staff, SetActive, DeleteRow,
         formsVars

LEMMA Stored == FormsSpec => [](StoredInv /\ StartedInv)
<1>1. FormsInit => StoredInv /\ StartedInv
  BY DEF FormsInit, Init, StoredInv, StartedInv
<1>2. FormsTypeOK /\ StoredInv /\ StartedInv /\ [FormsNext]_formsVars
          => (StoredInv /\ StartedInv)'
  BY NextStored, NextStarted
<1>3. QED
  BY <1>1, <1>2, FormsTypeCorrect, PTL DEF FormsSpec

\* Visitors, staff and readers are told the truth: an answer fits what was
\* stored, and an email is about a stored row.
THEOREM FormsAreTruthful == FormsSpec => []FormsTellTheTruth
<1>1. TypeOK /\ PostedInv /\ StoredInv /\ StartedInv => FormsTellTheTruth
  <2> SUFFICES ASSUME TypeOK, PostedInv, StoredInv, StartedInv
               PROVE  FormsTellTheTruth
    OBVIOUS
  <2>1. \A p \in emails : p[1] \in Calls
    BY DEF TypeOK
  <2>2. QED
    BY <2>1 DEF PostedInv, StoredInv, StartedInv, FormsTellTheTruth
<1>2. FormsSpec => [](TypeOK /\ PostedInv)
  BY FormsImplementEmailService, PostedFromStarted, PTL
<1>3. QED
  BY <1>1, <1>2, Stored, PTL

(***************************************************************************)
(* The newsletter: what a form found stays true until it stores, unless    *)
(* staff outdate it, and the upsert then finds the active row again.       *)
(***************************************************************************)

LEMMA StoreRowKeepsFound ==
    ASSUME FormsTypeOK, OneRowPerAddress, FoundInv, NEW f \in Submissions,
           StoreRow(f), UNCHANGED found
    PROVE  OneRowPerAddress' /\ FoundInv'
<1> USE DEF FormsTypeOK
<1>1. CASE f \in Newsletters /\ Subscription(f) # {}
  <2>1. rows' = rows /\ active \subseteq active'
    BY <1>1 DEF StoreRow, Subscription
  <2>2. QED
    BY <2>1 DEF OneRowPerAddress, FoundInv, Subscription
<1>2. CASE ~(f \in Newsletters /\ Subscription(f) # {})
  <2>1. rows' = rows \cup {f} /\ active \subseteq active'
    BY <1>2 DEF StoreRow
  <2>2. OneRowPerAddress'
    BY <1>2, <2>1 DEF OneRowPerAddress, Subscription
  <2>3. FoundInv'
    BY <2>1 DEF FoundInv, Subscription
  <2>4. QED
    BY <2>2, <2>3
<1>3. QED
  BY <1>1, <1>2

LEMMA NextFound ==
    ASSUME FormsTypeOK, OneRowPerAddress, FoundInv, [FormsNext]_formsVars
    PROVE  OneRowPerAddress' /\ FoundInv'
<1> USE DEF FormsTypeOK
<1>1. ASSUME UNCHANGED <<found, rows, active>>
      PROVE  OneRowPerAddress' /\ FoundInv'
  BY <1>1 DEF OneRowPerAddress, FoundInv, Subscription
<1>2. ASSUME NEW f \in Submissions, FindSubscriber(f)
      PROVE  OneRowPerAddress' /\ FoundInv'
  BY <1>2 DEF FindSubscriber, OneRowPerAddress, FoundInv, Subscription
<1>3. ASSUME NEW f \in Submissions, Store(f) \/ StoreUnacknowledged(f)
      PROVE  OneRowPerAddress' /\ FoundInv'
  BY <1>3, StoreRowKeepsFound DEF Store, StoreUnacknowledged
<1>4. ASSUME NEW r \in Submissions, SetActive(r) \/ DeleteRow(r)
      PROVE  OneRowPerAddress' /\ FoundInv'
  <2>1. rows' \subseteq rows
    BY <1>4 DEF SetActive, DeleteRow
  <2>2. OneRowPerAddress'
    BY <2>1 DEF OneRowPerAddress
  <2>3. CASE SetActive(r) /\ active' = active \cup {r} /\ UNCHANGED found
    BY <2>2, <2>3 DEF SetActive, FoundInv, Subscription
  <2>4. CASE active' = active \ {r} /\ found' = Outdated(r)
             /\ (rows' = rows \/ rows' = rows \ {r})
    <3>1. ASSUME NEW f \in Newsletters, found'[f] = "active"
          PROVE  Subscription(f)' \cap active' # {}
      <4>1. f \in Submissions /\ found[f] = "active" /\ r \notin Subscription(f)
        BY <2>4, <3>1 DEF Outdated, Newsletters
      <4>2. Subscription(f) \cap active # {}
        BY <4>1 DEF FoundInv
      <4>3. QED
        BY <2>4, <4>1, <4>2 DEF Subscription
    <3>2. QED
      BY <2>2, <3>1 DEF FoundInv
  <2>5. QED
    BY <1>4, <2>3, <2>4 DEF SetActive, DeleteRow
<1>5. QED
  BY <1>1, <1>2, <1>3, <1>4
     DEF FormsNext, Handle, Submit, Ignore, FindCourse, StoreError, AnswerForm,
         StartMail, Staff, Deliver, Record, Expire, FormsRestart, formsVars,
         formVars, handlerVars

\* A subscription that becomes active is welcomed, unless staff had ended it
\* behind the back of the form.
THEOREM SilenceIsEarned == FormsSpec => ActivationIsWelcomed
<1>1. FormsInit => OneRowPerAddress /\ FoundInv
  BY DEF FormsInit, OneRowPerAddress, FoundInv, Newsletters
<1>2. FormsSpec => [](FormsTypeOK /\ OneRowPerAddress /\ FoundInv)
  <2>1. FormsTypeOK /\ OneRowPerAddress /\ FoundInv /\ [FormsNext]_formsVars
            => (OneRowPerAddress /\ FoundInv)'
    BY NextFound
  <2>2. QED
    BY <1>1, <2>1, FormsTypeCorrect, PTL DEF FormsSpec
<1>3. ASSUME FormsTypeOK, OneRowPerAddress, FoundInv, [FormsNext]_formsVars
      PROVE  \A f \in Submissions :
                form[f] = "store" /\ form'[f] = "accepted"
                    /\ ~(active' \subseteq active) => found[f] = "stale"
  <2> SUFFICES ASSUME NEW f \in Submissions,
                      form[f] = "store", form'[f] = "accepted",
                      ~(active' \subseteq active)
               PROVE  found[f] = "stale"
    OBVIOUS
  <2> USE <1>3 DEF FormsTypeOK
  <2>1. Store(f)
    <3>1. ASSUME NEW g \in Submissions, Submit(g) \/ Ignore(g) \/ Handle(g)
          PROVE  g = f
      BY <1>3, <3>1
         DEF Submit, Ignore, Handle, FindSubscriber, FindCourse, Store, StoreError,
             StoreUnacknowledged, StoreRow, AnswerForm
    <3>2. ~Submit(f) /\ ~Ignore(f) /\ (Handle(f) => Store(f))
      BY <1>3
         DEF Submit, Ignore, MayPost, Handle, FindSubscriber, FindCourse,
             StoreError, StoreUnacknowledged, AnswerForm
    <3>3. ~(\/ \E c \in Calls : StartMail(c)
            \/ \E k \in known : Expire(k)
            \/ Staff \/ Deliver \/ FormsRestart \/ UNCHANGED formsVars)
      BY <1>3 DEF StartMail, Expire, Staff, SetActive, DeleteRow, Deliver, Record,
                  FormsRestart, formsVars, formVars, handlerVars
    <3>4. QED
      BY <1>3, <3>1, <3>2, <3>3 DEF FormsNext
  <2>2. found[f] # "nobody"
    BY <1>3, <2>1 DEF Store
  <2>3. ASSUME found[f] = "active" PROVE FALSE
    <3>1. f \in Newsletters
      BY <1>3, <2>1 DEF Store, StoreRow, Newsletters
    <3>2. Subscription(f) \cap active # {}
      BY <1>3, <2>3, <3>1 DEF FoundInv
    <3>3. Subscription(f) \subseteq active
      BY <1>3, <3>1, <3>2 DEF OneRowPerAddress, Subscription
    <3>4. QED
      BY <1>3, <2>1, <3>1, <3>2, <3>3 DEF Store, StoreRow
  <2>4. QED
    BY <2>2, <2>3
<1>4. QED
  BY <1>2, <1>3, PTL DEF FormsSpec, ActivationIsWelcomed

(***************************************************************************)
(* One email per activation.  As long as a form may repeat an email, its   *)
(* key is known (MailedInv): the form was under way when the key was       *)
(* recorded, and the provider does not forget it earlier.  A form posted   *)
(* later finds the subscriber active.                                      *)
(***************************************************************************)

\* What the provider and the calls do by themselves revives no call.
LEMMA DeliverEndsCalls ==
    ASSUME TypeOK, Deliver \/ Restart, NEW c \in Calls, Over(c)
    PROVE  Over(c)'
<1> USE DEF Over, TypeOK
<1>1. ASSUME NEW d \in Calls, Progress(d) PROVE Over(c)'
  BY <1>1 DEF Progress, Accept, Reject, Unanswered, Retry, Receive, Post
<1>2. ASSUME NEW p \in wire, AcceptUnheard(p) \/ Lose(p) PROVE Over(c)'
  BY <1>2 DEF AcceptUnheard, Lose, Receive
<1>3. CASE Tick \/ Restart
  BY <1>3 DEF Tick, Restart
<1>4. QED
  BY <1>1, <1>2, <1>3 DEF Deliver

LEMMA MayMailIsBusy ==
    ASSUME NEW f, NEW m, MayMail(f, m)
    PROVE  Busy(f)
BY DEF MayMail, Busy

\* A new email is of a call that was under way, and its key was not known.
LEMMA NewEmail ==
    ASSUME TypeOK, PostedInv, StartedInv, DeliveryInv, Deliver,
           NEW p \in emails' \ emails
    PROVE  /\ p[1] \in Calls /\ ~Over(p[1]) /\ p[1].row \in stored
           /\ KeyOf[p[1]] \notin known /\ KeyOf[p[1]] \in known'
<1>1. PICK q \in wire : Receive(q)
  BY DEF Deliver, Progress, Accept, Reject, Unanswered, Retry, AcceptUnheard,
         Lose, Tick, Post, provider
<1>2. /\ p = q /\ KeyOf[q[1]] \notin known /\ KeyOf[q[1]] \in known'
      /\ q[1] \in Calls
  BY <1>1, Receipt
<1>3. ~Over(p[1]) /\ pc[p[1]] # "idle"
  BY <1>2 DEF Over, PostedInv
<1>4. QED
  BY <1>2, <1>3 DEF StartedInv

LEMMA DeliverMailed ==
    ASSUME FormsTypeOK, PostedInv, StartedInv, DeliveryInv, MailedInv, Deliver
    PROVE  MailedInv'
<1>1. /\ mailed' = mailed \cup {<<p[1].row, p[1].to>> : p \in emails' \ emails}
      /\ waiting' = waiting \cup
                       {w \in (known' \ known) \X Submissions : Busy(w[2])}
      /\ UNCHANGED handlerVars
  BY DEF Deliver, Record
<1>2. ASSUME NEW f \in Submissions, NEW m, MayMail(f, m)'
      PROVE  MayMail(f, m)
  <2>1. \A c \in Calls : ~Over(c)' => ~Over(c)
    BY DeliverEndsCalls DEF FormsTypeOK
  <2>2. QED
    BY <1>1, <1>2, <2>1 DEF MayMail, Subscription, handlerVars
<1>3. known \subseteq known'
  BY DEF Deliver, Progress, Accept, Reject, Unanswered, Retry, AcceptUnheard,
         Receive, Lose, Tick, Post, provider
<1>4. ASSUME NEW m \in mailed'
      PROVE  /\ m[1] \in stored'
             /\ \A f \in Submissions :
                   MayMail(f, m)' => m \in known' /\ <<m, f>> \in waiting'
  <2>1. CASE m \in mailed
    BY <1>1, <1>2, <1>3, <2>1 DEF MailedInv, handlerVars
  <2>2. CASE m \notin mailed
    <3>1. PICK p \in emails' \ emails : m = <<p[1].row, p[1].to>>
      BY <1>1, <1>4, <2>2
    <3>2. m \notin known /\ m \in known' /\ m[1] \in stored
      BY <3>1, NewEmail, CallShape DEF FormsTypeOK
    <3>3. ASSUME NEW f \in Submissions, MayMail(f, m)'
          PROVE  <<m, f>> \in waiting'
      BY <1>1, <1>2, <3>2, <3>3, MayMailIsBusy
    <3>4. QED
      BY <1>1, <3>2, <3>3 DEF handlerVars
  <2>3. QED
    BY <2>1, <2>2
<1>5. QED
  BY <1>4 DEF MailedInv

LEMMA StoreMailed ==
    ASSUME FormsTypeOK, StoredInv, MailedInv, NEW f \in Submissions,
           Store(f) \/ StoreUnacknowledged(f)
    PROVE  MailedInv'
<1> DEFINE r == IF f \in Newsletters /\ Subscription(f) # {}
                THEN Subscription(f) ELSE {f}
<1>1. /\ form[f] = "store" /\ f \notin stored
      /\ rowOf' = [rowOf EXCEPT ![f] = r]
      /\ rows' = rows \cup r /\ stored' = stored \cup r
      /\ active' = active \cup (r \cap Newsletters)
      /\ mailed' = {m \in mailed : m[1] \notin (r \cap Newsletters) \ active}
      /\ UNCHANGED <<vars, found, waiting>>
  BY DEF Store, StoreUnacknowledged, StoreRow, Activate, StoredInv
<1>2. /\ \A g \in Submissions : g # f => form'[g] = form[g]
      /\ form'[f] = "mail" => found[f] = "nobody"
      /\ form'[f] # "store"
  BY DEF Store, StoreUnacknowledged, FormsTypeOK
<1>3. ASSUME NEW m \in mailed', NEW g \in Submissions, MayMail(g, m)'
      PROVE  MayMail(g, m)
  <2>1. /\ m \in mailed /\ m[1] \in stored /\ m[1] # f
        /\ m[1] \in r \cap Newsletters => m[1] \in active
    BY <1>1, <1>3 DEF MailedInv
  <2>2. CASE /\ form'[g] = "store" /\ found'[g] = "nobody" /\ g \in Newsletters
             /\ m[1] \in Subscription(g)' \cap active'
    <3>1. m[1] \in active /\ m[1] \in rows
      BY <1>1, <2>1, <2>2 DEF FormsTypeOK
    <3>2. QED
      BY <1>1, <1>2, <2>2, <3>1 DEF MayMail, Subscription
  <2>3. CASE form'[g] = "mail" /\ m[1] \in rowOf'[g]
    <3>1. CASE g = f
      <4>1. m[1] \in Subscription(f) /\ f \in Newsletters
        BY <1>1, <2>1, <2>3, <3>1 DEF FormsTypeOK
      <4>2. m[1] \in active
        BY <1>1, <2>1, <4>1 DEF Subscription
      <4>3. QED
        BY <1>1, <1>2, <2>3, <3>1, <4>1, <4>2 DEF MayMail
    <3>2. CASE g # f
      BY <1>1, <1>2, <2>3, <3>2 DEF MayMail, FormsTypeOK
    <3>3. QED
      BY <3>1, <3>2
  <2>4. CASE \E c \in Calls : c.form = g /\ <<c.row, c.to>> = m /\ ~Over(c)'
    BY <1>1, <2>4 DEF MayMail, Over, vars
  <2>5. QED
    BY <1>3, <2>2, <2>3, <2>4 DEF MayMail
<1>4. known' = known
  BY <1>1 DEF vars
<1>5. QED
  BY <1>1, <1>3, <1>4 DEF MailedInv

LEMMA NextMailed ==
    ASSUME FormsTypeOK, PostedInv, StoredInv, StartedInv, DeliveryInv, MailedInv,
           [FormsNext]_formsVars
    PROVE  MailedInv'
<1> USE DEF FormsTypeOK
<1>1. ASSUME stored \subseteq stored', mailed' \subseteq mailed,
             known' = known, waiting' = waiting,
             \A m \in mailed', f \in Submissions :
                 MayMail(f, m)' => MayMail(f, m)
      PROVE  MailedInv'
  BY <1>1 DEF MailedInv
<1>2. ASSUME UNCHANGED vars PROVE \A c \in Calls : Over(c)' = Over(c)
  BY <1>2 DEF vars, Over
<1>3. ASSUME NEW f \in Submissions, Submit(f) \/ Ignore(f) PROVE MailedInv'
  BY <1>1, <1>2, <1>3
     DEF Submit, Ignore, MayPost, MayMail, Subscription, vars, Newsletters
<1>4. ASSUME NEW f \in Submissions, FindSubscriber(f) \/ FindCourse(f)
      PROVE  MailedInv'
  BY <1>1, <1>2, <1>4
     DEF FindSubscriber, FindCourse, MayMail, Subscription, vars, Newsletters
<1>5. ASSUME NEW f \in Submissions, StoreError(f) \/ AnswerForm(f)
      PROVE  MailedInv'
  BY <1>1, <1>2, <1>5 DEF StoreError, AnswerForm, MayMail, Subscription, vars
<1>6. ASSUME NEW c \in Calls, StartMail(c) PROVE MailedInv'
  <2>1. /\ form[c.form] = "mail" /\ c.row \in rowOf[c.form]
        /\ UNCHANGED <<formVars, known>>
    BY <1>6 DEF StartMail, Mails, SkipUnaddressed, SkipCapped, Send, provider
  <2>2. \A d \in Calls \ {c} : Over(d) => Over(d)'
    BY <1>6 DEF StartMail, SkipUnaddressed, SkipCapped, Send, Post, Over, TypeOK
  <2>3. ASSUME NEW m \in mailed', NEW f \in Submissions, MayMail(f, m)'
        PROVE  MayMail(f, m)
    <3>1. CASE c.form = f /\ <<c.row, c.to>> = m
      BY <2>1, <3>1 DEF MayMail
    <3>2. CASE ~(c.form = f /\ <<c.row, c.to>> = m)
      BY <2>1, <2>2, <2>3, <3>2
         DEF MayMail, Subscription, formVars, handlerVars
    <3>3. QED
      BY <3>1, <3>2
  <2>4. QED
    BY <1>1, <2>1, <2>3 DEF formVars, handlerVars
<1>7. ASSUME NEW r \in Submissions, SetActive(r) \/ DeleteRow(r)
      PROVE  MailedInv'
  <2>1. /\ UNCHANGED <<vars, form, rowOf, stored, waiting>>
        /\ mailed' \subseteq mailed /\ rows' \subseteq rows
        /\ \A m \in mailed' : m[1] \in active' => m[1] \in active
        /\ \A f \in Submissions : found'[f] = "nobody" => found[f] = "nobody"
    BY <1>7 DEF SetActive, DeleteRow, Activate, Outdated
  <2>2. ASSUME NEW m \in mailed', NEW f \in Submissions, MayMail(f, m)'
        PROVE  MayMail(f, m)
    BY <1>2, <2>1, <2>2 DEF MayMail, Subscription
  <2>3. QED
    BY <1>1, <2>1, <2>2 DEF vars
<1>8. ASSUME NEW k \in known, Expire(k) PROVE MailedInv'
  <2>1. /\ known' = known \ {k} /\ waiting' = {w \in waiting : w[1] # k}
        /\ \A f \in Submissions : Busy(f) => <<k, f>> \notin waiting
        /\ UNCHANGED <<handlerVars, mailed, pc, wire>>
    BY <1>8 DEF Expire, Forget
  <2>2. ASSUME NEW m \in mailed, NEW f \in Submissions, MayMail(f, m)'
        PROVE  m \in known' /\ <<m, f>> \in waiting'
    <3>1. MayMail(f, m)
      BY <2>1, <2>2 DEF MayMail, Over, Subscription, handlerVars
    <3>2. m \in known /\ <<m, f>> \in waiting /\ Busy(f)
      BY <3>1, MayMailIsBusy DEF MailedInv
    <3>3. QED
      BY <2>1, <3>2
  <2>3. QED
    BY <2>1, <2>2 DEF MailedInv, handlerVars
<1>9. CASE FormsRestart
  <2>1. \A c \in Calls : ~Over(c)' => ~Over(c)
    BY <1>9, DeliverEndsCalls DEF FormsRestart
  <2>2. /\ UNCHANGED <<found, rowOf, rows, active, stored, mailed, waiting, known>>
        /\ \A f \in Submissions : form'[f] \in {"store", "mail"} => form'[f] = form[f]
    BY <1>9 DEF FormsRestart, Restart, provider
  <2>3. ASSUME NEW m \in mailed', NEW f \in Submissions, MayMail(f, m)'
        PROVE  MayMail(f, m)
    BY <2>1, <2>2, <2>3 DEF MayMail, Subscription
  <2>4. QED
    BY <1>1, <2>2, <2>3
<1>10. CASE UNCHANGED formsVars
  BY <1>1, <1>2, <1>10
     DEF formsVars, formVars, handlerVars, MayMail, Subscription, vars
<1>11. QED
  BY <1>3, <1>4, <1>5, <1>6, <1>7, <1>8, <1>9, <1>10, StoreMailed, DeliverMailed
     DEF FormsNext, Handle, Staff

\* A subscription is welcomed once each time it becomes active, an enquiry
\* confirmed and announced once, although the provider forgets keys.
THEOREM OneWelcomePerActivation == FormsSpec => OneEmailPerActivation
<1>1. FormsInit => MailedInv
  BY DEF FormsInit, MailedInv
<1>2. FormsSpec => [](FormsTypeOK /\ PostedInv /\ DeliveryInv)
  BY FormsImplementEmailService, FormsTypeCorrect, PostedFromStarted, Delivery,
     PTL
<1>3. FormsTypeOK /\ PostedInv /\ DeliveryInv /\ StoredInv /\ StartedInv
          /\ MailedInv /\ [FormsNext]_formsVars => MailedInv'
  BY NextMailed
<1>4. FormsSpec => []MailedInv
  BY <1>1, <1>2, <1>3, Stored, PTL DEF FormsSpec
<1>5. ASSUME FormsTypeOK, PostedInv, DeliveryInv, StoredInv, StartedInv,
             MailedInv, [FormsNext]_formsVars
      PROVE  \A p \in emails' \ emails : <<p[1].row, p[1].to>> \notin mailed
  <2> SUFFICES ASSUME NEW p \in emails' \ emails
               PROVE  <<p[1].row, p[1].to>> \notin mailed
    OBVIOUS
  <2>1. Deliver
    <3>1. ~(\/ \E f \in Submissions : Submit(f) \/ Ignore(f) \/ Handle(f)
            \/ \E c \in Calls : StartMail(c)
            \/ \E k \in known : Expire(k)
            \/ Staff \/ FormsRestart \/ UNCHANGED formsVars)
      BY <1>5
         DEF Submit, Ignore, Handle, FindSubscriber, FindCourse, Store, StoreError,
             StoreUnacknowledged, AnswerForm, StartMail, SkipUnaddressed,
             SkipCapped, Send, Expire, Forget, Staff, SetActive, DeleteRow,
             FormsRestart, Restart, formsVars, vars, provider
    <3>2. QED
      BY <1>5, <3>1 DEF FormsNext
  <2>2. /\ p[1] \in Calls /\ ~Over(p[1]) /\ KeyOf[p[1]] \notin known
    BY <1>5, <2>1, NewEmail DEF FormsTypeOK
  <2>3. /\ p[1].form \in Submissions
        /\ KeyOf[p[1]] = <<p[1].row, p[1].to>>
    BY <2>2, CallShape
  <2>4. MayMail(p[1].form, <<p[1].row, p[1].to>>)
    BY <2>2 DEF MayMail
  <2>5. QED
    BY <1>5, <2>2, <2>3, <2>4 DEF MailedInv
<1>6. QED
  BY <1>2, <1>4, <1>5, Stored, PTL DEF FormsSpec, OneEmailPerActivation
=============================================================================
