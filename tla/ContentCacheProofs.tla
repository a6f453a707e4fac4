------------------------- MODULE ContentCacheProofs -------------------------
(***************************************************************************)
(* Proofs about ContentCache, for any lifetimes, any bound on the duration *)
(* of a query, and any number of readers and writers.                      *)
(***************************************************************************)
EXTENDS ContentCache, TLAPS

LEMMA TtlType == \A v : Ttl(v) \in Nat \ {0}
  BY TtlAssumption DEF Ttl

LEMMA GrowType ==
  ASSUME NEW n \in Nat, NEW most \in Nat
  PROVE  /\ Grow(n, most) \in Nat
         /\ Grow(n, most) <= n + 1
         /\ Grow(n, most) < most => Grow(n, most) = n + 1
  BY DEF Grow

(***************************************************************************)
(* Types                                                                   *)
(***************************************************************************)

\* What the steps do to an answer gives an answer.
LEMMA DataType ==
  ASSUME NEW d \in Answer, NEW m, NEW stamped, NEW taken
  PROVE  /\ Missing(d, m) \in Answer
         /\ Passed(d, m) \in Answer
         /\ Older(d, stamped, taken) \in Answer
<1>1. Ttl(view) \in Nat /\ Ttl(view) + Delay \in Nat
  BY TtlType, DelayAssumption
<1>2. Missing(d, m) \in Answer /\ Passed(d, m) \in Answer
  BY DEF Missing, Passed, Answer, Shows
<1>3. Older(d, stamped, taken) \in Answer
  BY <1>1, GrowType DEF Older, Answer
<1>4. QED
  BY <1>2, <1>3

\* A commit overtakes a request: it may replace what the request has read.
LEMMA OvertakenType ==
  ASSUME NEW r \in Readers, read[r] \in Reading, NEW d \in Answer, NEW m
  PROVE  /\ Overtaken(r, d, m) \in Reading
         /\ Overtaken(r, d, m).pc = read[r].pc
         /\ Overtaken(r, d, m).data = IF Answered(r) THEN d ELSE read[r].data
         /\ read[r].hit = "nothing" => Overtaken(r, d, m).hit = "nothing"
  BY DEF Overtaken, Reading, Shows

LEMMA NextType == TypeOK /\ [Next]_vars => TypeOK'
<1> SUFFICES ASSUME TypeOK, [Next]_vars PROVE TypeOK'
  OBVIOUS
<1> USE DEF TypeOK
<1>1. ASSUME NEW r \in Readers, Ask(r) \/ Query(r) \/ Fill(r) \/ ReadFails(r)
      PROVE  TypeOK'
  <2>1. CASE Ask(r)
    <3>1. Hit \in Shows \cup {"nothing"}
      BY DEF Hit, Answer
    <3>2. Asked \in Reading
      BY <3>1 DEF Asked, Reading, Answer, Shows
    <3>3. QED
      BY <2>1, <3>2 DEF Ask
  <2>2. CASE Query(r)
    <3>1. [read[r] EXCEPT !.pc = "answered"] \in Reading
      BY <2>2 DEF Query, Reading
    <3>2. QED
      BY <2>2, <3>1 DEF Query
  <2>3. CASE Fill(r)
    <3>1. read[r].data \in Answer
      BY <2>3 DEF Fill, Answered, Reading
    <3>2. QED
      BY <2>3, <3>1 DEF Fill
  <2>4. CASE ReadFails(r)
    BY <2>4 DEF ReadFails
  <2>5. QED
    BY <1>1, <2>1, <2>2, <2>3, <2>4
<1>2. ASSUME NEW m PROVE AllPassed(m) => read' \in [Readers -> Reading \cup {None}]
  <2>1. ASSUME NEW r \in Readers, read[r] # None
        PROVE  [read[r] EXCEPT !.data = Passed(@, m)] \in Reading
    <3>1. read[r] \in Reading /\ read[r].data \in Answer
      BY <2>1 DEF Reading
    <3>2. Passed(read[r].data, m) \in Answer
      BY <3>1, DataType
    <3>3. QED
      BY <3>1, <3>2 DEF Reading
  <2>2. QED
    BY <2>1 DEF AllPassed
<1>3. ASSUME NEW w \in Writers, NEW m \in Mutations, Send(w, m) PROVE TypeOK'
  <2>1. [pc |-> "sent", mutation |-> m] \in Writing
    BY DEF Writing
  <2>2. QED
    BY <1>3, <2>1 DEF Send
<1>4. ASSUME NEW w \in Writers,
             Reject(w) \/ Commit(w) \/ Return(w)
                \/ Lose(w) \/ LoseAnswer(w) \/ CommitAdrift(w) \/ Sink(w)
      PROVE  TypeOK'
  <2>1. Pc(w) # "none" => write[w] \in Writing
    BY DEF Pc
  <2>2. CASE Reject(w) \/ Sink(w)
    BY <2>2 DEF Reject, Sink
  <2>3. CASE Commit(w)
    <3>1. [write[w] EXCEPT !.pc = "committed"] \in Writing
      BY <2>1, <2>3 DEF Commit, Writing
    <3>2. entry' \in Answer \cup {None}
      BY <2>3, DataType DEF Commit
    <3>3. ASSUME NEW r \in Readers, read[r] # None
          PROVE  Overtaken(r, Missing(read[r].data, write[w].mutation),
                           write[w].mutation) \in Reading
      <4>1. read[r] \in Reading /\ read[r].data \in Answer
        BY <3>3 DEF Reading
      <4>2. Missing(read[r].data, write[w].mutation) \in Answer
        BY <4>1, DataType
      <4>3. QED
        BY <4>1, <4>2, OvertakenType
    <3>4. read' \in [Readers -> Reading \cup {None}]
      BY <2>3, <3>3 DEF Commit
    <3>5. QED
      BY <2>3, <3>1, <3>2, <3>4 DEF Commit
  <2>4. CASE Return(w)
    <3>1. entry' \in Answer \cup {None}
      BY <2>4 DEF Return, Empty
    <3>2. read' \in [Readers -> Reading \cup {None}]
      BY <1>2, <2>4 DEF Return, Empty
    <3>3. QED
      BY <2>4, <3>1, <3>2 DEF Return
  <2>5. CASE Lose(w)
    <3>1. [write[w] EXCEPT !.pc = "adrift"] \in Writing
      BY <2>1, <2>5 DEF Lose, Writing
    <3>2. QED
      BY <2>5, <3>1 DEF Lose
  <2>6. CASE LoseAnswer(w)
    <3>1. entry' \in Answer \cup {None}
      BY <2>6, DataType DEF LoseAnswer
    <3>2. read' \in [Readers -> Reading \cup {None}]
      BY <1>2, <2>6 DEF LoseAnswer
    <3>3. QED
      BY <2>6, <3>1, <3>2 DEF LoseAnswer
  <2>7. CASE CommitAdrift(w)
    <3> DEFINE m == write[w].mutation
               Late(d) == Passed(Missing(d, m), m)
    <3>1. ASSUME NEW d \in Answer PROVE Late(d) \in Answer
      <4>1. Missing(d, m) \in Answer
        BY DataType
      <4>2. QED
        BY <4>1, DataType
    <3>2. entry' = IF entry = None THEN None ELSE Late(entry)
      BY <2>7 DEF CommitAdrift
    <3>3. read' = [r \in Readers |->
                IF read[r] = None THEN None ELSE Overtaken(r, Late(read[r].data), m)]
      BY <2>7 DEF CommitAdrift
    <3> HIDE DEF Late
    <3>4. ASSUME NEW r \in Readers, read[r] # None
          PROVE  Overtaken(r, Late(read[r].data), m) \in Reading
      <4>1. read[r] \in Reading /\ read[r].data \in Answer
        BY <3>4 DEF Reading
      <4>2. Late(read[r].data) \in Answer
        BY <4>1, <3>1
      <4>3. QED
        BY <4>1, <4>2, OvertakenType
    <3>5. read' \in [Readers -> Reading \cup {None}]
      BY <3>3, <3>4
    <3>6. entry' \in Answer \cup {None}
      BY <3>1, <3>2
    <3>7. QED
      BY <2>7, <3>5, <3>6 DEF CommitAdrift
  <2>8. QED
    BY <1>4, <2>2, <2>3, <2>4, <2>5, <2>6, <2>7
<1>5. CASE Restart
  <2>1. ASSUME NEW w \in Writers, Pc(w) \in {"sent", "adrift"}
        PROVE  [write[w] EXCEPT !.pc = "adrift"] \in Writing
    BY <2>1 DEF Pc, Writing
  <2>2. QED
    BY <1>5, <2>1 DEF Restart
<1>6. CASE Tick
  <2>1. entry' \in Answer \cup {None}
    BY <1>6, DataType DEF Tick
  <2>2. ASSUME NEW r \in Readers, read[r] # None
        PROVE  [read[r] EXCEPT !.data = Older(@, Stamped(r), Answered(r))] \in Reading
    <3>1. read[r] \in Reading /\ read[r].data \in Answer
      BY <2>2 DEF Reading
    <3>2. Older(read[r].data, Stamped(r), Answered(r)) \in Answer
      BY <3>1, DataType
    <3>3. QED
      BY <3>1, <3>2 DEF Reading
  <2>3. read' \in [Readers -> Reading \cup {None}]
    BY <1>6, <2>2 DEF Tick
  <2>4. QED
    BY <1>6, <2>1, <2>3 DEF Tick
<1>7. CASE UNCHANGED vars
  BY <1>7 DEF vars
<1>8. QED
  BY <1>1, <1>3, <1>4, <1>5, <1>6, <1>7 DEF Next

LEMMA InitType == Init => TypeOK
  BY DEF Init, TypeOK, Touching

\* Every state of the specification is well-typed.
THEOREM TypeCorrect == Spec => []TypeOK
<1>1. Init => TypeOK
  BY InitType
<1>2. TypeOK /\ [Next]_vars => TypeOK'
  BY NextType
<1>3. QED
  BY <1>1, <1>2, PTL DEF Spec

(***************************************************************************)
(* The age of what is served.  An entry is not older than the time its     *)
(* lifetime has counted, plus Delay when the count began with the arrival  *)
(* of the answer.  For the step that fills the cache, the answers that are *)
(* under way must satisfy the same, whatever the entry is by then.         *)
(***************************************************************************)

Lag(v) == IF StampedWhenAsked(v) THEN 0 ELSE Delay

Young(d, v) == d.age < Ttl(v) => d.old <= d.age + Lag(v)

UnderWay(d, v) ==
    /\ d.old <= Delay
    /\ StampedWhenAsked(v) => (d.age < Ttl(v) => d.old <= d.age)

AgeInv ==
    /\ entry # None => Young(entry, view)
    /\ \A r \in Readers : read[r] # None =>
            /\ UnderWay(read[r].data, view)
            /\ read[r].pc = "asked" => read[r].data.old = 0

\* Only Older changes what Young and UnderWay speak of.
LEMMA SameAge ==
  ASSUME NEW d \in Answer, NEW m
  PROVE  /\ Missing(d, m).age = d.age /\ Missing(d, m).old = d.old
         /\ Passed(d, m).age = d.age /\ Passed(d, m).old = d.old
  BY DEF Missing, Passed, Answer

LEMMA YoungOlder ==
  ASSUME NEW d \in Answer, Young(d, view)
  PROVE  Young(Older(d, TRUE, TRUE), view)
<1> DEFINE e == Older(d, TRUE, TRUE)
<1>1. Ttl(view) \in Nat /\ Ttl(view) + Delay \in Nat /\ Lag(view) \in Nat
  BY TtlType, DelayAssumption DEF Lag
<1>2. d.age \in Nat /\ d.old \in Nat
  BY DEF Answer
<1>3. e.age = Grow(d.age, Ttl(view)) /\ e.old = Grow(d.old, Ttl(view) + Delay)
  BY DEF Older, Answer
<1>4. e.old <= d.old + 1 /\ e.old \in Nat
  BY <1>1, <1>2, <1>3, GrowType
<1>5. e.age < Ttl(view) => e.age = d.age + 1
  BY <1>1, <1>2, <1>3, GrowType
<1> HIDE DEF e
<1>6. Young(e, view)
  BY <1>1, <1>2, <1>4, <1>5 DEF Young
<1>7. QED
  BY <1>6 DEF e

LEMMA UnderWayOlder ==
  ASSUME NEW d \in Answer, NEW taken \in BOOLEAN, UnderWay(d, view),
         taken => d.old < Delay
  PROVE  /\ UnderWay(Older(d, StampedWhenAsked(view), taken), view)
         /\ ~taken => Older(d, StampedWhenAsked(view), taken).old = d.old
<1> DEFINE e == Older(d, StampedWhenAsked(view), taken)
<1>1. Ttl(view) \in Nat /\ Ttl(view) + Delay \in Nat /\ Delay \in Nat
  BY TtlType, DelayAssumption
<1>2. d.age \in Nat /\ d.old \in Nat
  BY DEF Answer
<1>3. e.old = IF taken THEN Grow(d.old, Ttl(view) + Delay) ELSE d.old
  BY DEF Older, Answer
<1>4. StampedWhenAsked(view) => e.age = Grow(d.age, Ttl(view))
  BY DEF Older, Answer
<1>5. e.old \in Nat /\ e.old <= d.old + 1 /\ (~taken => e.old = d.old)
  <2>1. CASE taken
    BY <1>1, <1>2, <1>3, <2>1, GrowType
  <2>2. CASE ~taken
    BY <1>2, <1>3, <2>2
  <2>3. QED
    BY <2>1, <2>2
<1>6. StampedWhenAsked(view) /\ e.age < Ttl(view) => e.age = d.age + 1
  BY <1>1, <1>2, <1>4, GrowType
<1> HIDE DEF e
<1>7. e.old <= Delay
  BY <1>1, <1>2, <1>3, <1>5 DEF UnderWay
<1>8. UnderWay(e, view)
  BY <1>1, <1>2, <1>5, <1>6, <1>7 DEF UnderWay
<1>9. QED
  BY <1>3, <1>8 DEF e

LEMMA NextAge == TypeOK /\ AgeInv /\ [Next]_vars => AgeInv'
<1> SUFFICES ASSUME TypeOK, AgeInv, [Next]_vars PROVE AgeInv'
  OBVIOUS
<1> USE DEF TypeOK
<1>1. view' = view
  BY DEF Next, Ask, Query, Fill, ReadFails, Send, Reject, Commit, Return, Lose,
         LoseAnswer, CommitAdrift, Sink, Restart, Tick, vars
\* It is enough to know where the entry and the answers under way come from.
<1>2. ASSUME entry' # None => Young(entry', view),
             \A r \in Readers : read'[r] # None =>
                    /\ UnderWay(read'[r].data, view)
                    /\ read'[r].pc = "asked" => read'[r].data.old = 0
      PROVE  AgeInv'
  BY <1>1, <1>2 DEF AgeInv
<1>3. ASSUME NEW r \in Readers, Ask(r) \/ Query(r) \/ Fill(r) \/ ReadFails(r)
      PROVE  AgeInv'
  <2>1. CASE Ask(r)
    <3>1. UnderWay(Asked.data, view) /\ Asked.data.old = 0
      BY DelayAssumption DEF Asked, UnderWay
    <3>2. \A q \in Readers : read'[q] = IF q = r THEN Asked ELSE read[q]
      BY <2>1 DEF Ask
    <3>3. QED
      BY <1>2, <2>1, <3>1, <3>2 DEF Ask, AgeInv
  <2>2. CASE Query(r)
    <3>1. \A q \in Readers : /\ read'[q] # None => read[q] # None
                             /\ read[q] # None => read'[q].data = read[q].data
                             /\ q # r => read'[q] = read[q]
      BY <2>2 DEF Query, Reading
    <3>2. read'[r].pc = "answered"
      BY <2>2 DEF Query, Reading
    <3>3. QED
      BY <1>2, <2>2, <3>1, <3>2 DEF Query, AgeInv
  <2>3. CASE Fill(r)
    <3>1. UnderWay(read[r].data, view) /\ read[r].data \in Answer
      BY <2>3 DEF Fill, Answered, AgeInv, Reading
    <3>2. Young(read[r].data, view)
      BY <3>1, DelayAssumption, TtlType DEF Young, UnderWay, Lag, Answer
    <3>3. \A q \in Readers : read'[q] = IF q = r THEN None ELSE read[q]
      BY <2>3 DEF Fill
    <3>4. QED
      BY <1>2, <2>3, <3>2, <3>3 DEF Fill, AgeInv
  <2>4. CASE ReadFails(r)
    <3>1. \A q \in Readers : read'[q] = IF q = r THEN None ELSE read[q]
      BY <2>4 DEF ReadFails
    <3>2. QED
      BY <1>2, <2>4, <3>1 DEF ReadFails, AgeInv
  <2>5. QED
    BY <1>3, <2>1, <2>2, <2>3, <2>4
\* A writer leaves every age as it is.
<1>4. ASSUME entry' # None => /\ entry # None
                              /\ entry'.age = entry.age /\ entry'.old = entry.old,
             \A r \in Readers : read'[r] # None =>
                    /\ read[r] # None
                    /\ read'[r].pc = read[r].pc
                    /\ read'[r].data.age = read[r].data.age
                    /\ read'[r].data.old = read[r].data.old
      PROVE  AgeInv'
  BY <1>1, <1>4 DEF AgeInv, Young, UnderWay, Lag
<1>5. ASSUME NEW d \in Answer, NEW m
      PROVE  /\ Missing(d, m).age = d.age /\ Missing(d, m).old = d.old
             /\ Passed(d, m).age = d.age /\ Passed(d, m).old = d.old
  BY SameAge
<1>6. ASSUME NEW m, AllPassed(m), NEW r \in Readers, read'[r] # None
      PROVE  /\ read[r] # None
             /\ read'[r].pc = read[r].pc
             /\ read'[r].data.age = read[r].data.age
             /\ read'[r].data.old = read[r].data.old
  <2>1. read[r] # None /\ read'[r] = [read[r] EXCEPT !.data = Passed(@, m)]
    BY <1>6 DEF AllPassed
  <2>2. read[r] \in Reading /\ read[r].data \in Answer
    BY <2>1 DEF Reading
  <2>3. read'[r].pc = read[r].pc /\ read'[r].data = Passed(read[r].data, m)
    BY <2>1, <2>2 DEF Reading
  <2>4. QED
    BY <1>5, <2>1, <2>2, <2>3
<1>7. ASSUME NEW w \in Writers, NEW m \in Mutations, Send(w, m) PROVE AgeInv'
  BY <1>4, <1>7 DEF Send
<1>8. ASSUME NEW w \in Writers,
             Reject(w) \/ Commit(w) \/ Return(w)
                \/ Lose(w) \/ LoseAnswer(w) \/ CommitAdrift(w) \/ Sink(w)
      PROVE  AgeInv'
  <2> DEFINE m == write[w].mutation
  <2>1. CASE Reject(w) \/ Lose(w) \/ Sink(w)
    BY <1>4, <2>1 DEF Reject, Lose, Sink
  <2>2. CASE Commit(w)
    <3>1. ASSUME entry' # None
          PROVE  /\ entry # None
                 /\ entry'.age = entry.age /\ entry'.old = entry.old
      BY <1>5, <2>2, <3>1 DEF Commit
    <3>2. ASSUME NEW r \in Readers, read'[r] # None
          PROVE  /\ read[r] # None
                 /\ read'[r].pc = read[r].pc
                 /\ read'[r].data.age = read[r].data.age
                 /\ read'[r].data.old = read[r].data.old
      <4>1. read[r] # None /\ read'[r] = Overtaken(r, Missing(read[r].data, m), m)
        BY <2>2, <3>2 DEF Commit
      <4>2. read[r] \in Reading /\ read[r].data \in Answer
        BY <4>1 DEF Reading
      <4>3. Missing(read[r].data, m) \in Answer
        BY <4>2, DataType
      <4>4. /\ read'[r].pc = read[r].pc
            /\ read'[r].data \in {read[r].data, Missing(read[r].data, m)}
        BY <4>1, <4>2, <4>3, OvertakenType
      <4>5. QED
        BY <1>5, <4>1, <4>2, <4>4
    <3>3. QED
      BY <1>4, <3>1, <3>2
  <2>3. CASE Return(w)
    <3>1. CASE AllPassed(m) /\ entry' = None
      BY <1>4, <1>6, <3>1
    <3>2. CASE UNCHANGED <<entry, read>>
      BY <1>4, <3>2
    <3>3. QED
      BY <2>3, <3>1, <3>2 DEF Return, Empty
  <2>4. CASE LoseAnswer(w)
    <3>1. AllPassed(m)
      BY <2>4 DEF LoseAnswer
    <3>2. ASSUME entry' # None
          PROVE  /\ entry # None
                 /\ entry'.age = entry.age /\ entry'.old = entry.old
      BY <1>5, <2>4, <3>2 DEF LoseAnswer
    <3>3. QED
      BY <1>4, <1>6, <3>1, <3>2
  <2>5. CASE CommitAdrift(w)
    <3> DEFINE Late(d) == Passed(Missing(d, m), m)
    <3>1. ASSUME NEW d \in Answer
          PROVE  Late(d).age = d.age /\ Late(d).old = d.old
      <4>1. Missing(d, m) \in Answer
        BY DataType
      <4>2. QED
        BY <1>5, <4>1
    <3>2. entry' = IF entry = None THEN None ELSE Late(entry)
      BY <2>5 DEF CommitAdrift
    <3>3. read' = [r \in Readers |->
                IF read[r] = None THEN None ELSE Overtaken(r, Late(read[r].data), m)]
      BY <2>5 DEF CommitAdrift
    <3>9. ASSUME NEW d \in Answer PROVE Late(d) \in Answer
      <4>1. Missing(d, m) \in Answer
        BY DataType
      <4>2. QED
        BY <4>1, DataType
    <3> HIDE DEF Late
    <3>4. ASSUME NEW r \in Readers, read'[r] # None
          PROVE  /\ read[r] # None
                 /\ read'[r].pc = read[r].pc
                 /\ read'[r].data.age = read[r].data.age
                 /\ read'[r].data.old = read[r].data.old
      <4>1. read[r] # None /\ read'[r] = Overtaken(r, Late(read[r].data), m)
        BY <3>3, <3>4
      <4>2. read[r] \in Reading /\ read[r].data \in Answer
        BY <4>1 DEF Reading
      <4>3. /\ read'[r].pc = read[r].pc
            /\ read'[r].data \in {read[r].data, Late(read[r].data)}
        BY <3>9, <4>1, <4>2, OvertakenType
      <4>4. QED
        BY <3>1, <4>1, <4>2, <4>3
    <3>5. QED
      BY <1>4, <3>1, <3>2, <3>4
  <2>6. QED
    BY <1>8, <2>1, <2>2, <2>3, <2>4, <2>5
<1>9. CASE Restart
  BY <1>2, <1>9 DEF Restart
<1>10. CASE Tick
  <2>1. ASSUME entry' # None PROVE Young(entry', view)
    <3>1. entry # None /\ entry' = Older(entry, TRUE, TRUE)
      BY <1>10, <2>1 DEF Tick
    <3>2. QED
      BY <3>1, YoungOlder DEF AgeInv
  <2>2. ASSUME NEW r \in Readers, read'[r] # None
        PROVE  /\ UnderWay(read'[r].data, view)
               /\ read'[r].pc = "asked" => read'[r].data.old = 0
    <3> DEFINE d == read[r].data
    <3>1. /\ read[r] # None
          /\ read'[r] = [read[r] EXCEPT !.data = Older(@, Stamped(r), Answered(r))]
      BY <1>10, <2>2 DEF Tick
    <3>2. read[r] \in Reading /\ d \in Answer
      BY <3>1 DEF Reading
    <3>3. /\ read'[r].pc = read[r].pc
          /\ read'[r].data = Older(d, StampedWhenAsked(view), Answered(r))
      BY <3>1, <3>2 DEF Reading, Stamped
    <3>4. UnderWay(d, view) /\ (read[r].pc = "asked" => d.old = 0)
      BY <3>1 DEF AgeInv
    <3>5. Answered(r) \in BOOLEAN /\ (Answered(r) => d.old < Delay)
      BY <1>10 DEF Tick, Answered
    <3>6. read[r].pc = "asked" => ~Answered(r)
      BY DEF Answered
    <3> HIDE DEF d
    <3>7. /\ UnderWay(Older(d, StampedWhenAsked(view), Answered(r)), view)
          /\ ~Answered(r) =>
                Older(d, StampedWhenAsked(view), Answered(r)).old = d.old
      BY <3>2, <3>4, <3>5, UnderWayOlder
    <3>8. QED
      BY <3>3, <3>4, <3>6, <3>7
  <2>3. QED
    BY <1>2, <2>1, <2>2
<1>11. CASE UNCHANGED vars
  BY <1>4, <1>11 DEF vars
<1>12. QED
  BY <1>3, <1>7, <1>8, <1>9, <1>10, <1>11 DEF Next

\* Only requests for slides and partners keep what they find expired.
HitInv ==
    view \notin DOMAIN HomepageReads =>
        \A r \in Readers : read[r] # None => read[r].hit = "nothing"

LEMMA NextHit == TypeOK /\ HitInv /\ [Next]_vars => HitInv'
<1> SUFFICES ASSUME TypeOK, HitInv, [Next]_vars PROVE HitInv'
  OBVIOUS
<1>1. view' = view
  BY DEF Next, Ask, Query, Fill, ReadFails, Send, Reject, Commit, Return, Lose,
         LoseAnswer, CommitAdrift, Sink, Restart, Tick, vars
<1> SUFFICES ASSUME view \notin DOMAIN HomepageReads,
                    \A r \in Readers : read[r] # None => read[r].hit = "nothing",
                    NEW q \in Readers, read'[q] # None
             PROVE  read'[q].hit = "nothing"
  BY <1>1 DEF HitInv
<1> USE DEF TypeOK
<1>2. ASSUME read[q] # None PROVE read[q] \in Reading /\ read[q].data \in Answer
  BY <1>2 DEF Reading
<1>3. ASSUME read'[q] = read[q] PROVE read'[q].hit = "nothing"
  BY <1>3
<1>4. ASSUME NEW r \in Readers, Ask(r) \/ Query(r) \/ Fill(r) \/ ReadFails(r)
      PROVE  read'[q].hit = "nothing"
  <2>1. CASE Ask(r) /\ q = r
    BY <2>1 DEF Ask, Asked, Hit
  <2>2. CASE Query(r) /\ q = r
    BY <1>2, <2>2 DEF Query, Reading
  <2>3. CASE (Fill(r) \/ ReadFails(r)) /\ q = r
    BY <2>3 DEF Fill, ReadFails
  <2>4. CASE q # r
    BY <1>3, <1>4, <2>4 DEF Ask, Query, Fill, ReadFails
  <2>5. QED
    BY <1>4, <2>1, <2>2, <2>3, <2>4
<1>5. ASSUME NEW m, AllPassed(m) PROVE read'[q].hit = "nothing"
  <2>1. read[q] # None /\ read'[q] = [read[q] EXCEPT !.data = Passed(@, m)]
    BY <1>5 DEF AllPassed
  <2>2. QED
    BY <1>2, <2>1 DEF Reading
<1>6. ASSUME read[q] # None, NEW d \in Answer, NEW m, read'[q] = Overtaken(q, d, m)
      PROVE  read'[q].hit = "nothing"
  BY <1>2, <1>6, OvertakenType
<1>7. ASSUME NEW w \in Writers, NEW m \in Mutations, Send(w, m)
      PROVE  read'[q].hit = "nothing"
  BY <1>3, <1>7 DEF Send
<1>8. ASSUME NEW w \in Writers,
             Reject(w) \/ Commit(w) \/ Return(w)
                \/ Lose(w) \/ LoseAnswer(w) \/ CommitAdrift(w) \/ Sink(w)
      PROVE  read'[q].hit = "nothing"
  <2> DEFINE m == write[w].mutation
  <2>1. CASE Reject(w) \/ Lose(w) \/ Sink(w)
    BY <1>3, <2>1 DEF Reject, Lose, Sink
  <2>2. CASE Commit(w)
    <3>1. read[q] # None /\ read'[q] = Overtaken(q, Missing(read[q].data, m), m)
      BY <2>2 DEF Commit
    <3>2. Missing(read[q].data, m) \in Answer
      BY <1>2, <3>1, DataType
    <3>3. QED
      BY <1>6, <3>1, <3>2
  <2>3. CASE Return(w)
    BY <1>3, <1>5, <2>3 DEF Return, Empty
  <2>4. CASE LoseAnswer(w)
    BY <1>5, <2>4 DEF LoseAnswer
  <2>5. CASE CommitAdrift(w)
    <3>1. /\ read[q] # None
          /\ read'[q] = Overtaken(q, Passed(Missing(read[q].data, m), m), m)
      BY <2>5 DEF CommitAdrift
    <3>2. Missing(read[q].data, m) \in Answer
      BY <1>2, <3>1, DataType
    <3>3. Passed(Missing(read[q].data, m), m) \in Answer
      BY <3>2, DataType
    <3>4. QED
      BY <1>6, <3>1, <3>3
  <2>6. QED
    BY <1>8, <2>1, <2>2, <2>3, <2>4, <2>5
<1>9. CASE Restart
  BY <1>9 DEF Restart
<1>10. CASE Tick
  <2>1. /\ read[q] # None
        /\ read'[q] = [read[q] EXCEPT !.data = Older(@, Stamped(q), Answered(q))]
    BY <1>10 DEF Tick
  <2>2. QED
    BY <1>2, <2>1 DEF Reading
<1>11. CASE UNCHANGED vars
  BY <1>3, <1>11 DEF vars
<1>12. QED
  BY <1>4, <1>7, <1>8, <1>9, <1>10, <1>11 DEF Next

\* A request is given nothing older than the lifetime of the entry and the time
\* its query was under way, unless it is one for slides or partners whose query
\* fails: AgeBound holds in every state.
THEOREM Staleness == Spec => []AgeBound
<1>1. Init => AgeInv /\ HitInv
  BY DEF Init, AgeInv, HitInv
<1>2. TypeOK /\ AgeInv /\ HitInv => AgeBound
  <2> SUFFICES ASSUME TypeOK, AgeInv, HitInv PROVE AgeBound
    OBVIOUS
  <2>1. Live => entry.old < Ttl(view) + (IF StampedWhenAsked(view) THEN 0 ELSE Delay)
    BY TtlType, DelayAssumption
       DEF TypeOK, AgeInv, Live, Young, Lag, Answer
  <2>2. \A r \in Readers : Answered(r) => read[r].data.old <= Delay
    BY DEF AgeInv, UnderWay, Answered
  <2>3. QED
    BY <2>1, <2>2 DEF AgeBound, HitInv
<1>3. QED
  BY <1>1, <1>2, InitType, NextType, NextAge, NextHit, PTL DEF Spec

(***************************************************************************)
(* Missed updates.  The tables of what is shown and what is emptied agree  *)
(* but for the titles in the list of registrations.                        *)
(***************************************************************************)

LEMMA Domains ==
  /\ DOMAIN Forms = {"contactForm", "registrationForm", "newsletterForm"}
  /\ DOMAIN Domain = {"project", "projectCategory", "projectImage", "service",
                      "course", "courseSection", "post", "postCategory"}
  /\ DOMAIN SubmissionClears =
        {"contact", "courseRegistration", "newsletter", "media"}
  /\ DOMAIN OwnClears = {"slide", "partner", "settings", "pageContent"}
  BY DEF Forms, Domain, SubmissionClears, OwnClears

LEMMA ViewDomains ==
  /\ DOMAIN ListReads = {"listProject", "listService", "listCourse", "listPost"}
  /\ DOMAIN CategoryReads = {"categoriesProject", "categoriesPost"}
  /\ DOMAIN SubmissionReads = {"contacts", "registrations", "subscriptions"}
  /\ DOMAIN MediaReads = {"media"}
  /\ DOMAIN DashboardReads = {"dashboard"}
  /\ DOMAIN RecentReads = {"recent"}
  /\ DOMAIN ProjectReads = {"projects", "projectFilters"}
  /\ DOMAIN ServiceReads = {"services"}
  /\ DOMAIN CourseReads = {"courses", "course"}
  /\ DOMAIN PostReads = {"posts", "postCategories"}
  /\ DOMAIN HomepageReads =
        {"slidesPublic", "slidesAdmin", "partnersPublic", "partnersAdmin"}
  /\ DOMAIN SettingsReads = {"settings", "settingsPublic"}
  /\ DOMAIN PageReads = {"pageContent"}
  BY DEF ListReads, CategoryReads, SubmissionReads, MediaReads, DashboardReads,
         RecentReads, ProjectReads, ServiceReads, CourseReads, PostReads,
         HomepageReads, SettingsReads, PageReads

LEMMA ContentCleared ==
  ASSUME NEW m \in DOMAIN Domain
  PROVE  Clears(m) = InvalidateMutation(m) \cup CategoryClears(m)
                        \cup ClearResourceCache(m)
  BY Domains DEF Clears

LEMMA OthersCleared ==
  /\ Clears("contact") = {"contacts", "dashboard"}
  /\ Clears("courseRegistration") = {"registrations", "dashboard"}
  /\ Clears("newsletter") = {"subscriptions", "dashboard"}
  /\ Clears("media") = {"media"}
  /\ Clears("pageContent") = {"pageContent"}
  BY Domains
     DEF Clears, SubmissionClears, ContactClears, RegistrationClears,
         SubscriptionClears, MediaClears, OwnClears, PageReads

LEMMA InvalidationComplete ==
  ASSUME NEW v \in AllViews, NEW m \in AdminMutations, m \in Touching(v),
         ~ClearsFirst(m), <<m, v>> \notin Uncleared
  PROVE  v \in Clears(m)
<1>1. m \in Reads(v)
  BY Domains DEF Touching, Table, AdminMutations
<1>2. CASE v \in DOMAIN ListReads
  <2>1. Reads(v) = ListReads[v]
    BY <1>2, ViewDomains DEF Reads
  <2>2. m \in DOMAIN Domain /\ v = ListOf[Domain[m]]
    BY <1>1, <1>2, <2>1, Domains DEF ListReads, ListOf, Domain
  <2>3. QED
    BY <2>2, ContentCleared DEF InvalidateMutation
<1>3. CASE v \in DOMAIN CategoryReads
  <2>1. Reads(v) = CategoryReads[v]
    BY <1>3, ViewDomains DEF Reads
  <2>2. m \in DOMAIN Domain /\ v \in CategoryClears(m)
    BY <1>1, <1>3, <2>1, Domains DEF CategoryReads, CategoryClears
  <2>3. QED
    BY <2>2, ContentCleared
<1>4. CASE v \in DOMAIN SubmissionReads \cup DOMAIN MediaReads
  <2>1. Reads(v) = IF v = "media" THEN MediaReads[v] ELSE SubmissionReads[v]
    BY <1>4, ViewDomains DEF Reads
  <2>2. QED
    BY <1>1, <1>4, <2>1, OthersCleared
       DEF SubmissionReads, ContactTables, RegistrationTables, SubscriptionTables,
           MediaReads, Uncleared
<1>5. CASE v \in DOMAIN DashboardReads \cup DOMAIN RecentReads
  <2>1. Reads(v) = IF v = "recent" THEN RecentReads[v] ELSE DashboardReads[v]
    BY <1>5, ViewDomains DEF Reads
  <2>2. CASE m \in Content
    <3>1. m \in DOMAIN Domain
      BY <2>2, Domains DEF Content
    <3>2. v \in InvalidateMutation(m)
      BY <1>5 DEF InvalidateMutation, DashboardReads, RecentReads
    <3>3. QED
      BY <3>1, <3>2, ContentCleared
  <2>3. CASE m \notin Content
    BY <1>1, <1>5, <2>1, <2>3, OthersCleared DEF DashboardReads, RecentReads
  <2>4. QED
    BY <2>2, <2>3
<1>6. CASE v \in PublicViews
  <2>1. Reads(v) = CASE v \in DOMAIN ProjectReads -> ProjectReads[v]
                     [] v \in DOMAIN ServiceReads -> ServiceReads[v]
                     [] v \in DOMAIN CourseReads -> CourseReads[v]
                     [] v \in DOMAIN PostReads -> PostReads[v]
    BY <1>6, ViewDomains DEF Reads, PublicViews
  <2>2. m \in DOMAIN Domain /\ v \in PublicOf[Domain[m]]
    <3>1. CASE v \in DOMAIN ProjectReads
      BY <1>1, <2>1, <3>1, Domains, ViewDomains DEF ProjectReads, ProjectTables, FilterTables, PublicOf, Domain
    <3>2. CASE v \in DOMAIN ServiceReads
      BY <1>1, <2>1, <3>2, Domains, ViewDomains DEF ProjectReads, ServiceReads, PublicOf, Domain
    <3>3. CASE v \in DOMAIN CourseReads
      BY <1>1, <2>1, <3>3, Domains, ViewDomains
         DEF ProjectReads, ServiceReads, CourseReads, CourseTables, PublicOf, Domain
    <3>4. CASE v \in DOMAIN PostReads
      BY <1>1, <2>1, <3>4, Domains, ViewDomains
         DEF ProjectReads, ServiceReads, CourseReads, PostReads, PostTables,
             CountTables, PublicOf, Domain
    <3>5. QED
      BY <1>6, <3>1, <3>2, <3>3, <3>4 DEF PublicViews
  <2>3. QED
    BY <2>2, ContentCleared DEF ClearResourceCache
<1>7. CASE v \in SiteViews
  <2>1. Reads(v) = CASE v \in DOMAIN HomepageReads -> HomepageReads[v]
                     [] v \in DOMAIN SettingsReads -> SettingsReads[v]
                     [] v \in DOMAIN PageReads -> PageReads[v]
    BY <1>7, ViewDomains DEF Reads, SiteViews
  <2>2. m = "pageContent" /\ v = "pageContent"
    BY <1>1, <1>7, <2>1
       DEF SiteViews, HomepageReads, SlideTables, PartnerTables, SettingsReads,
           PageReads, ClearsFirst
  <2>3. QED
    BY <2>2, OthersCleared
<1>8. QED
  BY <1>2, <1>3, <1>4, <1>5, <1>6, <1>7 DEF AllViews, AdminViews, FigureViews

\* The watched mutation is one the invariant speaks of.
Promised ==
    /\ watched \in AdminMutations
    /\ ~ClearsFirst(watched)
    /\ <<watched, view>> \notin Uncleared

Pending(w) == Pc(w) = "committed" /\ write[w].mutation = watched

NothingMisses ==
    /\ entry # None => entry.shows # "misses"
    /\ \A r \in Readers : read[r] # None => read[r].data.shows # "misses"

\* The answers under way must satisfy what the entry does: any of them may
\* become the entry.
MissInv ==
    /\ watched \in Touching(view)
    /\ Promised => NothingMisses \/ \E w \in Writers : Pending(w)

\* What becomes of an answer when m commits, and when its turn has passed.
LEMMA ShowsAfter ==
  ASSUME NEW d \in Answer, NEW m
  PROVE  /\ m # watched => Missing(d, m) = d /\ Passed(d, m) = d
         /\ d.shows # "misses" => Passed(d, m).shows # "misses"
         /\ m = watched => Passed(d, m).shows # "misses"
  BY DEF Missing, Passed, Answer, Shows

LEMMA NextMiss == TypeOK /\ MissInv /\ [Next]_vars => MissInv'
<1> SUFFICES ASSUME TypeOK, MissInv, [Next]_vars PROVE MissInv'
  OBVIOUS
<1>0. UNCHANGED <<view, watched>>
  BY DEF Next, Ask, Query, Fill, ReadFails, Send, Reject, Commit, Return, Lose,
         LoseAnswer, CommitAdrift, Sink, Restart, Tick, vars
<1> SUFFICES ASSUME Promised, NothingMisses \/ \E w \in Writers : Pending(w)
             PROVE  NothingMisses' \/ \E w \in Writers : Pending(w)'
  BY <1>0 DEF MissInv, Promised, Touching
<1> USE DEF TypeOK
<1>1. view \in AllViews /\ watched \in Touching(view)
  BY ViewsAssumption DEF MissInv
<1>2. view \in Clears(watched) /\ ~ClearsFirst(watched)
  BY <1>1, InvalidationComplete DEF Promised
\* Steps of readers and of the clock leave the writers as they are, and show
\* what was shown.
<1>3. ASSUME write' = write,
             NothingMisses => NothingMisses'
      PROVE  NothingMisses' \/ \E w \in Writers : Pending(w)'
  BY <1>0, <1>3 DEF Pending, Pc
<1>4. ASSUME NEW r \in Readers, Ask(r) \/ Query(r) \/ Fill(r) \/ ReadFails(r)
      PROVE  NothingMisses' \/ \E w \in Writers : Pending(w)'
  <2>1. CASE Ask(r)
    <3>1. \A q \in Readers : read'[q] = IF q = r THEN Asked ELSE read[q]
      BY <2>1 DEF Ask
    <3>2. Asked.data.shows = "all"
      BY DEF Asked
    <3>3. QED
      BY <1>3, <2>1, <3>1, <3>2 DEF Ask, NothingMisses
  <2>2. CASE Query(r)
    <3>1. \A q \in Readers : /\ read'[q] # None => read[q] # None
                             /\ read[q] # None => read'[q].data = read[q].data
      BY <2>2 DEF Query, Reading
    <3>2. QED
      BY <1>3, <2>2, <3>1 DEF Query, NothingMisses
  <2>3. CASE Fill(r)
    <3>1. \A q \in Readers : read'[q] = IF q = r THEN None ELSE read[q]
      BY <2>3 DEF Fill
    <3>2. QED
      BY <1>3, <2>3, <3>1 DEF Fill, Answered, NothingMisses
  <2>4. CASE ReadFails(r)
    <3>1. \A q \in Readers : read'[q] = IF q = r THEN None ELSE read[q]
      BY <2>4 DEF ReadFails
    <3>2. QED
      BY <1>3, <2>4, <3>1 DEF ReadFails, NothingMisses
  <2>5. QED
    BY <1>4, <2>1, <2>2, <2>3, <2>4
\* Of the steps of a writer, its turn to empty the cache is what matters; the
\* step of another mutation leaves what is shown, and who is pending.
<1>5. ASSUME NEW w \in Writers, ~Pending(w),
             \A v \in Writers : v # w => write'[v] = write[v],
             NothingMisses => NothingMisses'
      PROVE  NothingMisses' \/ \E v \in Writers : Pending(v)'
  BY <1>0, <1>5 DEF Pending, Pc
<1>6. ASSUME NEW m, AllPassed(m), NothingMisses \/ m = watched, NEW r \in Readers,
             read'[r] # None
      PROVE  read'[r].data.shows # "misses"
  <2>1. read[r] # None /\ read'[r] = [read[r] EXCEPT !.data = Passed(@, m)]
    BY <1>6 DEF AllPassed
  <2>2. read[r] \in Reading /\ read[r].data \in Answer
    BY <2>1 DEF Reading
  <2>3. read'[r].data = Passed(read[r].data, m)
    BY <2>1, <2>2 DEF Reading
  <2>4. QED
    BY <1>6, <2>1, <2>2, <2>3, ShowsAfter DEF NothingMisses
<1>7. ASSUME NEW w \in Writers, NEW m \in Mutations, Send(w, m)
      PROVE  NothingMisses' \/ \E v \in Writers : Pending(v)'
  <2>1. ~Pending(w)
    BY <1>7 DEF Send, Pending, Pc
  <2>2. \A v \in Writers : v # w => write'[v] = write[v]
    BY <1>7 DEF Send
  <2>3. NothingMisses => NothingMisses'
    BY <1>7 DEF Send, NothingMisses
  <2>4. QED
    BY <1>5, <2>1, <2>2, <2>3
<1>8. ASSUME NEW w \in Writers,
             Reject(w) \/ Commit(w) \/ Return(w)
                \/ Lose(w) \/ LoseAnswer(w) \/ CommitAdrift(w) \/ Sink(w)
      PROVE  NothingMisses' \/ \E v \in Writers : Pending(v)'
  <2> DEFINE m == write[w].mutation
  <2>0. \A v \in Writers : v # w => write'[v] = write[v]
    BY <1>8 DEF Reject, Commit, Return, Lose, LoseAnswer, CommitAdrift, Sink
  <2>1. CASE Reject(w) \/ Lose(w) \/ Sink(w)
    <3>1. ~Pending(w)
      BY <2>1 DEF Reject, Lose, Sink, Pending
    <3>2. NothingMisses => NothingMisses'
      BY <2>1 DEF Reject, Lose, Sink, NothingMisses
    <3>3. QED
      BY <1>5, <2>0, <3>1, <3>2
  <2>2. CASE Commit(w)
    <3>1. CASE m = watched
      <4>1. write[w] # None /\ write[w] \in Writing
        BY <2>2 DEF Commit, Pc
      <4>2. write'[w] = [write[w] EXCEPT !.pc = "committed"]
        BY <2>2, <4>1 DEF Commit
      <4>3. write'[w] \in Writing
        BY <4>1, <4>2 DEF Writing
      <4>4. QED
        BY <1>0, <3>1, <4>1, <4>2, <4>3, NoneAssumption DEF Pending, Pc, Writing
    <3>2. CASE m # watched
      <4>1. ~Pending(w)
        BY <2>2 DEF Commit, Pending
      <4>2. entry' = entry
        BY <2>2, <3>2, ShowsAfter DEF Commit
      <4>3. ASSUME NEW r \in Readers, read'[r] # None
            PROVE  read[r] # None /\ read'[r].data = read[r].data
        <5>1. read[r] # None /\ read'[r] = Overtaken(r, Missing(read[r].data, m), m)
          BY <2>2, <4>3 DEF Commit
        <5>2. read[r] \in Reading /\ read[r].data \in Answer
          BY <5>1 DEF Reading
        <5>3. Missing(read[r].data, m) = read[r].data
          BY <3>2, <5>2, ShowsAfter
        <5>4. QED
          BY <5>1, <5>2, <5>3, OvertakenType
      <4>4. NothingMisses => NothingMisses'
        BY <4>2, <4>3 DEF NothingMisses
      <4>5. QED
        BY <1>5, <2>0, <4>1, <4>4
    <3>3. QED
      BY <3>1, <3>2
  <2>3. CASE Return(w)
    <3>1. CASE m = watched
      <4>1. AllPassed(m) /\ entry' = None
        BY <1>2, <2>3, <3>1 DEF Return, Empty
      <4>2. NothingMisses'
        BY <1>6, <3>1, <4>1 DEF NothingMisses
      <4>3. QED
        BY <4>2
    <3>2. CASE m # watched
      <4>1. ~Pending(w)
        BY <3>2 DEF Pending
      <4>2. ASSUME NothingMisses PROVE NothingMisses'
        <5>1. CASE AllPassed(m) /\ entry' = None
          BY <1>6, <4>2, <5>1 DEF NothingMisses
        <5>2. CASE UNCHANGED <<entry, read>>
          BY <4>2, <5>2 DEF NothingMisses
        <5>3. QED
          BY <2>3, <5>1, <5>2 DEF Return, Empty
      <4>3. QED
        BY <1>5, <2>0, <4>1, <4>2
    <3>3. QED
      BY <3>1, <3>2
  <2>4. CASE LoseAnswer(w)
    <3>1. AllPassed(m) /\ entry' = IF entry = None THEN None ELSE Passed(entry, m)
      BY <2>4 DEF LoseAnswer
    <3>2. ASSUME NothingMisses \/ m = watched PROVE NothingMisses'
      <4>1. entry' # None => entry'.shows # "misses"
        BY <3>1, <3>2, ShowsAfter DEF NothingMisses
      <4>2. QED
        BY <1>6, <3>1, <3>2, <4>1 DEF NothingMisses
    <3>3. CASE m = watched
      BY <3>2, <3>3
    <3>4. CASE m # watched
      <4>1. ~Pending(w)
        BY <3>4 DEF Pending
      <4>2. QED
        BY <1>5, <2>0, <3>2, <4>1
    <3>5. QED
      BY <3>3, <3>4
  <2>5. CASE CommitAdrift(w)
    <3> DEFINE Late(d) == Passed(Missing(d, m), m)
    <3>1. ASSUME NEW d \in Answer, d.shows # "misses"
          PROVE  Late(d).shows # "misses"
      <4>1. Missing(d, m) \in Answer
        BY DataType
      <4>2. CASE m = watched
        BY <4>1, <4>2, ShowsAfter
      <4>3. CASE m # watched
        BY <3>1, <4>3, ShowsAfter
      <4>4. QED
        BY <4>2, <4>3
    <3>2. entry' = IF entry = None THEN None ELSE Late(entry)
      BY <2>5 DEF CommitAdrift
    <3>3. read' = [r \in Readers |->
                IF read[r] = None THEN None ELSE Overtaken(r, Late(read[r].data), m)]
      BY <2>5 DEF CommitAdrift
    <3>4. ~Pending(w)
      BY <2>5 DEF CommitAdrift, Pending
    <3>8. ASSUME NEW d \in Answer PROVE Late(d) \in Answer
      <4>1. Missing(d, m) \in Answer
        BY DataType
      <4>2. QED
        BY <4>1, DataType
    <3> HIDE DEF Late
    <3>5. ASSUME NothingMisses, NEW r \in Readers, read'[r] # None
          PROVE  read'[r].data.shows # "misses"
      <4>1. read[r] # None /\ read'[r] = Overtaken(r, Late(read[r].data), m)
        BY <3>3, <3>5
      <4>2. read[r] \in Reading /\ read[r].data \in Answer
        BY <4>1 DEF Reading
      <4>3. read'[r].data \in {read[r].data, Late(read[r].data)}
        BY <3>8, <4>1, <4>2, OvertakenType
      <4>4. QED
        BY <3>1, <3>5, <4>1, <4>2, <4>3 DEF NothingMisses
    <3>6. NothingMisses => NothingMisses'
      BY <3>1, <3>2, <3>5 DEF NothingMisses
    <3>7. QED
      BY <1>5, <2>0, <3>4, <3>6
  <2>6. QED
    BY <1>8, <2>1, <2>2, <2>3, <2>4, <2>5
<1>9. CASE Restart
  BY <1>9 DEF Restart, NothingMisses
<1>10. CASE Tick
  <2>1. ASSUME NEW d \in Answer, NEW stamped, NEW taken
        PROVE  Older(d, stamped, taken).shows = d.shows
    BY DEF Older, Answer
  <2>2. entry' # None => entry # None /\ entry'.shows = entry.shows
    BY <1>10, <2>1 DEF Tick
  <2>3. ASSUME NEW r \in Readers, read'[r] # None
        PROVE  read[r] # None /\ read'[r].data.shows = read[r].data.shows
    <3>1. /\ read[r] # None
          /\ read'[r] = [read[r] EXCEPT !.data = Older(@, Stamped(r), Answered(r))]
      BY <1>10, <2>3 DEF Tick
    <3>2. read[r] \in Reading /\ read[r].data \in Answer
      BY <3>1 DEF Reading
    <3>3. read'[r].data = Older(read[r].data, Stamped(r), Answered(r))
      BY <3>1, <3>2 DEF Reading
    <3>4. QED
      BY <2>1, <3>1, <3>2, <3>3
  <2>4. NothingMisses => NothingMisses'
    BY <2>2, <2>3 DEF NothingMisses
  <2>5. QED
    BY <1>3, <1>10, <2>4 DEF Tick
<1>11. CASE UNCHANGED vars
  BY <1>3, <1>11 DEF vars, NothingMisses
<1>12. QED
  BY <1>4, <1>7, <1>8, <1>9, <1>10, <1>11 DEF Next

\* An update that has returned is missing from an entry only because a reader
\* had asked before, because its caller was told that it failed, or because of
\* the gaps that Uncleared and ClearsFirst name.
THEOREM RacesOnly == Spec => []UpdatesAreMissedByRacesOnly
<1>1. Init => MissInv
  BY DEF Init, MissInv, NothingMisses
<1>2. TypeOK /\ MissInv => UpdatesAreMissedByRacesOnly
  <2> SUFFICES ASSUME TypeOK, MissInv, Promised, entry # None,
                      entry.shows = "misses"
               PROVE  \E w \in Writers :
                        write[w] = [pc |-> "committed", mutation |-> watched]
    BY DEF UpdatesAreMissedByRacesOnly, Promised
  <2>1. PICK w \in Writers : Pending(w)
    BY DEF MissInv, NothingMisses
  <2>2. write[w] \in Writing
    BY <2>1 DEF TypeOK, Pending, Pc
  <2>3. QED
    BY <2>1, <2>2 DEF Pending, Pc, Writing
<1>3. QED
  BY <1>1, <1>2, InitType, NextType, NextMiss, PTL DEF Spec
=============================================================================
