-------------------------- MODULE AnalyticsProofs --------------------------
(***************************************************************************)
(* Proofs about Analytics, for any batches of any events, browsers, ranges,*)
(* retention, length of a day and limit of listed sources.                 *)
(***************************************************************************)
EXTENDS Analytics, FiniteSetTheorems, WellFoundedInduction, TLAPS

(***************************************************************************)
(* Counting.  The sums of a report are folds over finite sets; what a fold *)
(* computes is shown from the function that would be its result.           *)
(***************************************************************************)

\* What one function makes of a finite set is no larger than the set.
LEMMA ImageIsSmaller ==
    ASSUME NEW S, IsFiniteSet(S), NEW g,
           NEW T, \A t \in T : \E x \in S : t = g[x]
    PROVE  /\ IsFiniteSet(T) /\ Cardinality(T) \in Nat /\ Cardinality(S) \in Nat
           /\ Cardinality(T) <= Cardinality(S)
<1> DEFINE R == {x \in S : g[x] \in T}
           h == [x \in R |-> g[x]]
<1>1. IsFiniteSet(R) /\ Cardinality(R) <= Cardinality(S)
  BY FS_Subset
<1>2. h \in Surjection(R, T)
  BY DEF Surjection
<1>3. IsFiniteSet(T) /\ Cardinality(T) <= Cardinality(R)
  BY <1>1, <1>2, FS_Surjection
<1>4. QED
  BY <1>1, <1>3, FS_CardinalityType

\* A function that tells the members of a finite set apart keeps its size.
LEMMA RenamingKeepsSize ==
    ASSUME NEW S, IsFiniteSet(S), NEW g, NEW T,
           \A x \in S : g[x] \in T,
           \A t \in T : \E x \in S : t = g[x],
           \A x, y \in S : g[x] = g[y] => x = y
    PROVE  IsFiniteSet(T) /\ Cardinality(T) = Cardinality(S)
<1> DEFINE h == [x \in S |-> g[x]]
<1>1. h \in Surjection(S, T) /\ h \in Injection(S, T)
  <2>1. h \in [S -> T] /\ \A x \in S : h[x] = g[x]
    OBVIOUS
  <2> HIDE DEF h
  <2>2. QED
    BY <2>1 DEF Surjection, Injection, IsInjective
<1>2. QED
  BY <1>1, FS_Surjection

LEMMA PartIsSmaller ==
    ASSUME NEW B, IsFiniteSet(B), NEW A, A \subseteq B
    PROVE  /\ IsFiniteSet(A) /\ Cardinality(A) \in Nat /\ Cardinality(B) \in Nat
           /\ Cardinality(A) <= Cardinality(B)
BY FS_Subset, FS_CardinalityType

LEMMA UnionIsBounded ==
    ASSUME NEW A, IsFiniteSet(A), NEW B, IsFiniteSet(B)
    PROVE  /\ Cardinality(A) \in Nat /\ Cardinality(B) \in Nat
           /\ Cardinality(A \cup B) <= Cardinality(A) + Cardinality(B)
<1>1. IsFiniteSet(A \cap B)
  BY FS_Subset
<1>2. /\ Cardinality(A) \in Nat /\ Cardinality(B) \in Nat
      /\ Cardinality(A \cap B) \in Nat
  BY <1>1, FS_CardinalityType
<1>3. Cardinality(A \cup B)
        = Cardinality(A) + Cardinality(B) - Cardinality(A \cap B)
  BY FS_Union
<1>4. QED
  BY <1>2, <1>3

LEMMA DisjointSum ==
    ASSUME NEW A, IsFiniteSet(A), NEW B, IsFiniteSet(B), A \cap B = {}
    PROVE  Cardinality(A \cup B) = Cardinality(A) + Cardinality(B)
<1>1. Cardinality(A) \in Nat /\ Cardinality(B) \in Nat
  BY FS_CardinalityType
<1>2. Cardinality(A \cap B) = 0
  BY FS_EmptySet
<1>3. Cardinality(A \cup B) = Cardinality(A) + Cardinality(B) - 0
  BY <1>2, FS_Union
<1>4. QED
  BY <1>1, <1>3

LEMMA SumCounts ==
    ASSUME NEW X, IsFiniteSet(X), NEW f, IsFiniteSet(DOMAIN f),
           NEW g, \A x \in X : g[x] \in DOMAIN f,
           \A k \in DOMAIN f : f[k] = Cardinality({x \in X : g[x] = k})
    PROVE  SumFunction(f) = Cardinality(X)
<1> DEFINE K == DOMAIN f
           Least(s) == CHOOSE x \in s : TRUE
           Sums(it) == it = [s \in SUBSET K |->
                              IF s = {} THEN 0
                              ELSE f[Least(s)] + it[s \ {Least(s)}]]
           Below(s) == {x \in X : g[x] \in s}
           Count == [s \in SUBSET K |-> Cardinality(Below(s))]
<1>1. \A s : IsFiniteSet(Below(s)) /\ Cardinality(Below(s)) \in Nat
  BY FS_Subset, FS_CardinalityType
<1>2. ASSUME NEW s, s # {}
      PROVE  Cardinality(Below(s))
               = Cardinality({x \in X : g[x] = Least(s)})
                   + Cardinality(Below(s \ {Least(s)}))
  <2> DEFINE A == {x \in X : g[x] = Least(s)}
             B == Below(s \ {Least(s)})
  <2>1. Least(s) \in s
    BY <1>2
  <2>2. Below(s) = A \cup B /\ A \cap B = {}
    BY <2>1
  <2>3. IsFiniteSet(A) /\ IsFiniteSet(B)
    BY FS_Subset
  <2> HIDE DEF A, B, Below
  <2>4. Cardinality(A \cup B) = Cardinality(A) + Cardinality(B)
    BY <2>2, <2>3, DisjointSum
  <2>5. QED
    BY <2>2, <2>4 DEF A, B
<1>3. Sums(Count)
  <2> SUFFICES ASSUME NEW s \in SUBSET K
               PROVE  Count[s] = IF s = {} THEN 0
                                 ELSE f[Least(s)] + Count[s \ {Least(s)}]
    BY Zenon
  <2>1. CASE s = {}
    <3>1. Below(s) = {}
      BY <2>1
    <3> QED  BY <2>1, <3>1, FS_EmptySet
  <2>2. CASE s # {}
    <3>1. Least(s) \in K /\ s \ {Least(s)} \in SUBSET K
      BY <2>2
    <3> HIDE DEF Least, Below
    <3>2. Count[s] = Cardinality(Below(s))
          /\ Count[s \ {Least(s)}] = Cardinality(Below(s \ {Least(s)}))
      BY <3>1
    <3>3. QED
      BY <1>2, <2>2, <3>1, <3>2
  <2>3. QED
    BY <2>1, <2>2
<1>4. ASSUME NEW p, NEW q, Sums(p), Sums(q) PROVE p = q
  <2> DEFINE Differ == {s \in SUBSET K : p[s] # q[s]}
  <2>1. Differ = {}
    <3> SUFFICES ASSUME Differ # {} PROVE FALSE
      OBVIOUS
    <3>1. IsWellFoundedOn(StrictSubsetOrdering(K), FiniteSubsetsOf(K))
      BY FS_StrictSubsetOrderingWellFounded
    <3>2. Differ \subseteq FiniteSubsetsOf(K)
      BY FS_Subset DEF FiniteSubsetsOf
    <3>3. PICK s \in Differ :
              \A t \in Differ : <<t, s>> \notin StrictSubsetOrdering(K)
      BY <3>1, <3>2, WFMin, Zenon
    <3>4. /\ p[s] = IF s = {} THEN 0 ELSE f[Least(s)] + p[s \ {Least(s)}]
          /\ q[s] = IF s = {} THEN 0 ELSE f[Least(s)] + q[s \ {Least(s)}]
      BY <1>4, <3>3, Zenon
    <3>5. s # {}
      BY <3>3, <3>4
    <3>6. Least(s) \in s
      BY <3>5
    <3> DEFINE t == s \ {Least(s)}
    <3>7. t \in SUBSET K /\ t # s /\ t \subseteq s
      BY <3>3, <3>6
    <3>8. t \notin Differ
      BY <3>3, <3>7 DEF StrictSubsetOrdering
    <3>9. p[t] = q[t]
      BY <3>7, <3>8
    <3>10. QED
      BY <3>3, <3>4, <3>5, <3>9
  <2>2. QED
    BY <1>4, <2>1
<1>5. SumFunction(f) = (CHOOSE it : Sums(it))[K]
  BY DEF SumFunction, SumFunctionOnSet, FoldFunctionOnSet, MapThenFoldSet
<1>6. (CHOOSE it : Sums(it)) = Count
  <2> HIDE DEF Sums, Count
  <2>1. Sums(CHOOSE it : Sums(it))
    BY <1>3, Zenon
  <2> QED  BY <1>3, <1>4, <2>1, Zenon
<1>7. Below(K) = X
  OBVIOUS
<1>8. QED
  BY <1>5, <1>6, <1>7
(***************************************************************************)
(* The figures of a set of events.                                         *)
(***************************************************************************)

LEMMA FiguresAreFinite ==
    ASSUME NEW E, IsFiniteSet(E)
    PROVE  /\ IsFiniteSet(Views(E))
           /\ IsFiniteSet(SessionsOf(E)) /\ IsFiniteSet(SessionsOf(Views(E)))
           /\ IsFiniteSet(Converted(E))
           /\ IsFiniteSet(DayVisitors(E)) /\ IsFiniteSet(BrowserDays(E))
<1>1. IsFiniteSet(Views(E))
  BY FS_Subset DEF Views
<1>2. ASSUME NEW F, IsFiniteSet(F) PROVE IsFiniteSet(SessionsOf(F))
  <2> DEFINE g == [e \in F |-> e.session]
  <2>1. \A t \in SessionsOf(F) : \E e \in F : t = g[e]
    BY DEF SessionsOf
  <2> HIDE DEF g
  <2>2. QED
    BY <1>2, <2>1, ImageIsSmaller
<1>3. IsFiniteSet(DayVisitors(E))
  <2> DEFINE g == [e \in Views(E) |-> <<DayOf(e.at), VisitorId(e)>>]
  <2>1. \A t \in DayVisitors(E) : \E e \in Views(E) : t = g[e]
    BY DEF DayVisitors
  <2> HIDE DEF g
  <2>2. QED
    BY <1>1, <2>1, ImageIsSmaller
<1>4. IsFiniteSet(BrowserDays(E))
  <2> DEFINE g == [e \in Views(E) |-> <<e.browser, DayOf(e.at)>>]
  <2>1. \A t \in BrowserDays(E) : \E e \in Views(E) : t = g[e]
    BY DEF BrowserDays
  <2> HIDE DEF g
  <2>2. QED
    BY <1>1, <2>1, ImageIsSmaller
<1>5. Converted(E) \subseteq SessionsOf(Views(E))
  BY DEF Converted
<1>6. QED
  BY <1>1, <1>2, <1>3, <1>4, <1>5, FS_Subset

\* More events, larger figures.
LEMMA FiguresGrow ==
    ASSUME NEW A, NEW B, A \subseteq B
    PROVE  /\ Views(A) \subseteq Views(B)
           /\ SessionsOf(Views(A)) \subseteq SessionsOf(Views(B))
           /\ Converted(A) \subseteq Converted(B)
           /\ DayVisitors(A) \subseteq DayVisitors(B)
           /\ BrowserDays(A) \subseteq BrowserDays(B)
BY DEF Views, SessionsOf, Converted, DayVisitors, BrowserDays

\* On each day a browser has one visitor id, and one more for every id of an
\* earlier day it was stored under.
LEMMA VisitorsAreBrowsers ==
    ASSUME NEW E, IsFiniteSet(E)
    PROVE  /\ Cardinality(BrowserDays(E)) <= Cardinality(DayVisitors(E))
           /\ Cardinality(DayVisitors(E))
                <= Cardinality(BrowserDays(E))
                     + Cardinality(DayVisitors(AcrossMidnight(E)))
<1>1. IsFiniteSet(DayVisitors(E)) /\ IsFiniteSet(BrowserDays(E))
  BY FiguresAreFinite
<1>2. Cardinality(BrowserDays(E)) <= Cardinality(DayVisitors(E))
  <2> DEFINE g == [v \in DayVisitors(E) |-> <<v[2][1], v[1]>>]
  <2>1. \A t \in BrowserDays(E) : \E v \in DayVisitors(E) : t = g[v]
    <3> SUFFICES ASSUME NEW t \in BrowserDays(E)
                 PROVE  \E v \in DayVisitors(E) : t = g[v]
      OBVIOUS
    <3>1. PICK e \in Views(E) : t = <<e.browser, DayOf(e.at)>>
      BY DEF BrowserDays
    <3>2. <<DayOf(e.at), VisitorId(e)>> \in DayVisitors(E)
      BY DEF DayVisitors
    <3>3. g[<<DayOf(e.at), VisitorId(e)>>] = t
      BY <3>1, <3>2 DEF VisitorId
    <3>4. QED
      BY <3>2, <3>3
  <2> HIDE DEF g
  <2>2. QED
    BY <1>1, <2>1, ImageIsSmaller
<1>3. Cardinality(DayVisitors(E))
        <= Cardinality(BrowserDays(E))
             + Cardinality(DayVisitors(AcrossMidnight(E)))
  <2> DEFINE Across == DayVisitors(AcrossMidnight(E))
             Same == DayVisitors(E) \ Across
             g == [p \in BrowserDays(E) |-> <<p[2], <<p[1], p[2]>>>>]
  <2>1. \A t \in Same : \E p \in BrowserDays(E) : t = g[p]
    <3> SUFFICES ASSUME NEW t \in Same
                 PROVE  \E p \in BrowserDays(E) : t = g[p]
      OBVIOUS
    <3>1. PICK e \in Views(E) : t = <<DayOf(e.at), VisitorId(e)>>
      BY DEF DayVisitors
    <3>2. e.day = DayOf(e.at)
      <4> SUFFICES ASSUME e.day # DayOf(e.at) PROVE FALSE
        OBVIOUS
      <4>1. e \in Views(AcrossMidnight(E))
        BY DEF AcrossMidnight, Views
      <4>2. QED
        BY <3>1, <4>1 DEF DayVisitors
    <3>3. <<e.browser, DayOf(e.at)>> \in BrowserDays(E)
      BY DEF BrowserDays
    <3>4. QED
      BY <3>1, <3>2, <3>3 DEF VisitorId
  <2>2. Across \subseteq DayVisitors(E)
    BY FiguresGrow DEF AcrossMidnight, Views
  <2> HIDE DEF g, Across
  <2>3. IsFiniteSet(Same) /\ Cardinality(Same) <= Cardinality(BrowserDays(E))
    BY <1>1, <2>1, ImageIsSmaller
  <2>4. IsFiniteSet(Across)
    BY <1>1, <2>2, FS_Subset
  <2>5. DayVisitors(E) = Same \cup Across
    BY <2>2
  <2>6. Cardinality(DayVisitors(E)) <= Cardinality(Same) + Cardinality(Across)
    BY <2>3, <2>4, <2>5, UnionIsBounded
  <2>7. /\ Cardinality(Same) \in Nat /\ Cardinality(Across) \in Nat
        /\ Cardinality(BrowserDays(E)) \in Nat
        /\ Cardinality(DayVisitors(E)) \in Nat
    BY <1>1, <2>3, <2>4, FS_CardinalityType
  <2>8. QED
    BY <2>3, <2>6, <2>7 DEF Across
<1>4. QED
  BY <1>2, <1>3

\* Figures of a set of events that misses none of some and counts none but
\* others.
LEMMA TotalsAreBetween ==
    ASSUME NEW least, NEW E, NEW most, IsFiniteSet(most),
           least \subseteq E, E \subseteq most
    PROVE  /\ Cardinality(Views(least)) <= Totals(E).pageviews
           /\ Totals(E).pageviews <= Cardinality(Views(most))
           /\ Cardinality(SessionsOf(Views(least))) <= Totals(E).sessions
           /\ Totals(E).sessions <= Cardinality(SessionsOf(Views(most)))
           /\ Cardinality(Converted(least)) <= Totals(E).converted
           /\ Totals(E).converted <= Cardinality(Converted(most))
           /\ Cardinality(BrowserDays(least)) <= Totals(E).visitors
           /\ Totals(E).visitors <= Cardinality(BrowserDays(most))
                           + Cardinality(DayVisitors(AcrossMidnight(most)))
<1>1. IsFiniteSet(E)
  BY FS_Subset
<1>2. /\ Cardinality(Views(least)) <= Cardinality(Views(E))
      /\ Cardinality(Views(E)) <= Cardinality(Views(most))
      /\ Cardinality(SessionsOf(Views(least))) <= Cardinality(SessionsOf(Views(E)))
      /\ Cardinality(SessionsOf(Views(E))) <= Cardinality(SessionsOf(Views(most)))
      /\ Cardinality(Converted(least)) <= Cardinality(Converted(E))
      /\ Cardinality(Converted(E)) <= Cardinality(Converted(most))
  BY <1>1, FiguresAreFinite, FiguresGrow, PartIsSmaller
<1>3. /\ Cardinality(BrowserDays(least)) <= Cardinality(BrowserDays(E))
      /\ Cardinality(DayVisitors(E)) <= Cardinality(DayVisitors(most))
  BY <1>1, FiguresAreFinite, FiguresGrow, PartIsSmaller
<1>4. /\ Cardinality(BrowserDays(E)) <= Cardinality(DayVisitors(E))
      /\ Cardinality(DayVisitors(most))
           <= Cardinality(BrowserDays(most))
                + Cardinality(DayVisitors(AcrossMidnight(most)))
  BY <1>1, VisitorsAreBrowsers
<1>5. /\ IsFiniteSet(BrowserDays(least)) /\ IsFiniteSet(BrowserDays(E))
      /\ IsFiniteSet(BrowserDays(most)) /\ IsFiniteSet(DayVisitors(E))
      /\ IsFiniteSet(DayVisitors(most))
      /\ IsFiniteSet(DayVisitors(AcrossMidnight(most)))
  <2>1. IsFiniteSet(least)
    BY <1>1, FS_Subset
  <2>2. IsFiniteSet(AcrossMidnight(most))
    BY FS_Subset DEF AcrossMidnight, Views
  <2>3. QED
    BY <1>1, <2>1, <2>2, FiguresAreFinite
<1>6. /\ Cardinality(BrowserDays(least)) \in Nat
      /\ Cardinality(BrowserDays(E)) \in Nat
      /\ Cardinality(BrowserDays(most)) \in Nat
      /\ Cardinality(DayVisitors(E)) \in Nat
      /\ Cardinality(DayVisitors(most)) \in Nat
      /\ Cardinality(DayVisitors(AcrossMidnight(most))) \in Nat
  BY <1>5, FS_CardinalityType
<1>7. /\ Cardinality(BrowserDays(least)) <= Cardinality(DayVisitors(E))
      /\ Cardinality(DayVisitors(E))
           <= Cardinality(BrowserDays(most))
                + Cardinality(DayVisitors(AcrossMidnight(most)))
  BY <1>3, <1>4, <1>6
<1>8. QED
  BY <1>2, <1>7 DEF Totals

(***************************************************************************)
(* Types, and what is known of the table: it has lost what is older than   *)
(* the retention only, and every event has a number of its own.            *)
(***************************************************************************)

LEMMA DaysGoOn ==
    ASSUME NEW s \in Int, NEW t \in Int, s <= t
    PROVE  DayOf(s) \in Int /\ DayOf(s) <= DayOf(t)
BY TimeAssumption DEF DayOf

Retention == RetentionDays * DayLength

LEMMA RetentionType == Retention \in Nat /\ NoPurge \in Int /\ NoPurge <= 0 - Retention
BY TimeAssumption DEF Retention, NoPurge

OneEventPerNumber == \A e, f \in tracked : e.id = f.id => e = f

LostAreOld == \A e \in tracked \ events : e.at < now - Retention

TableInv ==
    /\ IsFiniteSet(tracked)
    /\ cutoff \in Int
    /\ OneEventPerNumber
    /\ LostAreOld

LEMMA RowsAreFinite ==
    ASSUME NEW b \in Batches
    PROVE  /\ IsFiniteSet(Rows(b))
           /\ \A i \in Rows(b) :
                /\ i \in Int
                /\ Sent[b][i].type \in EventTypes /\ Sent[b][i].session \in Sessions
                /\ Sent[b][i].source \in Origins
<1> DEFINE E == [type : EventTypes, page : Pages, session : Sessions, source : Origins]
<1>1. Sent[b] \in Seq(E)
  BY BatchAssumption
<1>2. /\ DOMAIN Sent[b] = 1..Len(Sent[b]) /\ Len(Sent[b]) \in Nat
      /\ \A i \in 1..Len(Sent[b]) : Sent[b][i] \in E
  <2> HIDE DEF E
  <2>1. QED
    BY <1>1
<1> HIDE DEF E
<1>3. IsFiniteSet(1..Len(Sent[b]))
  BY <1>2, FS_Interval
<1>4. Rows(b) \subseteq 1..Len(Sent[b])
  BY <1>2 DEF Rows
<1>5. IsFiniteSet(Rows(b))
  BY <1>3, <1>4, FS_Subset
<1>6. \A i \in Rows(b) : i \in Int /\ Sent[b][i] \in E
  BY <1>2, <1>4
<1>7. QED
  BY <1>5, <1>6 DEF E

\* A numbering gives the rows of a batch numbers of their own, all new.
LEMMA NumbersAreNew ==
    ASSUME NEW b \in Batches, NEW ids \in Numberings(b)
    PROVE  /\ \A i \in Rows(b) : ids[i] \in 1..MaxId
           /\ \A i \in Rows(b), e \in tracked : ids[i] # e.id
           /\ \A i, j \in Rows(b) : ids[i] = ids[j] => i = j
<1> DEFINE Free == (1..MaxId) \ {e.id : e \in tracked}
<1>1. /\ ids \in [Rows(b) -> Free]
      /\ \A i \in DOMAIN ids : \A j \in DOMAIN ids : i < j => ids[i] < ids[j]
  BY DEF Numberings
<1>2. /\ \A i \in Rows(b) : ids[i] \in Free
      /\ \A i, j \in Rows(b) : i < j => ids[i] < ids[j]
  BY <1>1
<1>3. \A i \in Rows(b) : ids[i] \in 1..MaxId /\ ids[i] \in Int
  BY <1>2
<1>4. \A i \in Rows(b), e \in tracked : ids[i] # e.id
  BY <1>2
<1> HIDE DEF Free
<1>5. ASSUME NEW i \in Rows(b), NEW j \in Rows(b), ids[i] = ids[j] PROVE i = j
  <2>1. i \in Int /\ j \in Int /\ ids[i] \in Int
    BY <1>3, RowsAreFinite
  <2>2. ~(i < j) /\ ~(j < i)
    BY <1>2, <1>5, <2>1
  <2>3. QED
    BY <2>1, <2>2
<1>6. QED
  BY <1>3, <1>4, <1>5

\* What a batch stores.
LEMMA StoredEvents ==
    ASSUME TypeOK, NEW b \in Batches, NEW ids \in Numberings(b),
           NEW at \in batch[b].at..now
    PROVE  /\ IsFiniteSet(EventsOf(b, ids, at))
           /\ EventsOf(b, ids, at) \subseteq Event
           /\ \A e \in EventsOf(b, ids, at) : e.day <= DayOf(e.at) /\ e.at <= now
           /\ \A e, f \in EventsOf(b, ids, at) : e.id = f.id => e = f
           /\ \A e \in EventsOf(b, ids, at), f \in tracked : e.id # f.id
<1> DEFINE g == [i \in Rows(b) |->
                   [id |-> ids[i], type |-> Sent[b][i].type,
                    session |-> Sent[b][i].session, browser |-> Browser[b],
                    day |-> DayOf(batch[b].at), source |-> Sent[b][i].source,
                    at |-> at]]
<1>1. /\ batch[b].at \in Int /\ now \in Int /\ at \in Int
      /\ batch[b].at <= at /\ at <= now
  BY TimeAssumption DEF TypeOK
<1>2. DayOf(batch[b].at) \in Int /\ DayOf(batch[b].at) <= DayOf(at)
  BY <1>1, DaysGoOn
<1>3. \A t \in EventsOf(b, ids, at) : \E i \in Rows(b) : t = g[i]
  BY DEF EventsOf
<1>4. \A i \in Rows(b) : /\ g[i].id = ids[i] /\ g[i] \in Event
                         /\ g[i].day <= DayOf(g[i].at) /\ g[i].at <= now
  <2> SUFFICES ASSUME NEW i \in Rows(b)
               PROVE  /\ g[i].id = ids[i] /\ g[i] \in Event
                      /\ g[i].day <= DayOf(g[i].at) /\ g[i].at <= now
    OBVIOUS
  <2>1. /\ Sent[b][i].type \in EventTypes /\ Sent[b][i].session \in Sessions
        /\ Sent[b][i].source \in Origins /\ ids[i] \in 1..MaxId
    BY RowsAreFinite, NumbersAreNew
  <2>2. QED
    BY <1>1, <1>2, <2>1 DEF Event
<1> HIDE DEF g
<1>5. IsFiniteSet(EventsOf(b, ids, at))
  BY <1>3, RowsAreFinite, ImageIsSmaller
<1>6. ASSUME NEW e \in EventsOf(b, ids, at), NEW f \in EventsOf(b, ids, at),
             e.id = f.id
      PROVE  e = f
  <2>1. PICK i \in Rows(b), j \in Rows(b) : e = g[i] /\ f = g[j]
    BY <1>3
  <2>2. i = j
    BY <1>4, <1>6, <2>1, NumbersAreNew
  <2>3. QED
    BY <2>1, <2>2
<1>7. ASSUME NEW e \in EventsOf(b, ids, at), NEW f \in tracked PROVE e.id # f.id
  BY <1>3, <1>4, NumbersAreNew
<1>8. QED
  BY <1>3, <1>4, <1>5, <1>6, <1>7

\* What any step may do to the table and to time.
LEMMA TableStep ==
    ASSUME TypeOK, TableInv, [Next]_vars
    PROVE  /\ now' \in 0..MaxNow /\ now <= now'
           /\ cutoff' \in Int /\ cutoff' <= now' - Retention
           /\ tracked \subseteq tracked' /\ events' \subseteq tracked'
           /\ tracked' \subseteq Event /\ IsFiniteSet(tracked')
           /\ \A e \in tracked' : e.day <= DayOf(e.at) /\ e.at <= now'
           /\ OneEventPerNumber' /\ LostAreOld'
<1> DEFINE Goal == /\ now' \in 0..MaxNow /\ now <= now'
                   /\ cutoff' \in Int /\ cutoff' <= now' - Retention
                   /\ tracked \subseteq tracked' /\ events' \subseteq tracked'
                   /\ tracked' \subseteq Event /\ IsFiniteSet(tracked')
                   /\ \A e \in tracked' : e.day <= DayOf(e.at) /\ e.at <= now'
                   /\ OneEventPerNumber' /\ LostAreOld'
<1> SUFFICES Goal
  OBVIOUS
<1> USE RetentionType, TimeAssumption DEF TypeOK, TableInv, Retention
<1>1. now \in 0..MaxNow /\ cutoff \in Int /\ cutoff <= now - Retention
  OBVIOUS
<1>2. ASSUME NEW b \in Batches, Store(b) PROVE Goal
  <2>1. PICK ids \in Numberings(b), at \in batch[b].at..now :
            /\ events' = events \cup EventsOf(b, ids, at)
            /\ tracked' = tracked \cup EventsOf(b, ids, at)
    BY <1>2 DEF Store
  <2>2. now' = now /\ cutoff' \in {cutoff, now - Retention}
    BY <1>2 DEF Store
  <2> DEFINE N == EventsOf(b, ids, at)
  <2>3. /\ IsFiniteSet(N) /\ N \subseteq Event
        /\ \A e \in N : e.day <= DayOf(e.at) /\ e.at <= now
        /\ \A e, f \in N : e.id = f.id => e = f
        /\ \A e \in N, f \in tracked : e.id # f.id
    BY StoredEvents
  <2> HIDE DEF N
  <2>4. IsFiniteSet(tracked')
    BY <2>1, <2>3, FS_Union DEF N
  <2>5. OneEventPerNumber'
    BY <2>1, <2>3 DEF OneEventPerNumber, N
  <2>6. LostAreOld'
    BY <2>1, <2>2 DEF LostAreOld
  <2>7. QED
    BY <1>1, <2>1, <2>2, <2>3, <2>4, <2>5, <2>6 DEF N
<1>3. CASE Purge
  <2>1. \A e \in tracked : e.at \in Int
    BY DEF Event
  <2>2. LostAreOld'
    BY <1>1, <1>3, <2>1 DEF Purge, Expired, LostAreOld
  <2>3. QED
    BY <1>1, <1>3, <2>2 DEF Purge, OneEventPerNumber
<1>4. CASE PurgeError
  BY <1>1, <1>4 DEF PurgeError, OneEventPerNumber, LostAreOld
<1>5. CASE Tick
  <2>1. \A e \in tracked : e.at \in Int
    BY DEF Event
  <2>2. LostAreOld'
    BY <1>1, <1>5, <2>1 DEF Tick, LostAreOld
  <2>3. \A e \in tracked' : e.day <= DayOf(e.at) /\ e.at <= now'
    BY <1>1, <1>5, <2>1 DEF Tick
  <2>4. QED
    BY <1>1, <1>5, <2>2, <2>3 DEF Tick, OneEventPerNumber
<1>6. ASSUME UNCHANGED <<now, events, tracked, cutoff>> PROVE Goal
  BY <1>1, <1>6 DEF OneEventPerNumber, LostAreOld
<1>7. QED
  <2>1. CASE \E b \in Batches : Receive(b) \/ StoreError(b)
    <3>1. UNCHANGED <<now, events, tracked, cutoff>>
      BY <2>1 DEF Receive, StoreError
    <3>2. QED
      BY <1>6, <3>1
  <2>2. CASE \/ \E range \in Ranges : Ask(range)
             \/ \E s \in Statements : Read(s)
             \/ ReadError
    <3>1. UNCHANGED <<now, events, tracked, cutoff>>
      BY <2>2 DEF Ask, Read, ReadError
    <3>2. QED
      BY <1>6, <3>1
  <2>3. CASE UNCHANGED vars
    <3>1. UNCHANGED <<now, events, tracked, cutoff>>
      BY <2>3 DEF vars
    <3>2. QED
      BY <1>6, <3>1
  <2>4. QED
    BY <1>2, <1>3, <1>4, <1>5, <2>1, <2>2, <2>3 DEF Next

LEMMA NextReport ==
    ASSUME TypeOK, TableInv, [Next]_vars
    PROVE  report' \in {NoReport, Refused, Failed} \/ ReportOK(report)'
<1> DEFINE Goal == report' \in {NoReport, Refused, Failed} \/ ReportOK(report)'
<1> SUFFICES Goal
  OBVIOUS
<1>1. now \in Nat /\ now' \in Nat /\ now <= now' /\ tracked \subseteq tracked'
  BY TableStep, TimeAssumption DEF TypeOK
<1>2. ASSUME UNCHANGED report PROVE Goal
  BY <1>1, <1>2 DEF TypeOK, ReportOK
<1>3. ASSUME NEW E, report' = Disturbed(E) PROVE Goal
  <2>1. CASE ~Disturbs(E)
    BY <1>2, <1>3, <2>1 DEF Disturbed
  <2>2. CASE Disturbs(E)
    <3>1. report.pc = "running" /\ ReportOK(report)
      BY <2>2 DEF Disturbs, TypeOK, NoReport, Refused, Failed
    <3>2. report' = [report EXCEPT !.disturbed = TRUE]
      BY <1>3, <2>2 DEF Disturbed
    <3>3. QED
      BY <1>1, <3>1, <3>2 DEF ReportOK, ReportFields
  <2>3. QED
    BY <2>1, <2>2
<1>4. ASSUME NEW range \in Ranges, Ask(range) PROVE Goal
  <2>1. CASE ~ValidRange(range)
    BY <1>4, <2>1 DEF Ask
  <2>2. CASE ValidRange(range)
    <3>1. /\ range.from \in Int /\ range.to \in Int
          /\ range.from <= range.to
          /\ range.to - range.from + 1 <= MaxRangeDays
      BY <2>2, RangeAssumption DEF ValidRange
    <3>2. report' = [pc |-> "running", range |-> range, read |-> {},
                     result |-> <<>>, known |-> tracked, ended |-> 0,
                     disturbed |-> FALSE]
      BY <1>4, <2>2 DEF Ask
    <3>3. range.to - range.from < MaxRangeDays
      BY <3>1, TimeAssumption
    <3>4. QED
      BY <1>1, <3>1, <3>2, <3>3 DEF ReportOK, ReportFields, Statements
  <2>3. QED
    BY <2>1, <2>2
<1>5. ASSUME NEW s \in Statements, Read(s) PROVE Goal
  <2>1. report.pc = "running" /\ s \notin report.read /\ ReportOK(report)
    BY <1>5 DEF Read, TypeOK, NoReport, Refused, Failed
  <2>2. /\ DOMAIN report' = ReportFields
        /\ report'.pc = IF Last(s) THEN "done" ELSE "running"
        /\ report'.range = report.range
        /\ report'.read = report.read \cup {s}
        /\ DOMAIN report'.result = report.read \cup {s}
        /\ report'.known = report.known
        /\ report'.ended = IF Last(s) THEN now ELSE 0
        /\ report'.disturbed = report.disturbed
    BY <1>5, <2>1 DEF Read, ReportOK, ReportFields
  <2>3. QED
    BY <1>1, <2>1, <2>2 DEF ReportOK, Last
<1>6. CASE ReadError
  BY <1>6 DEF ReadError
<1>7. QED
  <2>1. CASE \E b \in Batches : Receive(b) \/ StoreError(b)
    BY <1>2, <2>1 DEF Receive, StoreError
  <2>2. CASE \E b \in Batches : Store(b)
    BY <1>3, <2>2 DEF Store
  <2>3. CASE Purge
    BY <1>3, <2>3 DEF Purge
  <2>4. CASE PurgeError \/ Tick \/ UNCHANGED vars
    BY <1>2, <2>4 DEF PurgeError, Tick, vars
  <2>5. QED
    BY <1>4, <1>5, <1>6, <2>1, <2>2, <2>3, <2>4 DEF Next

LEMMA NextBatch ==
    ASSUME TypeOK, [Next]_vars
    PROVE  batch' \in [Batches -> [pc : {"idle", "received", "stored", "dropped"},
                                   at : 0..MaxNow]]
<1> USE TimeAssumption DEF TypeOK
<1>1. ASSUME NEW b \in Batches, Receive(b) \/ Store(b) \/ StoreError(b)
      PROVE  batch' \in [Batches -> [pc : {"idle", "received", "stored", "dropped"},
                                     at : 0..MaxNow]]
  BY <1>1 DEF Receive, Store, StoreError
<1>2. CASE UNCHANGED batch
  BY <1>2
<1>3. QED
  BY <1>1, <1>2 DEF Next, Purge, PurgeError, Ask, Read, ReadError, Tick, vars

LEMMA TypeAndTable == Spec => [](TypeOK /\ TableInv)
<1>1. Init => TypeOK /\ TableInv
  BY RetentionType, TimeAssumption, FS_EmptySet
     DEF Init, TypeOK, TableInv, OneEventPerNumber, LostAreOld, Retention
<1>2. TypeOK /\ TableInv /\ [Next]_vars => TypeOK' /\ TableInv'
  BY TableStep, NextReport, NextBatch DEF TypeOK, TableInv, Retention
<1>3. QED
  BY <1>1, <1>2, PTL DEF Spec

\* Every variable keeps its type: a report runs over a valid range, ends when
\* its last statement has answered, and the purge never waits on a time that
\* is within the retention.
THEOREM TypeCorrect == Spec => []TypeOK
BY TypeAndTable, PTL

(***************************************************************************)
(* Totals.  Each reading of the totals is of a table that the report and   *)
(* what was stored bound from below and above.                             *)
(***************************************************************************)

\* When the last statement of the report was read, or now.
ReadBy == IF report.pc = "done" THEN report.ended ELSE now

Period(s) == IF s = "totals" THEN report.range ELSE Previous(report.range)

HasFields == report \notin {NoReport, Refused, Failed}

\* Totals are those of a table that held all the report knew, but for what had
\* expired.
TotalsInv ==
    HasFields =>
        \A s \in report.read \cap {"totals", "previous"} :
            \E E \in SUBSET tracked :
                /\ report.result[s] = Totals(Within(Interval(Period(s)), E))
                /\ \A e \in report.known \ E : e.at < ReadBy - Retention

LEMMA ReportTypes ==
    ASSUME TypeOK, HasFields
    PROVE  /\ ReportOK(report)
           /\ ReadBy \in Int /\ ReadBy <= now /\ now \in Int
           /\ \A e \in report.known : e \in tracked /\ e.at \in Int
BY TimeAssumption DEF TypeOK, HasFields, ReportOK, ReadBy, Event

\* Totals that were read stay true as time goes on and events are stored.
LEMMA TotalsKept ==
    ASSUME TypeOK, TableInv, TotalsInv, HasFields,
           tracked \subseteq tracked', ReadBy <= ReadBy', ReadBy' \in Int,
           report'.read = report.read, report'.result = report.result,
           report'.range = report.range, report'.known = report.known
    PROVE  TotalsInv'
<1> SUFFICES ASSUME NEW s \in report.read \cap {"totals", "previous"}
             PROVE  \E E \in SUBSET tracked' :
                      /\ report.result[s]
                           = Totals(Within(Interval(Period(s)'), E))
                      /\ \A e \in report.known \ E : e.at < ReadBy' - Retention
  BY DEF TotalsInv
<1>1. Period(s)' = Period(s)
  BY DEF Period
<1>2. PICK E \in SUBSET tracked :
          /\ report.result[s] = Totals(Within(Interval(Period(s)), E))
          /\ \A e \in report.known \ E : e.at < ReadBy - Retention
  BY DEF TotalsInv
<1>3. \A e \in report.known \ E : e.at < ReadBy' - Retention
  BY <1>2, ReportTypes, RetentionType
<1>4. QED
  BY <1>1, <1>2, <1>3

LEMMA NextTotals ==
    ASSUME TypeOK, TableInv, TotalsInv, [Next]_vars
    PROVE  TotalsInv'
<1>1. /\ now \in Int /\ now' \in Int /\ now <= now' /\ tracked \subseteq tracked'
      /\ tracked \subseteq Event
  BY TableStep, TimeAssumption DEF TypeOK
<1>2. ASSUME UNCHANGED report PROVE TotalsInv'
  <2>1. CASE ~HasFields
    BY <1>2, <2>1 DEF TotalsInv, HasFields
  <2>2. CASE HasFields
    <3>1. ReadBy <= ReadBy' /\ ReadBy' \in Int
      BY <1>1, <1>2, <2>2, ReportTypes DEF ReadBy
    <3>2. QED
      BY <1>1, <1>2, <2>2, <3>1, TotalsKept
  <2>3. QED
    BY <2>1, <2>2
<1>3. ASSUME NEW E, report' = Disturbed(E) PROVE TotalsInv'
  <2>1. CASE ~Disturbs(E)
    BY <1>2, <1>3, <2>1 DEF Disturbed
  <2>2. CASE Disturbs(E)
    <3>1. report.pc = "running" /\ HasFields /\ ReportOK(report)
      BY <2>2 DEF Disturbs, TypeOK, NoReport, Refused, Failed, HasFields
    <3>2. report' = [report EXCEPT !.disturbed = TRUE]
      BY <1>3, <2>2 DEF Disturbed
    <3>3. /\ report'.pc = "running"
          /\ report'.read = report.read /\ report'.result = report.result
          /\ report'.range = report.range /\ report'.known = report.known
      BY <3>1, <3>2 DEF ReportOK, ReportFields
    <3>4. ReadBy <= ReadBy' /\ ReadBy' \in Int
      BY <1>1, <3>1, <3>3 DEF ReadBy
    <3>5. QED
      BY <1>1, <3>1, <3>3, <3>4, TotalsKept
  <2>3. QED
    BY <2>1, <2>2
<1>4. ASSUME NEW range \in Ranges, Ask(range) PROVE TotalsInv'
  <2>1. CASE ~ValidRange(range)
    BY <1>4, <2>1 DEF Ask, TotalsInv, HasFields
  <2>2. CASE ValidRange(range)
    <3>1. report'.read = {}
      BY <1>4, <2>2 DEF Ask
    <3>2. QED
      BY <3>1 DEF TotalsInv
  <2>3. QED
    BY <2>1, <2>2
<1>5. ASSUME NEW s \in Statements, Read(s) PROVE TotalsInv'
  <2>1. report.pc = "running" /\ HasFields /\ ReportOK(report)
    BY <1>5 DEF Read, TypeOK, NoReport, Refused, Failed, HasFields
  <2>2. PICK answer \in Answers(s, report.range) :
        /\ report'.pc = IF Last(s) THEN "done" ELSE "running"
        /\ report'.range = report.range
        /\ report'.read = report.read \cup {s}
        /\ report'.result = [x \in report.read \cup {s} |->
                               IF x = s THEN answer ELSE report.result[x]]
        /\ report'.known = report.known
        /\ report'.ended = IF Last(s) THEN now ELSE 0
    BY <1>5, <2>1 DEF Read, ReportOK, ReportFields
  <2>3. UNCHANGED <<now, events, tracked>>
    BY <1>5 DEF Read
  <2>4. ReadBy = now /\ ReadBy' = now
    BY <2>1, <2>2, <2>3 DEF ReadBy
  <2> SUFFICES ASSUME NEW x \in report'.read \cap {"totals", "previous"}
               PROVE  \E E \in SUBSET tracked :
                        /\ report'.result[x]
                             = Totals(Within(Interval(Period(x)), E))
                        /\ \A e \in report.known \ E : e.at < now - Retention
    BY <2>2, <2>3, <2>4 DEF TotalsInv, Period
  <2>5. CASE x # s
    <3>1. x \in report.read \cap {"totals", "previous"}
      BY <2>2, <2>5
    <3>2. report'.result[x] = report.result[x]
      BY <2>2, <2>5
    <3>3. QED
      BY <2>1, <2>4, <3>1, <3>2 DEF TotalsInv
  <2>6. CASE x = s
    <3>1. report'.result[x] \in Answers(x, report.range)
      BY <2>2, <2>6
    <3>2. Answers(x, report.range) = {Totals(Within(Interval(Period(x)), events))}
      BY DEF Answers, Period
    <3>3. \A e \in report.known \ events : e.at < now - Retention
      BY <2>1, ReportTypes DEF TableInv, LostAreOld
    <3>4. events \in SUBSET tracked
      BY DEF TypeOK
    <3>5. QED
      BY <3>1, <3>2, <3>3, <3>4
  <2>7. QED
    BY <2>5, <2>6
<1>6. CASE ReadError
  BY <1>6 DEF ReadError, TotalsInv, HasFields
<1>7. QED
  <2>1. CASE \E b \in Batches : Receive(b) \/ StoreError(b)
    BY <1>2, <2>1 DEF Receive, StoreError
  <2>2. CASE \E b \in Batches : Store(b)
    BY <1>3, <2>2 DEF Store
  <2>3. CASE Purge
    BY <1>3, <2>3 DEF Purge
  <2>4. CASE PurgeError \/ Tick \/ UNCHANGED vars
    BY <1>2, <2>4 DEF PurgeError, Tick, vars
  <2>5. QED
    BY <1>4, <1>5, <1>6, <2>1, <2>2, <2>3, <2>4 DEF Next

\* A finished report misses no event that it knew and that its periods still
\* held by the retention, and counts nobody twice in a day but for the ids that
\* crossed midnight.
THEOREM TotalsHold == Spec => []TotalsAreTrue
<1>1. Init => TotalsInv
  BY DEF Init, TotalsInv, HasFields
<1>2. TypeOK /\ TableInv /\ TotalsInv => TotalsAreTrue
  <2> SUFFICES ASSUME TypeOK, TableInv, TotalsInv, report.pc = "done",
                      NEW s \in {"totals", "previous"},
                      report.ended - Retention <= Interval(Period(s)).start
               PROVE  Between(report.result[s], Interval(Period(s)), report.known)
    BY DEF TotalsAreTrue, Period, Retention
  <2>1. HasFields /\ ReportOK(report) /\ report.read = Statements
    BY DEF TypeOK, NoReport, Refused, Failed, HasFields, ReportOK
  <2>2. PICK E \in SUBSET tracked :
            /\ report.result[s] = Totals(Within(Interval(Period(s)), E))
            /\ \A e \in report.known \ E : e.at < report.ended - Retention
    BY <2>1 DEF TotalsInv, ReadBy, Statements
  <2>3. /\ report.ended \in Int /\ Retention \in Int
        /\ Interval(Period(s)).start \in Int
    <3>1. report.ended \in Int
      BY <2>1, TimeAssumption DEF ReportOK, TypeOK
    <3>2. Period(s).from \in Int
      BY <2>1, RangeAssumption DEF ReportOK, Period, Previous
    <3>3. QED
      BY <3>1, <3>2, RetentionType, TimeAssumption DEF Interval
  <2>4. Within(Interval(Period(s)), report.known)
          \subseteq Within(Interval(Period(s)), E)
    BY <2>1, <2>2, <2>3, ReportTypes DEF Within
  <2>5. Within(Interval(Period(s)), E) \subseteq Within(Interval(Period(s)), tracked)
    BY <2>2 DEF Within
  <2>6. IsFiniteSet(Within(Interval(Period(s)), tracked))
    BY FS_Subset DEF Within, TableInv
  <2>7. QED
    BY <2>2, <2>4, <2>5, <2>6, TotalsAreBetween DEF Between
<1>3. TypeOK /\ TableInv /\ TotalsInv /\ [Next]_vars => TotalsInv'
  BY NextTotals
<1>4. QED
  BY <1>1, <1>2, <1>3, TypeAndTable, PTL DEF Spec

(***************************************************************************)
(* Parts.  What the days and the sources of a set of events add up to.     *)
(***************************************************************************)

OfDay(E, d) == {e \in Views(E) : DayOf(e.at) = d}

DaySessions(E) == {<<DayOf(e.at), e.session>> : e \in Views(E)}

LEMMA SeriesFields ==
    ASSUME NEW E
    PROVE  /\ DOMAIN Series(E) = {DayOf(e.at) : e \in Views(E)}
           /\ \A d \in DOMAIN Series(E) :
                 /\ Series(E)[d].pageviews = Cardinality(OfDay(E, d))
                 /\ Series(E)[d].sessions = Cardinality(SessionsOf(OfDay(E, d)))
                 /\ Series(E)[d].visitors
                      = Cardinality({VisitorId(e) : e \in OfDay(E, d)})
BY DEF Series, OfDay

LEMMA DaysAreFinite ==
    ASSUME NEW E, IsFiniteSet(E)
    PROVE  IsFiniteSet(DOMAIN Series(E)) /\ IsFiniteSet(DaySessions(E))
<1>1. IsFiniteSet(Views(E))
  BY FiguresAreFinite
<1>2. IsFiniteSet(DOMAIN Series(E))
  <2> DEFINE g == [e \in Views(E) |-> DayOf(e.at)]
  <2>1. \A t \in {DayOf(e.at) : e \in Views(E)} : \E e \in Views(E) : t = g[e]
    OBVIOUS
  <2> HIDE DEF g
  <2>2. IsFiniteSet({DayOf(e.at) : e \in Views(E)})
    BY <1>1, <2>1, ImageIsSmaller
  <2>3. QED
    BY <2>2, SeriesFields
<1>3. IsFiniteSet(DaySessions(E))
  <2> DEFINE g == [e \in Views(E) |-> <<DayOf(e.at), e.session>>]
  <2>1. \A t \in DaySessions(E) : \E e \in Views(E) : t = g[e]
    BY DEF DaySessions
  <2> HIDE DEF g
  <2>2. QED
    BY <1>1, <2>1, ImageIsSmaller
<1>4. QED
  BY <1>2, <1>3

\* Every page view is of one day.
LEMMA PageviewsAddUp ==
    ASSUME NEW E, IsFiniteSet(E)
    PROVE  MapThenSumSet(LAMBDA d : Series(E)[d].pageviews, DOMAIN Series(E))
             = Cardinality(Views(E))
<1> DEFINE S == Series(E)
           f == [d \in DOMAIN S |-> S[d].pageviews]
           g == [e \in Views(E) |-> DayOf(e.at)]
<1>1. MapThenSumSet(LAMBDA d : S[d].pageviews, DOMAIN S) = SumFunction(f)
  <2> HIDE DEF S
  <2>1. QED
    BY DEF MapThenSumSet, SumFunction, SumFunctionOnSet, FoldFunctionOnSet,
           MapThenFoldSet
<1>2. DOMAIN f = DOMAIN S /\ \A d \in DOMAIN f : f[d] = Cardinality(OfDay(E, d))
  BY SeriesFields
<1>3. \A e \in Views(E) : g[e] \in DOMAIN f
  BY SeriesFields
<1>4. ASSUME NEW d \in DOMAIN f
      PROVE  f[d] = Cardinality({e \in Views(E) : g[e] = d})
  <2>1. {e \in Views(E) : g[e] = d} = OfDay(E, d)
    BY DEF OfDay
  <2>2. QED
    BY <1>2, <2>1
<1>5. IsFiniteSet(DOMAIN f) /\ IsFiniteSet(Views(E))
  BY DaysAreFinite, FiguresAreFinite
<1> HIDE DEF f, g
<1>6. SumFunction(f) = Cardinality(Views(E))
  BY <1>3, <1>4, <1>5, SumCounts
<1>7. QED
  BY <1>1, <1>6

\* A visitor counts once for each of its days.
LEMMA VisitorsAddUp ==
    ASSUME NEW E, IsFiniteSet(E)
    PROVE  MapThenSumSet(LAMBDA d : Series(E)[d].visitors, DOMAIN Series(E))
             = Cardinality(DayVisitors(E))
<1> DEFINE S == Series(E)
           X == DayVisitors(E)
           f == [d \in DOMAIN S |-> S[d].visitors]
           g == [v \in X |-> v[1]]
<1>1. MapThenSumSet(LAMBDA d : S[d].visitors, DOMAIN S) = SumFunction(f)
  <2> HIDE DEF S
  <2>1. QED
    BY DEF MapThenSumSet, SumFunction, SumFunctionOnSet, FoldFunctionOnSet,
           MapThenFoldSet
<1>2. /\ DOMAIN f = DOMAIN S
      /\ \A d \in DOMAIN f : f[d] = Cardinality({VisitorId(e) : e \in OfDay(E, d)})
  BY SeriesFields
<1>3. \A v \in X : g[v] \in DOMAIN f
  <2>1. \A v \in X : v[1] \in {DayOf(e.at) : e \in Views(E)}
    BY DEF DayVisitors
  <2>2. QED
    BY <1>2, <2>1, SeriesFields
<1>4. IsFiniteSet(DOMAIN f) /\ IsFiniteSet(X)
  BY DaysAreFinite, FiguresAreFinite
<1>5. ASSUME NEW d
      PROVE  Cardinality({v \in X : g[v] = d})
               = Cardinality({VisitorId(e) : e \in OfDay(E, d)})
  <2> DEFINE A == {v \in X : g[v] = d}
             B == {VisitorId(e) : e \in OfDay(E, d)}
             h == [v \in A |-> v[2]]
  <2>1. \A v \in A : h[v] \in B
    BY DEF DayVisitors, OfDay
  <2>2. \A w \in B : \E v \in A : w = h[v]
    <3> SUFFICES ASSUME NEW e \in OfDay(E, d)
                 PROVE  \E v \in A : VisitorId(e) = h[v]
      OBVIOUS
    <3>1. <<d, VisitorId(e)>> \in A
      BY DEF DayVisitors, OfDay
    <3>2. QED
      BY <3>1
  <2>3. \A v, w \in A : h[v] = h[w] => v = w
    BY DEF DayVisitors
  <2>4. IsFiniteSet(A)
    BY <1>4, FS_Subset
  <2> HIDE DEF A, B, h
  <2>5. Cardinality(B) = Cardinality(A)
    BY <2>1, <2>2, <2>3, <2>4, RenamingKeepsSize
  <2>6. QED
    BY <2>5 DEF A, B
<1>6. \A d \in DOMAIN f : f[d] = Cardinality({v \in X : g[v] = d})
  BY <1>2, <1>5
<1> HIDE DEF f, g, X
<1>7. SumFunction(f) = Cardinality(X)
  BY <1>3, <1>4, <1>6, SumCounts
<1>8. QED
  BY <1>1, <1>7 DEF X

\* A session counts on each of its days.
LEMMA SessionsSpread ==
    ASSUME NEW E, IsFiniteSet(E)
    PROVE  Cardinality(SessionsOf(Views(E)))
             <= MapThenSumSet(LAMBDA d : Series(E)[d].sessions, DOMAIN Series(E))
<1> DEFINE S == Series(E)
           X == DaySessions(E)
           f == [d \in DOMAIN S |-> S[d].sessions]
           g == [p \in X |-> p[1]]
<1>1. MapThenSumSet(LAMBDA d : S[d].sessions, DOMAIN S) = SumFunction(f)
  <2> HIDE DEF S
  <2>1. QED
    BY DEF MapThenSumSet, SumFunction, SumFunctionOnSet, FoldFunctionOnSet,
           MapThenFoldSet
<1>2. /\ DOMAIN f = DOMAIN S
      /\ \A d \in DOMAIN f : f[d] = Cardinality(SessionsOf(OfDay(E, d)))
  BY SeriesFields
<1>3. \A p \in X : g[p] \in DOMAIN f
  <2>1. \A p \in X : p[1] \in {DayOf(e.at) : e \in Views(E)}
    BY DEF DaySessions
  <2>2. QED
    BY <1>2, <2>1, SeriesFields
<1>4. IsFiniteSet(DOMAIN f) /\ IsFiniteSet(X)
  BY DaysAreFinite
<1>5. ASSUME NEW d
      PROVE  Cardinality({p \in X : g[p] = d})
               = Cardinality(SessionsOf(OfDay(E, d)))
  <2> DEFINE A == {p \in X : g[p] = d}
             B == SessionsOf(OfDay(E, d))
             h == [p \in A |-> p[2]]
  <2>1. \A p \in A : h[p] \in B
    BY DEF DaySessions, OfDay, SessionsOf
  <2>2. \A t \in B : \E p \in A : t = h[p]
    <3> SUFFICES ASSUME NEW e \in OfDay(E, d)
                 PROVE  \E p \in A : e.session = h[p]
      BY DEF SessionsOf
    <3>1. <<d, e.session>> \in A
      BY DEF DaySessions, OfDay
    <3>2. QED
      BY <3>1
  <2>3. \A p, q \in A : h[p] = h[q] => p = q
    BY DEF DaySessions
  <2>4. IsFiniteSet(A)
    BY <1>4, FS_Subset
  <2> HIDE DEF A, B, h
  <2>5. Cardinality(B) = Cardinality(A)
    BY <2>1, <2>2, <2>3, <2>4, RenamingKeepsSize
  <2>6. QED
    BY <2>5 DEF A, B
<1>6. Cardinality(SessionsOf(Views(E))) <= Cardinality(X)
  <2> DEFINE h == [p \in X |-> p[2]]
  <2>1. \A t \in SessionsOf(Views(E)) : \E p \in X : t = h[p]
    <3> SUFFICES ASSUME NEW e \in Views(E)
                 PROVE  \E p \in X : e.session = h[p]
      BY DEF SessionsOf
    <3>1. <<DayOf(e.at), e.session>> \in X
      BY DEF DaySessions
    <3>2. QED
      BY <3>1
  <2> HIDE DEF h, X
  <2>2. QED
    BY <1>4, <2>1, ImageIsSmaller
<1>7. \A d \in DOMAIN f : f[d] = Cardinality({p \in X : g[p] = d})
  BY <1>2, <1>5
<1> HIDE DEF f, g, X
<1>8. SumFunction(f) = Cardinality(X)
  BY <1>3, <1>4, <1>7, SumCounts
<1>9. QED
  BY <1>1, <1>6, <1>8

\* Events as the table holds them, each with a number of its own.
Numbered(E) ==
    \A e \in E : e.id \in Nat /\ \A f \in E : e.id = f.id => e = f

LEMMA LeastNumber ==
    ASSUME NEW N, N \subseteq Nat, N # {}
    PROVE  \E n \in N : \A m \in N : n <= m
<1>1. PICK n \in N : \A m \in N : <<m, n>> \notin OpToRel(<, Nat)
  BY NatLessThanWellFounded, WFMin
<1>2. \A m \in N : ~(m < n)
  BY <1>1 DEF OpToRel
<1>3. QED
  BY <1>2

\* Every session with page views has a first one, which gives its source.
LEMMA FirstViewExists ==
    ASSUME NEW E, Numbered(E), NEW t \in SessionsOf(Views(E))
    PROVE  \E e \in FirstViews(E) : e.session = t
<1> DEFINE V == {e \in Views(E) : e.session = t}
           N == {e.id : e \in V}
<1>1. N \subseteq Nat /\ N # {}
  BY DEF Numbered, SessionsOf, Views
<1> HIDE DEF N
<1>2. PICK n \in N : \A m \in N : n <= m
  BY <1>1, LeastNumber
<1>3. PICK e \in V : e.id = n
  BY DEF N
<1>4. \A f \in V : e.id <= f.id
  BY <1>2, <1>3 DEF N
<1>5. QED
  BY <1>3, <1>4 DEF FirstViews

LEMMA FirstViewsAgree ==
    ASSUME NEW E, Numbered(E), NEW e \in FirstViews(E), NEW f \in FirstViews(E),
           e.session = f.session
    PROVE  e.source = f.source
<1>1. e \in E /\ f \in E /\ e.id <= f.id /\ f.id <= e.id
  BY DEF FirstViews, Views
<1>2. e.id = f.id
  BY <1>1 DEF Numbered
<1>3. QED
  BY <1>1, <1>2 DEF Numbered

OfSource(E, s) == {e.session : e \in {f \in FirstViews(E) : f.source = s}}

\* The source under which a report counts session t.
SourceOf(E, t) == (CHOOSE e \in FirstViews(E) : e.session = t).source

LEMMA SourceOfSession ==
    ASSUME NEW E, Numbered(E), NEW t \in SessionsOf(Views(E))
    PROVE  /\ SourceOf(E, t) \in {e.source : e \in FirstViews(E)}
           /\ \A s : t \in OfSource(E, s) <=> SourceOf(E, t) = s
<1> DEFINE e == CHOOSE e \in FirstViews(E) : e.session = t
<1>1. e \in FirstViews(E) /\ e.session = t
  BY FirstViewExists
<1>2. SourceOf(E, t) = e.source
  BY DEF SourceOf
<1> HIDE DEF e
<1>3. ASSUME NEW s, t \in OfSource(E, s) PROVE e.source = s
  <2>1. PICK f \in FirstViews(E) : f.source = s /\ f.session = t
    BY <1>3 DEF OfSource
  <2>2. QED
    BY <1>1, <2>1, FirstViewsAgree
<1>4. t \in OfSource(E, e.source)
  BY <1>1 DEF OfSource
<1>5. QED
  BY <1>1, <1>2, <1>3, <1>4

LEMMA SourceRowsFields ==
    ASSUME NEW E
    PROVE  /\ DOMAIN SourceRows(E) = {e.source : e \in FirstViews(E)}
           /\ \A s \in DOMAIN SourceRows(E) :
                 /\ SourceRows(E)[s].sessions = Cardinality(OfSource(E, s))
                 /\ SourceRows(E)[s].conversions
                      = Cardinality(OfSource(E, s) \cap Converted(E))
BY DEF SourceRows, OfSource

LEMMA SourceRowsAreFinite ==
    ASSUME NEW E, IsFiniteSet(E)
    PROVE  IsFiniteSet(DOMAIN SourceRows(E))
<1> DEFINE F == FirstViews(E)
           g == [e \in F |-> e.source]
<1>1. IsFiniteSet(F)
  BY FS_Subset DEF FirstViews, Views
<1>2. \A t \in {e.source : e \in F} : \E e \in F : t = g[e]
  OBVIOUS
<1> HIDE DEF F, g
<1>3. IsFiniteSet({e.source : e \in F})
  BY <1>1, <1>2, ImageIsSmaller
<1>4. QED
  BY <1>3, SourceRowsFields DEF F

\* A list that is not full leaves no source out.
LEMMA ListedSources ==
    ASSUME NEW E, IsFiniteSet(E), NEW S \in Sources(E)
    PROVE  /\ DOMAIN S \subseteq DOMAIN SourceRows(E)
           /\ \A s \in DOMAIN S : S[s] = SourceRows(E)[s]
           /\ Cardinality(DOMAIN S) \in Nat
           /\ Cardinality(DOMAIN S) < SourceLimit => DOMAIN S = DOMAIN SourceRows(E)
<1>1. PICK L \in Listings(SourceRows(E)) : S = [s \in L |-> SourceRows(E)[s]]
  BY DEF Sources
<1>2. /\ L \subseteq DOMAIN SourceRows(E)
      /\ L # DOMAIN SourceRows(E) => Cardinality(L) = SourceLimit
  BY DEF Listings
<1>3. DOMAIN S = L /\ \A s \in L : S[s] = SourceRows(E)[s]
  BY <1>1
<1>4. Cardinality(L) \in Nat
  BY <1>2, SourceRowsAreFinite, FS_Subset, FS_CardinalityType
<1>5. QED
  BY <1>2, <1>3, <1>4, LimitAssumption

\* Sessions X are counted under one source each, all of them if every source is
\* listed.
LEMMA ListedSum ==
    ASSUME NEW E, IsFiniteSet(E), Numbered(E),
           NEW X, X \subseteq SessionsOf(Views(E)),
           NEW f, DOMAIN f \subseteq DOMAIN SourceRows(E),
           \A s \in DOMAIN f : f[s] = Cardinality(OfSource(E, s) \cap X)
    PROVE  /\ SumFunction(f) <= Cardinality(X)
           /\ DOMAIN f = DOMAIN SourceRows(E) => SumFunction(f) = Cardinality(X)
<1> DEFINE Y == {t \in X : SourceOf(E, t) \in DOMAIN f}
           g == [t \in Y |-> SourceOf(E, t)]
<1>1. IsFiniteSet(X) /\ IsFiniteSet(DOMAIN f)
  BY SourceRowsAreFinite, FiguresAreFinite, FS_Subset
<1>2. IsFiniteSet(Y) /\ Cardinality(Y) <= Cardinality(X)
  BY <1>1, FS_Subset
<1>3. ASSUME NEW s \in DOMAIN f PROVE f[s] = Cardinality({t \in Y : g[t] = s})
  <2>1. {t \in Y : g[t] = s} = OfSource(E, s) \cap X
    BY SourceOfSession
  <2>2. QED
    BY <2>1
<1>4. \A t \in Y : g[t] \in DOMAIN f
  OBVIOUS
<1>5. DOMAIN f = DOMAIN SourceRows(E) => Y = X
  BY SourceRowsFields, SourceOfSession
<1> HIDE DEF g, Y
<1>6. SumFunction(f) = Cardinality(Y)
  BY <1>1, <1>2, <1>3, <1>4, SumCounts
<1>7. QED
  BY <1>2, <1>5, <1>6

\* Every session is of one source.
LEMMA SourceSessionsAddUp ==
    ASSUME NEW E, IsFiniteSet(E), Numbered(E), NEW S \in Sources(E)
    PROVE  LET sum == MapThenSumSet(LAMBDA s : S[s].sessions, DOMAIN S) IN
           /\ sum <= Cardinality(SessionsOf(Views(E)))
           /\ Cardinality(DOMAIN S) < SourceLimit =>
                  sum = Cardinality(SessionsOf(Views(E)))
<1> DEFINE X == SessionsOf(Views(E))
           f == [s \in DOMAIN S |-> S[s].sessions]
<1>1. MapThenSumSet(LAMBDA s : S[s].sessions, DOMAIN S) = SumFunction(f)
  BY DEF MapThenSumSet, SumFunction, SumFunctionOnSet, FoldFunctionOnSet,
         MapThenFoldSet
<1>2. \A s \in DOMAIN f : f[s] = Cardinality(OfSource(E, s) \cap X)
  <2> SUFFICES ASSUME NEW s \in DOMAIN f
               PROVE  f[s] = Cardinality(OfSource(E, s) \cap X)
    OBVIOUS
  <2>1. OfSource(E, s) \cap X = OfSource(E, s)
    BY DEF OfSource, FirstViews, SessionsOf
  <2>2. s \in DOMAIN SourceRows(E) /\ S[s] = SourceRows(E)[s]
    BY ListedSources
  <2> HIDE DEF X
  <2>3. QED
    BY <2>1, <2>2, SourceRowsFields
<1>3. DOMAIN f = DOMAIN S
  OBVIOUS
<1> HIDE DEF f, X
<1>4. /\ SumFunction(f) <= Cardinality(X)
      /\ DOMAIN f = DOMAIN SourceRows(E) => SumFunction(f) = Cardinality(X)
  BY <1>2, <1>3, ListedSources, ListedSum DEF X
<1>5. QED
  BY <1>1, <1>3, <1>4, ListedSources DEF X

LEMMA ConversionsAddUp ==
    ASSUME NEW E, IsFiniteSet(E), Numbered(E), NEW S \in Sources(E)
    PROVE  LET sum == MapThenSumSet(LAMBDA s : S[s].conversions, DOMAIN S) IN
           /\ sum <= Cardinality(Converted(E))
           /\ Cardinality(DOMAIN S) < SourceLimit => sum = Cardinality(Converted(E))
<1> DEFINE X == Converted(E)
           f == [s \in DOMAIN S |-> S[s].conversions]
<1>1. MapThenSumSet(LAMBDA s : S[s].conversions, DOMAIN S) = SumFunction(f)
  BY DEF MapThenSumSet, SumFunction, SumFunctionOnSet, FoldFunctionOnSet,
         MapThenFoldSet
<1>2. \A s \in DOMAIN f : f[s] = Cardinality(OfSource(E, s) \cap X)
  <2> SUFFICES ASSUME NEW s \in DOMAIN f
               PROVE  f[s] = Cardinality(OfSource(E, s) \cap X)
    OBVIOUS
  <2>1. s \in DOMAIN SourceRows(E) /\ S[s] = SourceRows(E)[s]
    BY ListedSources
  <2>2. QED
    BY <2>1, SourceRowsFields
<1>3. DOMAIN f = DOMAIN S
  OBVIOUS
<1>4. X \subseteq SessionsOf(Views(E))
  BY DEF Converted
<1> HIDE DEF f, X
<1>5. /\ SumFunction(f) <= Cardinality(X)
      /\ DOMAIN f = DOMAIN SourceRows(E) => SumFunction(f) = Cardinality(X)
  BY <1>2, <1>3, <1>4, ListedSources, ListedSum
<1>6. QED
  BY <1>1, <1>3, <1>5, ListedSources DEF X

(***************************************************************************)
(* The statements of a report that nothing disturbed are about the same    *)
(* events.                                                                 *)
(***************************************************************************)

Figures(s, E) ==
    CASE s = "totals" -> {Totals(E)}
      [] s = "series" -> {Series(E)}
      [] s = "sources" -> Sources(E)

\* Undisturbed statements are about the same events, still there while the
\* report runs.
PartsInv ==
    HasFields /\ ~report.disturbed =>
        \E E \in SUBSET tracked :
            /\ report.pc = "running" => E = Within(Interval(report.range), events)
            /\ \A s \in report.read \ {"previous"} : report.result[s] \in Figures(s, E)

\* A statement that reads now reads the events of the range as they are now.
LEMMA FiguresAreAnswers ==
    ASSUME NEW s \in Statements \ {"previous"}, NEW range
    PROVE  Answers(s, range) = Figures(s, Within(Interval(range), events))
BY DEF Answers, Figures, Statements

\* What was read stays, as long as the events of the range stay while the
\* report runs.
LEMMA PartsKept ==
    ASSUME PartsInv, HasFields, ~report.disturbed,
           tracked \subseteq tracked', report'.pc = report.pc,
           report'.read = report.read, report'.result = report.result,
           report'.range = report.range,
           report.pc = "running" =>
               Within(Interval(report.range), events')
                 = Within(Interval(report.range), events)
    PROVE  PartsInv'
<1>1. PICK E \in SUBSET tracked :
          /\ report.pc = "running" => E = Within(Interval(report.range), events)
          /\ \A s \in report.read \ {"previous"} : report.result[s] \in Figures(s, E)
  BY DEF PartsInv
<1>2. Within(Interval(report.range), events)'
        = Within(Interval(report'.range), events')
  BY DEF Within
<1>3. QED
  BY <1>1, <1>2 DEF PartsInv

LEMMA NextParts ==
    ASSUME TypeOK, TableInv, PartsInv, [Next]_vars
    PROVE  PartsInv'
<1>1. tracked \subseteq tracked' /\ events' \subseteq tracked'
  BY TableStep
<1>2. ASSUME UNCHANGED <<report, events>> PROVE PartsInv'
  <2>1. CASE HasFields /\ ~report.disturbed
    <3>1. QED
      BY <1>1, <1>2, <2>1, PartsKept
  <2>2. CASE ~(HasFields /\ ~report.disturbed)
    BY <1>2, <2>2 DEF PartsInv, HasFields
  <2>3. QED
    BY <2>1, <2>2
<1>3. ASSUME NEW N, report' = Disturbed(N),
             \/ events' = events \cup N
             \/ events' = events \ N
      PROVE  PartsInv'
  <2>1. CASE Disturbs(N)
    <3>1. report.pc = "running" /\ ReportOK(report)
      BY <2>1 DEF Disturbs, TypeOK, NoReport, Refused, Failed
    <3>2. report' = [report EXCEPT !.disturbed = TRUE]
      BY <1>3, <2>1 DEF Disturbed
    <3>3. report'.disturbed
      BY <3>1, <3>2 DEF ReportOK, ReportFields
    <3>4. QED
      BY <3>3 DEF PartsInv
  <2>2. CASE ~Disturbs(N)
    <3>1. report' = report
      BY <1>3, <2>2 DEF Disturbed
    <3>2. CASE HasFields /\ ~report.disturbed
      <4>1. ASSUME report.pc = "running"
            PROVE  Within(Interval(report.range), events')
                     = Within(Interval(report.range), events)
        <5>1. Within(Interval(report.range), N) = {}
          BY <2>2, <4>1 DEF Disturbs
        <5>2. QED
          BY <1>3, <5>1 DEF Within
      <4>2. QED
        BY <1>1, <3>1, <3>2, <4>1, PartsKept
    <3>3. CASE ~(HasFields /\ ~report.disturbed)
      BY <3>1, <3>3 DEF PartsInv, HasFields
    <3>4. QED
      BY <3>2, <3>3
  <2>3. QED
    BY <2>1, <2>2
<1>4. ASSUME NEW range \in Ranges, Ask(range) PROVE PartsInv'
  <2>1. CASE ~ValidRange(range)
    BY <1>4, <2>1 DEF Ask, PartsInv, HasFields
  <2>2. CASE ValidRange(range)
    <3>1. report'.read = {} /\ report'.range = range
      BY <1>4, <2>2 DEF Ask
    <3>2. Within(Interval(report.range), events)' \in SUBSET tracked'
      BY <1>1 DEF Within
    <3>3. QED
      BY <3>1, <3>2 DEF PartsInv
  <2>3. QED
    BY <2>1, <2>2
<1>5. ASSUME NEW s \in Statements, Read(s) PROVE PartsInv'
  <2>1. report.pc = "running" /\ HasFields /\ ReportOK(report)
    BY <1>5 DEF Read, TypeOK, NoReport, Refused, Failed, HasFields
  <2>2. PICK answer \in Answers(s, report.range) :
        /\ report'.range = report.range
        /\ report'.read = report.read \cup {s}
        /\ report'.result = [x \in report.read \cup {s} |->
                               IF x = s THEN answer ELSE report.result[x]]
        /\ report'.disturbed = report.disturbed
    BY <1>5, <2>1 DEF Read, ReportOK, ReportFields
  <2>3. UNCHANGED <<events, tracked>>
    BY <1>5 DEF Read
  <2> SUFFICES ASSUME ~report.disturbed
               PROVE  \E E \in SUBSET tracked :
                        /\ E = Within(Interval(report.range), events)
                        /\ \A x \in report'.read \ {"previous"} :
                              report'.result[x] \in Figures(x, E)
    BY <2>2, <2>3 DEF PartsInv
  <2>4. PICK E \in SUBSET tracked :
            /\ E = Within(Interval(report.range), events)
            /\ \A x \in report.read \ {"previous"} : report.result[x] \in Figures(x, E)
    BY <2>1 DEF PartsInv
  <2>5. ASSUME NEW x \in report'.read \ {"previous"}
        PROVE  report'.result[x] \in Figures(x, E)
    <3>1. CASE x = s
      BY <2>2, <2>4, <2>5, <3>1, FiguresAreAnswers
    <3>2. CASE x # s
      BY <2>2, <2>4, <2>5, <3>2
    <3>3. QED
      BY <3>1, <3>2
  <2>6. QED
    BY <2>4, <2>5
<1>6. CASE ReadError
  BY <1>6 DEF ReadError, PartsInv, HasFields
<1>7. QED
  <2>1. CASE \E b \in Batches : Receive(b) \/ StoreError(b)
    BY <1>2, <2>1 DEF Receive, StoreError
  <2>2. CASE \E b \in Batches : Store(b)
    BY <1>3, <2>2 DEF Store
  <2>3. CASE Purge
    BY <1>3, <2>3 DEF Purge
  <2>4. CASE PurgeError \/ Tick \/ UNCHANGED vars
    BY <1>2, <2>4 DEF PurgeError, Tick, vars
  <2>5. QED
    BY <1>4, <1>5, <1>6, <2>1, <2>2, <2>3, <2>4 DEF Next

\* The days of a finished report that nothing disturbed add up to its totals, and
\* so do its sources unless their list is full, in whatever order its statements
\* ran; a full list never exceeds them.
THEOREM PartsAddUp == Spec => []ReportAddsUp
<1>1. Init => PartsInv
  BY DEF Init, PartsInv, HasFields
<1>2. TypeOK /\ TableInv /\ PartsInv => ReportAddsUp
  <2> SUFFICES ASSUME TypeOK, TableInv, PartsInv,
                      report.pc = "done", ~report.disturbed
               PROVE  ReportAddsUp
    BY DEF ReportAddsUp
  <2>1. HasFields /\ report.read = Statements
    BY DEF TypeOK, NoReport, Refused, Failed, HasFields, ReportOK
  <2>2. PICK E \in SUBSET tracked :
            \A s \in report.read \ {"previous"} : report.result[s] \in Figures(s, E)
    BY <2>1 DEF PartsInv
  <2> DEFINE S == report.result["sources"]
  <2>3. /\ report.result["totals"] = Totals(E)
        /\ report.result["series"] = Series(E)
        /\ S \in Sources(E)
    BY <2>1, <2>2 DEF Figures, Statements
  <2>4. IsFiniteSet(E)
    BY FS_Subset DEF TableInv
  <2>5. Numbered(E)
    BY DEF Numbered, TypeOK, Event, TableInv, OneEventPerNumber
  <2>6. /\ Totals(E).pageviews = Cardinality(Views(E))
        /\ Totals(E).visitors = Cardinality(DayVisitors(E))
        /\ Totals(E).sessions = Cardinality(SessionsOf(Views(E)))
        /\ Totals(E).converted = Cardinality(Converted(E))
    BY DEF Totals
  <2>7. /\ Totals(E).pageviews
             = MapThenSumSet(LAMBDA d : Series(E)[d].pageviews, DOMAIN Series(E))
        /\ Totals(E).visitors
             = MapThenSumSet(LAMBDA d : Series(E)[d].visitors, DOMAIN Series(E))
        /\ Totals(E).sessions
             <= MapThenSumSet(LAMBDA d : Series(E)[d].sessions, DOMAIN Series(E))
    BY <2>4, <2>6, PageviewsAddUp, VisitorsAddUp, SessionsSpread
  <2> HIDE DEF S
  <2>8. LET sessions    == MapThenSumSet(LAMBDA s : S[s].sessions, DOMAIN S)
            conversions == MapThenSumSet(LAMBDA s : S[s].conversions, DOMAIN S)
        IN  /\ sessions <= Totals(E).sessions /\ conversions <= Totals(E).converted
            /\ Cardinality(DOMAIN S) < SourceLimit =>
                  sessions = Totals(E).sessions /\ conversions = Totals(E).converted
    BY <2>3, <2>4, <2>5, <2>6, SourceSessionsAddUp, ConversionsAddUp
  <2>9. QED
    BY <2>3, <2>7, <2>8 DEF ReportAddsUp, S
<1>3. TypeOK /\ TableInv /\ PartsInv /\ [Next]_vars => PartsInv'
  BY NextParts
<1>4. QED
  BY <1>1, <1>2, <1>3, TypeAndTable, PTL DEF Spec

=============================================================================
