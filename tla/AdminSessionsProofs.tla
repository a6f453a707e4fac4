------------------------ MODULE AdminSessionsProofs ------------------------
(***************************************************************************)
(* Proofs about AdminSessions, for any number of accounts, sessions and    *)
(* calls, any size and lifetime of the cache.                              *)
(***************************************************************************)
EXTENDS AdminSessions, FiniteSetTheorems, WellFoundedInduction, TLAPS

-----------------------------------------------------------------------------
(* The session cache *)

\* What TypeOK says of the cache.
CacheOK ==
    /\ Cached \subseteq Tokens
    /\ Cardinality(Cached) <= MaxEntries
    /\ cache \in [Cached -> Entry]
    /\ Ordered(Cached)

\* A finite set that is ordered by insertion has an oldest element.
LEMMA OldestExists ==
    ASSUME NEW S, IsFiniteSet(S), S # {}, NEW T, S \subseteq T, Ordered(T)
    PROVE  \E t \in S : \A s \in S : <<s, t>> \notin older
<1> DEFINE Before(t) == {s \in S : <<s, t>> \in older}
           Prefixes == {Before(t) : t \in S}
<1>1. IsWellFoundedOn(StrictSubsetOrdering(S), FiniteSubsetsOf(S))
  BY FS_StrictSubsetOrderingWellFounded
<1>2. Prefixes \subseteq FiniteSubsetsOf(S) /\ Prefixes # {}
  <2>1. \A t \in S : IsFiniteSet(Before(t))
    BY FS_Subset
  <2> QED  BY <2>1 DEF FiniteSubsetsOf
<1>3. PICK P \in Prefixes : \A Q \in Prefixes : <<Q, P>> \notin StrictSubsetOrdering(S)
  <2> HIDE DEF Prefixes
  <2> QED  BY <1>1, <1>2, WFMin
<1>4. PICK t \in S : P = Before(t)
  OBVIOUS
<1>5. ASSUME NEW s \in S, <<s, t>> \in older PROVE FALSE
  <2>1. Before(s) \subseteq Before(t) /\ s \in Before(t) /\ s \notin Before(s)
    BY <1>5 DEF Ordered
  <2>2. <<Before(s), Before(t)>> \in StrictSubsetOrdering(S)
    BY <2>1 DEF StrictSubsetOrdering
  <2> QED  BY <2>2, <1>3, <1>4
<1> QED  BY <1>5

\* Making room leaves cached entries only, and room for one more.
LEMMA RoomIsMade ==
    ASSUME CacheOK
    PROVE  /\ Room \subseteq Cached /\ IsFiniteSet(Room)
           /\ Cardinality(Room) \in Nat /\ Cardinality(Room) < MaxEntries
<1> USE CacheAssumption
<1> DEFINE kept == {t \in Cached : Fresh(t)}
<1>1. IsFiniteSet(Cached) /\ Cardinality(Cached) \in Nat
  BY TokenAssumption, FS_Subset, FS_CardinalityType DEF CacheOK
<1>2. IsFiniteSet(kept) /\ Cardinality(kept) \in Nat
      /\ Cardinality(kept) <= MaxEntries
  BY <1>1, FS_Subset, FS_CardinalityType DEF CacheOK
<1>3. CASE Cardinality(Cached) < MaxEntries
  BY <1>3, <1>1 DEF Room
<1>4. CASE ~(Cardinality(Cached) < MaxEntries) /\ Cardinality(kept) < MaxEntries
  <2>1. Room = kept
    BY <1>4 DEF Room
  <2> QED  BY <2>1, <1>2, <1>4
<1>5. CASE ~(Cardinality(Cached) < MaxEntries) /\ ~(Cardinality(kept) < MaxEntries)
  <2>1. Room = {t \in kept : \E s \in kept : <<s, t>> \in older}
    BY <1>5 DEF Room
  <2>2. kept # {}
    BY <1>5, FS_EmptySet
  <2>3. PICK t \in kept : \A s \in kept : <<s, t>> \notin older
    <3> HIDE DEF kept
    <3>1. kept \subseteq Cached
      BY DEF kept
    <3> QED  BY <1>2, <2>2, <3>1, OldestExists DEF CacheOK
  <2>4. Room \subseteq kept \ {t}
    BY <2>1, <2>3
  <2>5. /\ IsFiniteSet(kept \ {t})
        /\ Cardinality(kept \ {t}) = Cardinality(kept) - 1
    BY <1>2, <2>3, FS_RemoveElement
  <2>6. IsFiniteSet(Room) /\ Cardinality(Room) <= Cardinality(kept \ {t})
    BY <2>4, <2>5, FS_Subset
  <2> QED  BY <2>4, <2>5, <2>6, <1>2, FS_CardinalityType
<1> QED  BY <1>3, <1>4, <1>5

\* Priming caches the token and keeps the cache in order and bounded.
LEMMA PrimeKeepsOrder ==
    ASSUME CacheOK, now \in Times, NEW t \in Tokens, NEW rs \in Roles, Prime(t, rs)
    PROVE  CacheOK' /\ Cached' = Room \cup {t} /\ Room \subseteq Cached
<1>1. /\ Room \subseteq Cached /\ IsFiniteSet(Room)
      /\ Cardinality(Room) \in Nat /\ Cardinality(Room) < MaxEntries
  BY RoomIsMade
<1>2. Cached' = Room \cup {t}
  BY DEF Prime, Cached
<1>3. Cached' \subseteq Tokens
  BY <1>1, <1>2 DEF CacheOK
<1>4. Cardinality(Cached') <= MaxEntries
  <2>1. Cardinality(Room \cup {t})
          = IF t \in Room THEN Cardinality(Room) ELSE Cardinality(Room) + 1
    BY <1>1, FS_AddElement
  <2> HIDE DEF Room
  <2> QED  BY <1>1, <1>2, <2>1, CacheAssumption
<1>5. (cache \in [Cached -> Entry])'
  BY <1>1, <1>2 DEF Prime, CacheOK, Entry
<1>6. Ordered(Cached)'
  <2>1. older' = (older \cap (Room \X Room))
                   \cup (IF t \in Room THEN {} ELSE Room \X {t})
    BY DEF Prime
  <2>2. Ordered(Cached)
    BY DEF CacheOK
  <2> HIDE DEF Room
  <2>3. CASE t \in Room
    BY <2>1, <2>2, <2>3, <1>1, <1>2 DEF Ordered
  <2>4. CASE t \notin Room
    BY <2>1, <2>2, <2>4, <1>1, <1>2 DEF Ordered
  <2> QED  BY <2>3, <2>4
<1> QED  BY <1>1, <1>2, <1>3, <1>4, <1>5, <1>6 DEF CacheOK

\* So does dropping entries.
LEMMA KeepKeepsOrder ==
    ASSUME CacheOK, NEW keys \in SUBSET Cached, Keep(keys)
    PROVE  CacheOK' /\ Cached' = keys /\ \A t \in keys : cache'[t] = cache[t]
<1>1. Cached' = keys /\ \A t \in keys : cache'[t] = cache[t]
  BY DEF Keep, Restrict, Cached
<1>2. IsFiniteSet(Cached)
  BY TokenAssumption, FS_Subset DEF CacheOK
<1>3. Cardinality(keys) <= Cardinality(Cached)
      /\ Cardinality(keys) \in Nat /\ Cardinality(Cached) \in Nat
  BY <1>2, FS_Subset, FS_CardinalityType
<1>4. (cache \in [Cached -> Entry])'
  BY <1>1 DEF Keep, Restrict, CacheOK
<1>5. Ordered(Cached)'
  BY <1>1 DEF Keep, Ordered, CacheOK
<1> QED  BY <1>1, <1>3, <1>4, <1>5, CacheAssumption DEF CacheOK

-----------------------------------------------------------------------------
(* Types *)

\* What a login, a guard and a call are, by how far they have come.
LEMMA LoginKinds ==
    ASSUME TypeOK, NEW t \in Tokens
    PROVE  /\ login[t].pc \in {"unused", "checked", "created", "done", "stray",
                             "lost"}
           /\ login[t].pc # "unused" => Owner(t) \in Users
           /\ login[t].pc \in {"checked", "created"} =>
                 login[t] \in [pc : {"checked", "created"}, user : Users,
                               roles : Roles, readAt : Times]
           /\ login[t].pc \in {"done", "stray", "lost"} =>
                 login[t] \in [pc : {"done", "stray", "lost"}, user : Users]
<1>1. login[t] \in LoginCall \cup {NoLogin}
  BY DEF TypeOK
<1>2. CASE login[t] \in [pc : {"checked", "created"}, user : Users,
                         roles : Roles, readAt : Times]
  BY <1>2 DEF Owner
<1>3. CASE login[t] \in [pc : {"done", "stray", "lost"}, user : Users]
  BY <1>3 DEF Owner
<1>4. CASE login[t] = NoLogin
  BY <1>4 DEF NoLogin
<1> QED  BY <1>1, <1>2, <1>3, <1>4 DEF LoginCall

LEMMA GuardKinds ==
    ASSUME TypeOK, NEW r \in Requests
    PROVE  /\ request[r].pc \in {"idle", "query", "missing", "found", "admitted"}
           /\ request[r].pc # "idle" => request[r].token \in Tokens
           /\ request[r].pc \in {"found", "admitted"} => request[r].roles \in Roles
           /\ request[r].pc = "found" => request[r].readAt \in Times
<1>1. request[r] \in GuardCall
  BY DEF TypeOK
<1> QED  BY <1>1 DEF GuardCall

LEMMA OpKinds ==
    ASSUME TypeOK, NEW a \in Admins, op[a] # NoOp
    PROVE  /\ op[a] \in OpCall
           /\ op[a].kind \in {"logout", "changePassword", "reset", "disable", "roles"}
           /\ op[a].user \in Users
           /\ op[a].kind = "roles" => op[a].roles \in Roles
<1>1. op[a] \in OpCall
  BY DEF TypeOK
<1> QED  BY <1>1 DEF OpCall

\* A call that has taken effect may still have to clear the cache.
LEMMA OpClears ==
    ASSUME TypeOK, NEW a \in Admins, op[a] # NoOp, op[a].pc = "commit",
           op[a].kind \in {"reset", "disable"}
    PROVE  [op[a] EXCEPT !.pc = "clear"] \in OpCall
<1>1. op[a] \in OpCall
  BY DEF TypeOK
<1>2. CASE op[a] \in [kind : {"reset"}, pc : {"commit", "clear"}, user : Users,
                      token : Tokens \cup {NoToken}]
  BY <1>2 DEF OpCall
<1>3. CASE op[a] \in [kind : {"disable"}, pc : {"commit", "clear"}, user : Users]
  BY <1>3 DEF OpCall
<1> QED  BY <1>1, <1>2, <1>3 DEF OpCall

\* TypeOK without the cache.
CallsOK ==
    /\ login \in [Tokens -> LoginCall \cup {NoLogin}]
    /\ request \in [Requests -> GuardCall]
    /\ op \in [Admins -> OpCall \cup {NoOp}]

TablesOK ==
    /\ now \in Times
    /\ status \in [Users -> {"ACTIVE", "DISABLED"}]
    /\ roleOf \in [Users -> Roles]
    /\ rows \subseteq Tokens
    /\ expires \in [Tokens -> 0..(MaxNow + SessionTTL)]

HistoryOK ==
    /\ ended \in [Tokens -> Times \cup {Never}]
    /\ disabledAt \in [Users -> Times \cup {Never}]
    /\ reroledAt \in [Users -> Times \cup {Never}]
    /\ cut \subseteq Tokens
    /\ replaced \subseteq Tokens

LEMMA TypeParts ==
    /\ TypeOK <=> CallsOK /\ TablesOK /\ CacheOK /\ HistoryOK
    /\ TypeOK' <=> CallsOK' /\ TablesOK' /\ CacheOK' /\ HistoryOK'
  BY DEF TypeOK, CallsOK, TablesOK, CacheOK, HistoryOK

\* Tokens that are stored, cached or shown by a request come from a login that
\* has got so far.  A token that replaced locks out is one of them.
KnownInv ==
    /\ \A t \in rows \cup replaced : login[t].pc \in {"created", "done", "lost"}
    /\ \A t \in Cached : login[t].pc = "done"
    /\ \A r \in Requests :
          request[r].pc # "idle" => login[request[r].token].pc = "done"

\* A statement of a call keeps the types of the tables and the history.
LEMMA ApplyTypes ==
    ASSUME TypeOK, NEW a \in Admins, op[a] # NoOp, Apply(op[a]),
           UNCHANGED <<now, cut>>
    PROVE  TablesOK' /\ HistoryOK'
<1>1. /\ op[a].user \in Users
      /\ op[a].kind = "roles" => op[a].roles \in Roles
  BY OpKinds
<1>2. TablesOK'
  BY <1>1 DEF TypeOK, TablesOK, Apply, Delete
<1>3. HistoryOK'
  BY <1>1 DEF TypeOK, HistoryOK, Apply, Delete, LoggedIn
<1> QED  BY <1>2, <1>3

LEMMA TypeNext == ASSUME TypeOK, KnownInv, [Next]_vars PROVE TypeOK'
<1> USE DEF vars, dbVars, cacheVars, history
<1>t. CallsOK /\ TablesOK /\ CacheOK /\ HistoryOK
  BY TypeParts
<1>u. ASSUME UNCHANGED cacheVars PROVE CacheOK'
  BY <1>u, <1>t DEF CacheOK, Cached, Ordered
<1>1. ASSUME NEW t \in Tokens, NEW u \in Users, LoginRead(t, u) PROVE TypeOK'
  <2>1. CallsOK'
    BY <1>1, <1>t DEF LoginRead, CallsOK, LoginCall, TablesOK
  <2> QED  BY <2>1, <1>1, <1>t, <1>u, TypeParts DEF LoginRead, TablesOK, HistoryOK
<1>2. ASSUME NEW t \in Tokens, LoginCreate(t) PROVE TypeOK'
  <2>1. [login[t] EXCEPT !.pc = "created"] \in LoginCall
    BY <1>2, LoginKinds DEF LoginCreate, LoginCall
  <2>2. CallsOK'
    BY <2>1, <1>2, <1>t DEF LoginCreate, CallsOK
  <2>3. TablesOK'
    BY <1>2, <1>t, TimeAssumption DEF LoginCreate, Insert, TablesOK, Times
  <2> QED  BY <2>2, <2>3, <1>2, <1>t, <1>u, TypeParts DEF LoginCreate, HistoryOK
<1>s. ASSUME NEW t \in Tokens, StrayCreate(t) PROVE TypeOK'
  <2>1. [login[t] EXCEPT !.pc = "lost"] \in LoginCall
    BY <1>s, LoginKinds DEF StrayCreate, LoginCall
  <2>2. CallsOK'
    BY <2>1, <1>s, <1>t DEF StrayCreate, CallsOK
  <2>3. TablesOK'
    BY <1>s, <1>t, TimeAssumption DEF StrayCreate, Insert, TablesOK, Times
  <2> QED  BY <2>2, <2>3, <1>s, <1>t, <1>u, TypeParts DEF StrayCreate, HistoryOK
<1>3. ASSUME NEW t \in Tokens, LoginPrime(t) PROVE TypeOK'
  <2>1. Owner(t) \in Users /\ login[t].roles \in Roles
    BY <1>3, LoginKinds DEF LoginPrime
  <2>2. CacheOK'
    BY <2>1, <1>3, <1>t, PrimeKeepsOrder DEF LoginPrime, TablesOK
  <2>3. CallsOK'
    BY <2>1, <1>3, <1>t DEF LoginPrime, CallsOK, LoginCall
  <2> QED  BY <2>2, <2>3, <1>3, <1>t, TypeParts
           DEF LoginPrime, Prime, TablesOK, HistoryOK
<1>4. ASSUME NEW t \in Tokens, LoginError(t) PROVE TypeOK'
  <2>1. Owner(t) \in Users
    BY <1>4, LoginKinds DEF LoginError
  <2>2. CallsOK'
    BY <2>1, <1>4, <1>t DEF LoginError, Failed, CallsOK, LoginCall
  <2> QED  BY <2>2, <1>4, <1>t, <1>u, TypeParts DEF LoginError, TablesOK, HistoryOK
<1>5. ASSUME Purge PROVE TypeOK'
  BY <1>5, <1>t, <1>u, TypeParts
     DEF Purge, Delete, CallsOK, TablesOK, HistoryOK
<1>6. ASSUME NEW r \in Requests, NEW t \in Tokens, Hit(r, t) PROVE TypeOK'
  <2>1. cache[t].roles \in Roles
    BY <1>6, <1>t DEF Hit, Fresh, CacheOK, Entry
  <2>2. CallsOK'
    BY <2>1, <1>6, <1>t DEF Hit, CallsOK, GuardCall
  <2> QED  BY <2>2, <1>6, <1>t, <1>u, TypeParts DEF Hit, TablesOK, HistoryOK
<1>7. ASSUME NEW r \in Requests, NEW t \in Tokens, Miss(r, t) PROVE TypeOK'
  <2>1. CallsOK'
    BY <1>7, <1>t DEF Miss, CallsOK, GuardCall
  <2> QED  BY <2>1, <1>7, <1>t, <1>u, TypeParts DEF Miss, TablesOK, HistoryOK
<1>8. ASSUME NEW r \in Requests, Query(r) PROVE TypeOK'
  <2> DEFINE t == request[r].token
  <2>1. t \in Tokens
    BY <1>8, GuardKinds DEF Query
  <2>2. roleOf[Owner(t)] \in Roles
    BY <2>1, <1>8, <1>t, LoginKinds DEF Query, KnownInv, TablesOK
  <2>3. CallsOK'
    BY <2>1, <2>2, <1>8, <1>t DEF Query, CallsOK, GuardCall, TablesOK
  <2> QED  BY <2>3, <1>8, <1>t, <1>u, TypeParts DEF Query, TablesOK, HistoryOK
<1>9. ASSUME NEW r \in Requests, Admit(r) PROVE TypeOK'
  <2>1. request[r].token \in Tokens /\ request[r].roles \in Roles
    BY <1>9, GuardKinds DEF Admit
  <2>2. CacheOK'
    BY <2>1, <1>9, <1>t, PrimeKeepsOrder DEF Admit, TablesOK
  <2>3. CallsOK'
    BY <2>1, <1>9, <1>t DEF Admit, CallsOK, GuardCall
  <2> QED  BY <2>2, <2>3, <1>9, <1>t, TypeParts
           DEF Admit, Prime, TablesOK, HistoryOK
<1>10. ASSUME NEW r \in Requests, Reject(r) PROVE TypeOK'
  <2>1. CacheOK'
    BY <1>10, <1>t, KeepKeepsOrder DEF Reject, Drop
  <2>2. CallsOK'
    BY <1>10, <1>t DEF Reject, CallsOK, GuardCall
  <2> QED  BY <2>1, <2>2, <1>10, <1>t, TypeParts DEF Reject, TablesOK, HistoryOK
<1>11. ASSUME NEW a \in Admins, NEW t \in Tokens, Logout(a, t) \/ ChangePassword(a, t)
       PROVE TypeOK'
  <2>1. CacheOK'
    BY <1>11, <1>t, KeepKeepsOrder DEF Logout, ChangePassword, Drop, DropAll
  <2>2. Owner(t) \in Users
    BY <1>11, LoginKinds DEF Logout, ChangePassword
  <2>3. CallsOK'
    BY <2>2, <1>11, <1>t DEF Logout, ChangePassword, Begin, CallsOK, OpCall
  <2> QED  BY <2>1, <2>3, <1>11, <1>t, TypeParts
           DEF Logout, ChangePassword, TablesOK, HistoryOK
<1>12. ASSUME NEW a \in Admins, NEW u \in Users,
              \/ \E t \in Tokens \cup {NoToken} : Reset(a, u, t)
              \/ Disable(a, u)
              \/ \E rs \in Roles : ChangeRoles(a, u, rs)
       PROVE TypeOK'
  <2>1. CallsOK'
    BY <1>12, <1>t DEF Reset, Disable, ChangeRoles, Begin, CallsOK, OpCall
  <2> QED  BY <2>1, <1>12, <1>t, <1>u, TypeParts
           DEF Reset, Disable, ChangeRoles, TablesOK, HistoryOK
<1>13. ASSUME NEW a \in Admins, Commit(a) PROVE TypeOK'
  <2>1. TablesOK' /\ HistoryOK'
    BY <1>13, ApplyTypes DEF Commit
  <2>2. CallsOK'
    BY <1>13, <1>t, OpClears DEF Commit, CallsOK
  <2> QED  BY <2>1, <2>2, <1>13, <1>t, <1>u, TypeParts DEF Commit
<1>14. ASSUME NEW a \in Admins, Clear(a) PROVE TypeOK'
  <2>1. CacheOK'
    BY <1>14, <1>t, KeepKeepsOrder DEF Clear, DropAll
  <2> QED  BY <2>1, <1>14, <1>t, TypeParts DEF Clear, CallsOK, TablesOK, HistoryOK, CacheOK
<1>15. ASSUME NEW a \in Admins, OpError(a) PROVE TypeOK'
  <2>1. TablesOK' /\ HistoryOK'
    <3>1. CASE Apply(op[a])
      BY <3>1, <1>15, ApplyTypes DEF OpError
    <3>2. CASE UNCHANGED <<dbVars, ended, disabledAt, reroledAt, replaced>>
      BY <3>2, <1>15, <1>t DEF OpError, TablesOK, HistoryOK
    <3> QED  BY <3>1, <3>2, <1>15 DEF OpError
  <2> QED  BY <2>1, <1>15, <1>t, <1>u, TypeParts DEF OpError, CallsOK
<1>16. ASSUME NEW u \in Users, Enable(u) PROVE TypeOK'
  BY <1>16, <1>t, <1>u, TypeParts DEF Enable, CallsOK, TablesOK, HistoryOK
<1>17. CASE Tick
  BY <1>17, <1>t, <1>u, TypeParts, TimeAssumption
     DEF Tick, CallsOK, TablesOK, HistoryOK, Times
<1>18. CASE Restart
  <2>1. CacheOK'
    BY <1>18, <1>t, KeepKeepsOrder DEF Restart, DropAll
  <2>2. \A t \in Tokens : login[t].pc \in {"checked", "created"} => Owner(t) \in Users
    BY LoginKinds
  <2>3. CallsOK'
    BY <2>2, <1>18, <1>t DEF Restart, Failed, CallsOK, LoginCall, GuardCall
  <2> QED  BY <2>1, <2>3, <1>18, <1>t, TypeParts DEF Restart, TablesOK, HistoryOK
<1>19. CASE UNCHANGED vars
  BY <1>19, <1>t, <1>u, TypeParts DEF CallsOK, TablesOK, HistoryOK
<1> QED
  BY <1>1, <1>2, <1>3, <1>4, <1>5, <1>6, <1>7, <1>8, <1>9, <1>10, <1>11, <1>12,
     <1>13, <1>14, <1>15, <1>16, <1>17, <1>18, <1>19, <1>s DEF Next, GuardStep

\* What a step does to the logins.
LEMMA LoginSteps ==
    ASSUME [Next]_vars
    PROVE  \/ UNCHANGED login
           \/ Restart
           \/ \E s \in Tokens : \/ \E u \in Users : LoginRead(s, u)
                                \/ LoginCreate(s) \/ LoginPrime(s)
                                \/ LoginError(s) \/ StrayCreate(s)
<1>1. CASE UNCHANGED vars
  BY <1>1 DEF vars
<1>2. ASSUME \/ Purge \/ Tick
             \/ \E r \in Requests : \/ \E s \in Tokens : Hit(r, s) \/ Miss(r, s)
                                  \/ GuardStep(r)
             \/ \E a \in Admins :
                   \/ \E s \in Tokens : Logout(a, s) \/ ChangePassword(a, s)
                   \/ \E u \in Users :
                         \/ \E s \in Tokens \cup {NoToken} : Reset(a, u, s)
                         \/ Disable(a, u)
                         \/ \E rs \in Roles : ChangeRoles(a, u, rs)
                   \/ Commit(a) \/ Clear(a) \/ OpError(a)
             \/ \E u \in Users : Enable(u)
      PROVE  UNCHANGED login
  BY <1>2
     DEF Purge, Hit, Miss, GuardStep, Query, Admit, Reject, Logout,
         ChangePassword, Reset, Disable, ChangeRoles, Commit, Clear, OpError,
         Enable, Tick
<1> QED  BY <1>1, <1>2 DEF Next

\* A login that is done stays done, one that inserted its session has done so.
LEMMA LoginsProgress ==
    ASSUME TypeOK, [Next]_vars, NEW t \in Tokens
    PROVE  /\ login[t].pc = "done" => login'[t].pc = "done"
           /\ login[t].pc \in {"created", "done", "lost"} =>
                 login'[t].pc \in {"created", "done", "lost"}
<1> USE DEF vars
<1>1. login \in [Tokens -> LoginCall \cup {NoLogin}]
  BY DEF TypeOK
<1>2. CASE UNCHANGED login
  BY <1>2
<1>3. ASSUME NEW s \in Tokens,
             \/ \E u \in Users : LoginRead(s, u)
             \/ LoginCreate(s) \/ LoginPrime(s) \/ LoginError(s) \/ StrayCreate(s)
      PROVE  /\ login[t].pc = "done" => login'[t].pc = "done"
             /\ login[t].pc \in {"created", "done", "lost"} =>
                   login'[t].pc \in {"created", "done", "lost"}
  BY <1>1, <1>3
     DEF LoginRead, LoginCreate, LoginPrime, LoginError, StrayCreate, Failed,
         NoLogin
<1>4. CASE Restart
  BY <1>1, <1>4 DEF Restart, Failed
<1> QED  BY <1>2, <1>3, <1>4, LoginSteps

\* Only LoginCreate and StrayCreate add a session.
LEMMA RowsShrink ==
    ASSUME [Next]_vars
    PROVE  rows' \subseteq rows
             \/ \E t \in Tokens : LoginCreate(t) \/ StrayCreate(t)
<1> USE DEF vars, dbVars
<1> QED
  BY DEF Next, LoginRead, LoginPrime, LoginError, StrayCreate, Purge, Delete,
         Hit, Miss, GuardStep, Query, Admit, Reject, Logout, ChangePassword,
         Reset, Disable, ChangeRoles, Commit, Apply, Clear, OpError, Enable,
         Tick, Restart

\* What a step does to the cache.
LEMMA CacheSteps ==
    ASSUME [Next]_vars
    PROVE  \/ UNCHANGED cacheVars
           \/ \E keys \in SUBSET Cached : Keep(keys)
           \/ \E t \in Tokens : LoginPrime(t)
           \/ \E r \in Requests : Admit(r)
<1> USE DEF vars
<1>1. \A t : Cached \ {t} \in SUBSET Cached /\ {} \in SUBSET Cached
  OBVIOUS
<1> QED
  BY <1>1
     DEF Next, LoginRead, LoginCreate, LoginError, StrayCreate, Purge, Hit,
         Miss, GuardStep, Query, Reject, Logout, ChangePassword, Reset, Disable,
         ChangeRoles, Commit, Clear, OpError, Enable, Tick, Restart, Drop,
         DropAll

LEMMA KnownNext == ASSUME TypeOK, KnownInv, [Next]_vars PROVE KnownInv'
<1> USE DEF vars, dbVars, history
<1>c. CacheOK /\ now \in Times
  BY TypeParts DEF TablesOK
<1>1. \A t \in rows' : login'[t].pc \in {"created", "done", "lost"}
  <2>1. CASE rows' \subseteq rows
    BY <2>1, LoginsProgress DEF KnownInv, TypeOK
  <2>2. ASSUME NEW t \in Tokens, LoginCreate(t) \/ StrayCreate(t)
        PROVE  \A s \in rows' : login'[s].pc \in {"created", "done", "lost"}
    <3>1. login'[t].pc \in {"created", "lost"}
      <4>1. LoginCreate(t) => login'[t].pc = "created"
        BY DEF LoginCreate, TypeOK
      <4>2. StrayCreate(t) => login'[t].pc = "lost"
        BY DEF StrayCreate, TypeOK
      <4> QED  BY <2>2, <4>1, <4>2
    <3>2. rows' = rows \cup {t}
      BY <2>2 DEF LoginCreate, StrayCreate, Insert
    <3> QED  BY <3>1, <3>2, LoginsProgress DEF KnownInv, TypeOK
  <2> QED  BY <2>1, <2>2, RowsShrink
<1>2. \A t \in replaced' : login'[t].pc \in {"created", "done", "lost"}
  <2>1. ASSUME NEW t \in replaced' PROVE t \in Tokens /\ login[t].pc \in {"created", "done", "lost"}
    <3>1. t \in replaced \/ \E u \in Users : t \in LoggedIn(u)
      <4>1. CASE UNCHANGED replaced
        BY <4>1, <2>1
      <4>2. ASSUME NEW a \in Admins, op[a] # NoOp, Apply(op[a])
            PROVE  t \in replaced \/ \E u \in Users : t \in LoggedIn(u)
        BY <4>2, <2>1, OpKinds DEF Apply
      <4>3. UNCHANGED replaced \/ \E a \in Admins : op[a] # NoOp /\ Apply(op[a])
        BY DEF Next, LoginRead, LoginCreate, LoginPrime, LoginError,
               StrayCreate, Purge, Hit, Miss, GuardStep, Query, Admit, Reject,
               Logout, ChangePassword, Reset, Disable, ChangeRoles, Commit,
               Clear, OpError, Enable, Tick, Restart
      <4> QED  BY <4>1, <4>2, <4>3
    <3> QED  BY <3>1 DEF KnownInv, LoggedIn, TypeOK
  <2> QED  BY <2>1, LoginsProgress
<1>3. \A t \in Cached' : login'[t].pc = "done"
  <2>1. CASE UNCHANGED cacheVars
    BY <2>1, <1>c, LoginsProgress DEF KnownInv, cacheVars, Cached, CacheOK
  <2>2. ASSUME NEW keys \in SUBSET Cached, Keep(keys)
        PROVE  \A t \in Cached' : login'[t].pc = "done"
    <3>1. Cached' = keys
      BY <2>2, <1>c, KeepKeepsOrder
    <3> QED  BY <3>1, <1>c, LoginsProgress DEF KnownInv, CacheOK
  <2>3. ASSUME NEW t \in Tokens, NEW rs \in Roles, Prime(t, rs), login'[t].pc = "done"
        PROVE  \A s \in Cached' : login'[s].pc = "done"
    <3>1. Cached' = Room \cup {t} /\ Room \subseteq Cached
      BY <2>3, <1>c, PrimeKeepsOrder
    <3> QED  BY <3>1, <2>3, <1>c, LoginsProgress DEF KnownInv, CacheOK
  <2>4. ASSUME NEW t \in Tokens, LoginPrime(t)
        PROVE  \A s \in Cached' : login'[s].pc = "done"
    <3>1. login'[t].pc = "done" /\ login[t].roles \in Roles /\ Prime(t, login[t].roles)
      BY <2>4, LoginKinds DEF LoginPrime, TypeOK
    <3> QED  BY <3>1, <2>3
  <2>5. ASSUME NEW r \in Requests, Admit(r)
        PROVE  \A s \in Cached' : login'[s].pc = "done"
    <3>1. /\ request[r].token \in Tokens /\ request[r].roles \in Roles
          /\ login[request[r].token].pc = "done"
      BY <2>5, GuardKinds DEF Admit, KnownInv
    <3>2. Prime(request[r].token, request[r].roles)
      BY <2>5 DEF Admit
    <3> QED  BY <3>1, <3>2, <2>3, LoginsProgress
  <2> QED  BY <2>1, <2>2, <2>4, <2>5, CacheSteps
<1>4. ASSUME NEW r \in Requests, request'[r].pc # "idle"
      PROVE  login'[request'[r].token].pc = "done"
  <2>1. /\ request[r] \in GuardCall
        /\ request \in [Requests -> GuardCall]
        /\ request[r].pc # "idle" => request[r].token \in Tokens
    BY GuardKinds DEF TypeOK
  <2>2. CASE request'[r].pc = "idle" \/ UNCHANGED request
    BY <2>1, <2>2, <1>4, LoginsProgress DEF KnownInv
  <2>3. ASSUME NEW q \in Requests, NEW t \in Tokens, Hit(q, t) \/ Miss(q, t)
        PROVE  login'[request'[r].token].pc = "done"
    BY <2>1, <2>3, <1>4, LoginsProgress DEF KnownInv, Hit, Miss, Starts
  <2>4. ASSUME NEW q \in Requests, GuardStep(q)
        PROVE  login'[request'[r].token].pc = "done"
    BY <2>1, <2>4, <1>4, LoginsProgress DEF KnownInv, GuardStep, Query, Admit, Reject
  <2>5. CASE Restart
    BY <2>5, <1>4 DEF Restart
  <2>6. \/ UNCHANGED request \/ Restart
        \/ \E q \in Requests : \/ \E t \in Tokens : Hit(q, t) \/ Miss(q, t)
                               \/ GuardStep(q)
    BY DEF Next, LoginRead, LoginCreate, LoginPrime, LoginError, StrayCreate,
           Purge, Logout, ChangePassword, Reset, Disable, ChangeRoles, Commit,
           Clear, OpError, Enable, Tick
  <2> QED  BY <2>2, <2>3, <2>4, <2>5, <2>6
<1> QED  BY <1>1, <1>2, <1>3, <1>4 DEF KnownInv

LEMMA TypeInit == Init => TypeOK /\ KnownInv
  BY FS_EmptySet, CacheAssumption, TimeAssumption
     DEF Init, TypeOK, KnownInv, Cached, Entry, Ordered, Times, GuardCall

LEMMA KnownCorrect == Spec => [](TypeOK /\ KnownInv)
  BY TypeInit, TypeNext, KnownNext, PTL DEF Spec

\* Every variable keeps its type; the cache of sessions never outgrows its limit
\* and stays in the order of insertion.
THEOREM TypeCorrect == Spec => []TypeOK
  BY KnownCorrect, PTL

\* A password that was changed or reset opens nothing any more, but to a login
\* that had read the account by then: no session opened with it stays or returns.
THEOREM PasswordsLockOut == Spec => []OldPasswordIsOut
<1> USE DEF vars, dbVars, history
<1>1. Init => OldPasswordIsOut
  BY DEF Init, OldPasswordIsOut
<1>2. ASSUME TypeOK, KnownInv, OldPasswordIsOut, [Next]_vars PROVE OldPasswordIsOut'
  <2>1. CASE UNCHANGED replaced /\ rows' \subseteq rows
    BY <2>1, <1>2 DEF OldPasswordIsOut
  <2>2. ASSUME NEW t \in Tokens, LoginCreate(t) \/ StrayCreate(t) PROVE OldPasswordIsOut'
    BY <2>2, <1>2 DEF LoginCreate, StrayCreate, Insert, OldPasswordIsOut, KnownInv
  <2>3. ASSUME NEW a \in Admins, op[a] # NoOp, Apply(op[a]) PROVE OldPasswordIsOut'
    <3>1. op[a].kind \in {"logout", "changePassword", "reset", "disable", "roles"}
      BY <2>3, <1>2, OpKinds
    <3>2. CASE op[a].kind \in {"changePassword", "reset"}
      <4>1. rows' = rows \ (SessionsOf(op[a].user) \ {op[a].token})
        BY <2>3, <3>2 DEF Apply, Delete, Deleted
      <4>2. replaced' = replaced \cup (LoggedIn(op[a].user) \ {op[a].token})
        BY <2>3, <3>2 DEF Apply
      <4> QED  BY <4>1, <4>2, <1>2 DEF OldPasswordIsOut, SessionsOf, LoggedIn
    <3>3. CASE op[a].kind \notin {"changePassword", "reset"}
      BY <2>3, <3>3, <1>2 DEF Apply, Delete, OldPasswordIsOut
    <3> QED  BY <3>2, <3>3
  <2>4. \/ UNCHANGED replaced /\ rows' \subseteq rows
        \/ \E t \in Tokens : LoginCreate(t) \/ StrayCreate(t)
        \/ \E a \in Admins : op[a] # NoOp /\ Apply(op[a])
    BY <1>2 DEF Next, LoginRead, LoginPrime, LoginError, StrayCreate, Purge,
       Delete, Hit, Miss, GuardStep, Query, Admit, Reject, Logout,
       ChangePassword, Reset, Disable, ChangeRoles, Commit, Clear, OpError,
       Enable, Tick, Restart
  <2> QED  BY <2>1, <2>2, <2>3, <2>4
<1> QED  BY <1>1, <1>2, KnownCorrect, PTL DEF Spec

-----------------------------------------------------------------------------
(* What has been read of a session holds since, or stopped to hold later *)

\* That session t has roles rs was true at a time not before at.
ReadOK(t, rs, at) ==
    /\ at <= now
    /\ t \notin rows /\ ended[t] # Never => at <= ended[t]
    /\ status[Owner(t)] = "DISABLED" =>
          disabledAt[Owner(t)] # Never /\ at <= disabledAt[Owner(t)]
    /\ rs # roleOf[Owner(t)] =>
          reroledAt[Owner(t)] # Never /\ at <= reroledAt[Owner(t)]

LoginsInv == \A t \in Tokens :
    /\ login[t].pc \in {"checked", "created"} =>
          /\ ReadOK(t, login[t].roles, login[t].readAt)
          /\ now - login[t].readAt <= MaxDelay
    /\ login[t].pc = "created" => login[t].readAt + SessionTTL <= expires[t]

GuardsInv == \A r \in Requests :
    request[r].pc = "found" =>
        /\ ReadOK(request[r].token, request[r].roles, request[r].readAt)
        /\ now - request[r].readAt <= MaxDelay

\* An entry is as old as its last fill, and that may be MaxDelay after the read.
CacheInv == \A t \in Cached :
    /\ ReadOK(t, cache[t].roles, cache[t].at - MaxDelay)
    /\ cache[t].at <= now
    /\ cache[t].at <= expires[t]

\* A session that was not yet inserted was not deleted.
NewInv == \A t \in Tokens :
    login[t].pc \in {"unused", "checked", "stray"} => ended[t] = Never

IInv == TypeOK /\ KnownInv /\ NewInv /\ LoginsInv /\ GuardsInv /\ CacheInv

\* What any step does to the facts that were read: it leaves them, or notes that
\* it changed them now.
Moves ==
    /\ now <= now'
    /\ \A t \in Tokens : t \notin rows' /\ ended'[t] # Never =>
          \/ t \notin rows /\ ended'[t] = ended[t]
          \/ ended'[t] = now
    /\ \A u \in Users :
          \/ status'[u] = status[u] /\ disabledAt'[u] = disabledAt[u]
          \/ status'[u] = "ACTIVE"
          \/ disabledAt'[u] = now
    /\ \A u \in Users :
          \/ roleOf'[u] = roleOf[u] /\ reroledAt'[u] = reroledAt[u]
          \/ reroledAt'[u] = now

LEMMA ReadsMove == ASSUME TypeOK, [Next]_vars PROVE Moves
<1> USE DEF vars, dbVars, history, TypeOK
<1>n. now \in Int
  BY TimeAssumption DEF Times
<1>1. CASE UNCHANGED <<now, rows, ended, status, disabledAt, roleOf, reroledAt>>
  BY <1>1, <1>n DEF Moves
<1>2. ASSUME NEW t \in Tokens, LoginCreate(t) \/ StrayCreate(t) PROVE Moves
  BY <1>2, <1>n DEF LoginCreate, StrayCreate, Insert, Moves
<1>3. CASE Purge
  BY <1>3, <1>n DEF Purge, Delete, Moves
<1>4. ASSUME NEW a \in Admins, op[a] # NoOp, Apply(op[a]), UNCHANGED now PROVE Moves
  BY <1>4, <1>n, OpKinds DEF Apply, Delete, Moves
<1>5. ASSUME NEW u \in Users, Enable(u) PROVE Moves
  BY <1>5, <1>n DEF Enable, Moves
<1>6. CASE Tick
  BY <1>6, <1>n DEF Tick, Moves
<1>7. ASSUME \/ Restart
             \/ \E t \in Tokens : \/ \E u \in Users : LoginRead(t, u)
                                  \/ LoginPrime(t) \/ LoginError(t)
             \/ \E r \in Requests : \/ \E s \in Tokens : Hit(r, s) \/ Miss(r, s)
                                    \/ GuardStep(r)
             \/ \E a \in Admins :
                   \/ \E s \in Tokens : Logout(a, s) \/ ChangePassword(a, s)
                   \/ \E u \in Users :
                         \/ \E s \in Tokens \cup {NoToken} : Reset(a, u, s)
                         \/ Disable(a, u)
                         \/ \E rs \in Roles : ChangeRoles(a, u, rs)
                   \/ Clear(a)
      PROVE  UNCHANGED <<now, rows, ended, status, disabledAt, roleOf, reroledAt>>
  BY <1>7 DEF Restart, LoginRead, LoginPrime, LoginError, Hit, Miss, GuardStep,
         Query, Admit, Reject, Logout, ChangePassword, Reset, Disable, ChangeRoles,
         Clear
<1>8. ASSUME NEW a \in Admins, Commit(a) \/ OpError(a)
      PROVE  \/ UNCHANGED <<now, rows, ended, status, disabledAt, roleOf, reroledAt>>
             \/ op[a] # NoOp /\ Apply(op[a]) /\ UNCHANGED now
  BY <1>8 DEF Commit, OpError
<1> QED  BY <1>1, <1>2, <1>3, <1>4, <1>5, <1>6, <1>7, <1>8 DEF Next

\* A login never changes its account.
LEMMA OwnersStay ==
    ASSUME TypeOK, [Next]_vars, NEW t \in Tokens, login[t].pc # "unused"
    PROVE  Owner(t)' = Owner(t) /\ Owner(t) \in Users
<1> USE DEF vars
<1>1. login \in [Tokens -> LoginCall \cup {NoLogin}] /\ Owner(t) \in Users
  BY LoginKinds DEF TypeOK
<1>2. ASSUME NEW s \in Tokens,
             \/ \E u \in Users : LoginRead(s, u)
             \/ LoginCreate(s) \/ LoginPrime(s) \/ LoginError(s) \/ StrayCreate(s)
      PROVE  Owner(t)' = Owner(t)
  <2>1. ASSUME NEW u \in Users, LoginRead(s, u) PROVE Owner(t)' = Owner(t)
    BY <1>1, <2>1 DEF LoginRead, NoLogin, Owner
  <2>2. CASE LoginCreate(s)
    BY <1>1, <2>2 DEF LoginCreate, Owner
  <2>3. CASE LoginPrime(s)
    BY <1>1, <2>3 DEF LoginPrime, Owner
  <2>4. CASE LoginError(s)
    BY <1>1, <2>4 DEF LoginError, Failed, Owner
  <2>5. CASE StrayCreate(s)
    BY <1>1, <2>5 DEF StrayCreate, Owner
  <2> QED  BY <1>2, <2>1, <2>2, <2>3, <2>4, <2>5
<1>3. CASE Restart
  BY <1>1, <1>3 DEF Restart, Failed, Owner
<1>4. CASE UNCHANGED login
  BY <1>1, <1>4 DEF Owner
<1> QED  BY <1>1, <1>2, <1>3, <1>4, LoginSteps

\* What was read stays as true as it was.
LEMMA ReadStays ==
    ASSUME TypeOK, [Next]_vars, NEW t \in Tokens, login[t].pc # "unused"
    PROVE  \A rs, at : at \in Int /\ ReadOK(t, rs, at) => ReadOK(t, rs, at)'
<1>1. Moves /\ Owner(t)' = Owner(t) /\ Owner(t) \in Users
  BY ReadsMove, OwnersStay
<1>2. now \in Int /\ now # Never /\ now' \in Int
  <2>1. now \in Times
    BY DEF TypeOK
  <2>2. now' = now \/ Tick
    BY DEF Next, vars, LoginRead, LoginCreate, LoginPrime, LoginError,
           StrayCreate, Purge, Hit, Miss, GuardStep, Query, Admit, Reject,
           Logout, ChangePassword, Reset, Disable, ChangeRoles, Commit, Clear,
           OpError, Enable, Restart
  <2> QED  BY <2>1, <2>2, TimeAssumption DEF Times, Never, Tick
<1>3. /\ ended[t] \in Times \cup {Never}
      /\ disabledAt[Owner(t)] \in Times \cup {Never}
      /\ reroledAt[Owner(t)] \in Times \cup {Never}
  BY <1>1 DEF TypeOK
<1>4. ASSUME NEW rs, NEW at \in Int, ReadOK(t, rs, at) PROVE ReadOK(t, rs, at)'
  <2>1. (at <= now)'
    BY <1>1, <1>2, <1>4 DEF Moves, ReadOK
  <2>2. (t \notin rows /\ ended[t] # Never => at <= ended[t])'
    BY <1>1, <1>2, <1>3, <1>4 DEF Moves, ReadOK
  <2> DEFINE u == Owner(t)
  <2>3. status'[u] = "DISABLED" => disabledAt'[u] # Never /\ at <= disabledAt'[u]
    <3>1. \/ status'[u] = status[u] /\ disabledAt'[u] = disabledAt[u]
          \/ status'[u] = "ACTIVE"
          \/ disabledAt'[u] = now
      BY <1>1 DEF Moves
    <3> QED  BY <3>1, <1>2, <1>4 DEF ReadOK
  <2>4. rs # roleOf'[u] => reroledAt'[u] # Never /\ at <= reroledAt'[u]
    <3>1. \/ roleOf'[u] = roleOf[u] /\ reroledAt'[u] = reroledAt[u]
          \/ reroledAt'[u] = now
      BY <1>1 DEF Moves
    <3> QED  BY <3>1, <1>2, <1>4 DEF ReadOK
  <2> QED  BY <1>1, <2>1, <2>2, <2>3, <2>4 DEF ReadOK
<1> QED  BY <1>4

\* Time stands still unless it ticks, and it waits for what is under way.
LEMMA TimeWaits ==
    ASSUME TypeOK, [Next]_vars
    PROVE  /\ now \in Nat /\ now' \in Nat /\ now <= now'
           /\ \/ now' = now
              \/ /\ UNCHANGED <<login, request>>
                 /\ \A r \in Requests : request[r].pc = "found" =>
                       now' - request[r].readAt <= MaxDelay
                 /\ \A t \in Tokens : login[t].pc \in {"checked", "created"} =>
                       now' - login[t].readAt <= MaxDelay
<1>1. now \in Times
  BY DEF TypeOK
<1>2. now' = now \/ Tick
  BY DEF Next, vars, LoginRead, LoginCreate, LoginPrime, LoginError,
         StrayCreate, Purge, Hit, Miss, GuardStep, Query, Admit, Reject, Logout,
         ChangePassword, Reset, Disable, ChangeRoles, Commit, Clear, OpError,
         Enable, Restart
<1>3. CASE Tick
  <2>1. \A r \in Requests : request[r].pc = "found" => request[r].readAt \in Int
    BY GuardKinds, TimeAssumption DEF Times
  <2>2. \A t \in Tokens : login[t].pc \in {"checked", "created"} => login[t].readAt \in Int
    BY LoginKinds, TimeAssumption DEF Times
  <2> QED  BY <1>1, <1>3, <2>1, <2>2, TimeAssumption DEF Tick, Times
<1> QED  BY <1>1, <1>2, <1>3, TimeAssumption DEF Times

\* Only a login sets the time its session ends.
LEMMA ExpiryStays ==
    ASSUME TypeOK, [Next]_vars, NEW t \in Tokens,
           login[t].pc \notin {"checked", "stray"}
    PROVE  expires'[t] = expires[t]
<1> USE DEF vars, dbVars
<1>1. ASSUME NEW s \in Tokens, LoginCreate(s) \/ StrayCreate(s)
      PROVE  expires'[t] = expires[t]
  BY <1>1 DEF LoginCreate, StrayCreate, Insert, TypeOK
<1>2. UNCHANGED expires \/ \E s \in Tokens : LoginCreate(s) \/ StrayCreate(s)
  BY DEF Next, LoginRead, LoginPrime, LoginError, StrayCreate, Purge, Hit, Miss,
         GuardStep, Query, Admit, Reject, Logout, ChangePassword, Reset,
         Disable, ChangeRoles, Commit, Apply, Clear, OpError, Enable, Tick,
         Restart
<1> QED  BY <1>1, <1>2

\* What is read just now is true.
LEMMA ReadNow ==
    ASSUME TypeOK, NEW t \in Tokens, t \in rows \/ ended[t] = Never, Owner(t) \in Users,
           status[Owner(t)] = "ACTIVE"
    PROVE  ReadOK(t, roleOf[Owner(t)], now)
  BY TimeAssumption DEF ReadOK, TypeOK, Times


LEMMA NewNext == ASSUME TypeOK, KnownInv, NewInv, [Next]_vars PROVE NewInv'
<1> USE DEF vars, dbVars, history
<1>1. \A t \in Tokens : login'[t].pc \in {"unused", "checked", "stray"} =>
                         login[t].pc \in {"unused", "checked", "stray"}
  BY LoginsProgress, LoginKinds DEF TypeOK
<1>2. \A t \in Tokens : ended'[t] = ended[t] \/ t \in rows
  <2>1. CASE UNCHANGED ended
    BY <2>1
  <2>2. ASSUME NEW S, Delete(S) PROVE \A t \in Tokens : ended'[t] = ended[t] \/ t \in rows
    BY <2>2 DEF Delete
  <2>3. UNCHANGED ended \/ \E S : Delete(S)
    BY DEF Next, LoginRead, LoginCreate, LoginPrime, LoginError, StrayCreate,
           Purge, Hit, Miss, GuardStep, Query, Admit, Reject, Logout,
           ChangePassword, Reset, Disable, ChangeRoles, Commit, Apply, Clear,
           OpError, Enable, Tick, Restart
  <2> QED  BY <2>1, <2>2, <2>3
<1> QED  BY <1>1, <1>2 DEF NewInv, KnownInv

LEMMA LoginsNext == ASSUME IInv, [Next]_vars PROVE LoginsInv'
<1> USE DEF vars, dbVars, history
<1>1. TypeOK /\ KnownInv /\ NewInv /\ LoginsInv
  BY DEF IInv
<1>2. /\ login \in [Tokens -> LoginCall \cup {NoLogin}]
      /\ now \in Int /\ now' \in Int /\ now <= now'
  BY <1>1, TimeWaits DEF TypeOK
<1>3. SUFFICES ASSUME NEW t \in Tokens, login'[t].pc \in {"checked", "created"}
      PROVE  /\ ReadOK(t, login[t].roles, login[t].readAt)'
             /\ now' - login'[t].readAt <= MaxDelay
             /\ login'[t].pc = "created" => login'[t].readAt + SessionTTL <= expires'[t]
  BY DEF LoginsInv
<1>4. ASSUME login[t].pc \in {"checked", "created"},
             login'[t].roles = login[t].roles, login'[t].readAt = login[t].readAt
      PROVE  ReadOK(t, login[t].roles, login[t].readAt)'
  <2>1. ReadOK(t, login[t].roles, login[t].readAt) /\ login[t].readAt \in Int
    BY <1>1, <1>4, LoginKinds, TimeAssumption DEF LoginsInv, Times
  <2> QED  BY <2>1, <1>4, <1>1, ReadStays DEF ReadOK
<1>5. CASE UNCHANGED login \/ Restart
  <2>1. login'[t] = login[t]
    BY <1>2, <1>3, <1>5 DEF Restart, Failed
  <2>2. now' - login'[t].readAt <= MaxDelay
    BY <2>1, <1>1, <1>3, TimeWaits DEF LoginsInv
  <2>3. login'[t].pc = "created" => login'[t].readAt + SessionTTL <= expires'[t]
    BY <2>1, <1>1, <1>3, ExpiryStays DEF LoginsInv
  <2> QED  BY <2>1, <2>2, <2>3, <1>3, <1>4
<1>6. ASSUME NEW s \in Tokens, NEW u \in Users, LoginRead(s, u)
      PROVE  /\ ReadOK(t, login[t].roles, login[t].readAt)'
             /\ now' - login'[t].readAt <= MaxDelay
             /\ login'[t].pc = "created" => login'[t].readAt + SessionTTL <= expires'[t]
  <2>1. CASE t = s
    <3>1. login'[t] = [pc |-> "checked", user |-> u, roles |-> roleOf[u], readAt |-> now]
      BY <2>1, <1>2, <1>6 DEF LoginRead
    <3>2. ended[t] = Never /\ status[u] = "ACTIVE" /\ login[t].pc = "unused"
      BY <2>1, <1>1, <1>6 DEF NewInv, LoginRead, NoLogin
    <3>3. ReadOK(t, login[t].roles, login[t].readAt)'
      BY <3>1, <3>2, <1>2, <1>6 DEF ReadOK, LoginRead, Owner
    <3> QED  BY <3>1, <3>3, <1>2, <1>6, TimeAssumption DEF LoginRead
  <2>2. CASE t # s
    BY <2>2, <1>1, <1>2, <1>3, <1>4, <1>6 DEF LoginRead, LoginsInv
  <2> QED  BY <2>1, <2>2
<1>7. ASSUME NEW s \in Tokens, LoginCreate(s)
      PROVE  /\ ReadOK(t, login[t].roles, login[t].readAt)'
             /\ now' - login'[t].readAt <= MaxDelay
             /\ login'[t].pc = "created" => login'[t].readAt + SessionTTL <= expires'[t]
  <2>1. CASE t = s
    <3>1. /\ login'[t].roles = login[t].roles /\ login'[t].readAt = login[t].readAt
          /\ login[t].pc = "checked" /\ expires'[t] = now + SessionTTL
      BY <2>1, <1>1, <1>2, <1>7 DEF LoginCreate, Insert, TypeOK
    <3>2. login[t].readAt \in Int /\ login[t].readAt <= now
      BY <3>1, <1>1, LoginKinds, TimeAssumption DEF LoginsInv, ReadOK, Times
    <3> QED  BY <3>1, <3>2, <1>1, <1>2, <1>4, <1>7, TimeAssumption DEF LoginsInv, LoginCreate
  <2>2. CASE t # s
    <3>1. login'[t] = login[t] /\ expires'[t] = expires[t] /\ now' = now
      BY <2>2, <1>1, <1>2, <1>7 DEF LoginCreate, Insert, TypeOK
    <3> QED  BY <3>1, <1>1, <1>3, <1>4 DEF LoginsInv
  <2> QED  BY <2>1, <2>2
<1>8. ASSUME NEW s \in Tokens, LoginPrime(s) \/ LoginError(s) \/ StrayCreate(s)
      PROVE  /\ ReadOK(t, login[t].roles, login[t].readAt)'
             /\ now' - login'[t].readAt <= MaxDelay
             /\ login'[t].pc = "created" => login'[t].readAt + SessionTTL <= expires'[t]
  <2>1. login'[t] = login[t] /\ expires'[t] = expires[t] /\ now' = now
    <3>1. CASE LoginPrime(s) \/ LoginError(s)
      BY <1>2, <1>3, <3>1 DEF LoginPrime, LoginError, Failed
    <3>2. CASE StrayCreate(s)
      <4>1. login'[s].pc = "lost"
        BY <1>2, <3>2 DEF StrayCreate
      <4>2. s # t
        BY <1>3, <4>1
      <4> QED  BY <1>1, <1>2, <3>2, <4>2 DEF StrayCreate, Insert, TypeOK
    <3> QED  BY <1>8, <3>1, <3>2
  <2> QED  BY <2>1, <1>1, <1>3, <1>4 DEF LoginsInv
<1> QED  BY <1>5, <1>6, <1>7, <1>8, LoginSteps

LEMMA GuardsNext == ASSUME IInv, [Next]_vars PROVE GuardsInv'
<1> USE DEF vars, dbVars, history
<1>1. TypeOK /\ KnownInv /\ NewInv /\ GuardsInv
  BY DEF IInv
<1>2. /\ request \in [Requests -> GuardCall]
      /\ now \in Int /\ now' \in Int /\ now <= now'
  BY <1>1, TimeWaits DEF TypeOK
<1>3. SUFFICES ASSUME NEW r \in Requests, request'[r].pc = "found"
      PROVE  /\ ReadOK(request[r].token, request[r].roles, request[r].readAt)'
             /\ now' - request'[r].readAt <= MaxDelay
  BY DEF GuardsInv
<1>4. CASE request'[r] = request[r]
  <2> DEFINE t == request[r].token
  <2>1. /\ t \in Tokens /\ login[t].pc # "unused" /\ request[r].readAt \in Int
        /\ ReadOK(t, request[r].roles, request[r].readAt)
    BY <1>1, <1>3, <1>4, GuardKinds, TimeAssumption DEF KnownInv, GuardsInv, Times
  <2>2. ReadOK(request[r].token, request[r].roles, request[r].readAt)'
    BY <2>1, <1>1, <1>4, ReadStays DEF ReadOK
  <2>3. now' - request'[r].readAt <= MaxDelay
    BY <1>1, <1>3, <1>4, TimeWaits DEF GuardsInv
  <2> QED  BY <2>2, <2>3
<1>5. ASSUME NEW q \in Requests, Query(q)
      PROVE  \/ request'[r] = request[r]
             \/ /\ ReadOK(request[r].token, request[r].roles, request[r].readAt)'
                /\ now' - request'[r].readAt <= MaxDelay
  <2> DEFINE t == request[q].token
  <2>1. CASE q = r /\ t \in rows /\ status[Owner(t)] = "ACTIVE"
    <3>1. request'[r] = [pc |-> "found", token |-> t, roles |-> roleOf[Owner(t)],
                         readAt |-> now]
      BY <2>1, <1>2, <1>5 DEF Query
    <3>2. ReadOK(request[r].token, request[r].roles, request[r].readAt)'
      BY <3>1, <2>1, <1>2, <1>5 DEF ReadOK, Query, Owner
    <3> QED  BY <3>1, <3>2, <1>2, <1>5, TimeAssumption DEF Query
  <2>2. CASE ~(q = r /\ t \in rows /\ status[Owner(t)] = "ACTIVE")
    BY <2>2, <1>2, <1>3, <1>5 DEF Query
  <2> QED  BY <2>1, <2>2
<1>6. \/ request'[r] = request[r]
      \/ \E q \in Requests : Query(q)
  <2>1. CASE UNCHANGED request
    BY <2>1
  <2>2. ASSUME NEW q \in Requests, NEW t \in Tokens, Hit(q, t) \/ Miss(q, t)
        PROVE  request'[r] = request[r]
    BY <2>2, <1>2, <1>3 DEF Hit, Miss
  <2>3. ASSUME NEW q \in Requests, Admit(q) \/ Reject(q) PROVE request'[r] = request[r]
    BY <2>3, <1>2, <1>3 DEF Admit, Reject
  <2>4. CASE Restart
    BY <2>4, <1>3 DEF Restart
  <2>5. \/ UNCHANGED request \/ Restart
        \/ \E q \in Requests : \/ \E t \in Tokens : Hit(q, t) \/ Miss(q, t)
                               \/ GuardStep(q)
    BY DEF Next, LoginRead, LoginCreate, LoginPrime, LoginError, StrayCreate,
           Purge, Logout, ChangePassword, Reset, Disable, ChangeRoles, Commit,
           Clear, OpError, Enable, Tick
  <2> QED  BY <2>1, <2>2, <2>3, <2>4, <2>5 DEF GuardStep
<1> QED  BY <1>4, <1>5, <1>6

\* What was true at a time not before at was so at one not before an earlier time.
LEMMA ReadEarlier ==
    ASSUME TypeOK, NEW t \in Tokens, Owner(t) \in Users, NEW rs, NEW at \in Int,
           NEW earlier \in Int, earlier <= at, ReadOK(t, rs, at)
    PROVE  ReadOK(t, rs, earlier)
  BY TimeAssumption DEF ReadOK, TypeOK, Times, Never

\* What Prime caches was read not long before, and what it keeps is as before.
LEMMA PrimedIsRead ==
    ASSUME IInv, [Next]_vars, NEW t \in Tokens, NEW rs \in Roles,
           Prime(t, rs), now' = now, login[t].pc # "unused", now <= expires'[t],
           ReadOK(t, rs, now - MaxDelay)
    PROVE  CacheInv'
<1>1. TypeOK /\ KnownInv /\ CacheInv /\ CacheOK /\ now \in Times
  BY TypeParts DEF IInv, TablesOK
<1>2. Cached' = Room \cup {t} /\ Room \subseteq Cached /\ Cached \subseteq Tokens
  BY <1>1, PrimeKeepsOrder DEF CacheOK
<1>3. SUFFICES ASSUME NEW s \in Cached'
      PROVE  /\ ReadOK(s, cache[s].roles, cache[s].at - MaxDelay)'
             /\ cache'[s].at <= now' /\ cache'[s].at <= expires'[s]
  BY DEF CacheInv
<1>4. CASE s = t
  <2>1. cache'[s] = [roles |-> rs, at |-> now]
    BY <1>2, <1>3, <1>4 DEF Prime
  <2>2. now - MaxDelay \in Int
    BY <1>1, TimeAssumption DEF Times
  <2>3. ReadOK(s, cache[s].roles, cache[s].at - MaxDelay)'
    BY <2>1, <2>2, <1>1, <1>4, ReadStays DEF ReadOK
  <2> QED  BY <2>1, <2>3, <1>1, <1>4, TimeAssumption DEF Times
<1>5. CASE s # t
  <2>1. s \in Cached /\ s \in Tokens /\ cache'[s] = cache[s] /\ login[s].pc = "done"
    BY <1>1, <1>2, <1>3, <1>5 DEF Prime, KnownInv
  <2>2. expires'[s] = expires[s]
    BY <2>1, <1>1, ExpiryStays
  <2>3. cache[s].at \in Int /\ MaxDelay \in Int
    BY <2>1, <1>1, TimeAssumption DEF CacheOK, Entry, Times
  <2>4. PICK q, at : q = cache[s].roles /\ at = cache[s].at - MaxDelay
    OBVIOUS
  <2>5. at \in Int /\ ReadOK(s, q, at)
    BY <2>1, <2>3, <2>4, <1>1 DEF CacheInv
  <2>6. ReadOK(s, q, at)'
    BY <2>1, <2>5, <1>1, ReadStays
  <2>7. ReadOK(s, cache[s].roles, cache[s].at - MaxDelay)'
    BY <2>1, <2>4, <2>6 DEF ReadOK
  <2> QED  BY <2>1, <2>2, <2>3, <2>7, <1>1 DEF CacheInv
<1> QED  BY <1>4, <1>5

LEMMA CacheNext == ASSUME IInv, [Next]_vars PROVE CacheInv'
<1> USE DEF vars, dbVars, history
<1>1. /\ TypeOK /\ KnownInv /\ CacheInv /\ CacheOK /\ LoginsInv /\ GuardsInv
      /\ now \in Int /\ now' \in Int /\ now <= now' /\ MaxDelay \in Int
  BY TypeParts, TimeWaits, TimeAssumption DEF IInv
<1>2. ASSUME Cached' \subseteq Cached, \A t \in Cached' : cache'[t] = cache[t]
      PROVE  CacheInv'
  <2>1. SUFFICES ASSUME NEW s \in Cached'
        PROVE  /\ ReadOK(s, cache[s].roles, cache[s].at - MaxDelay)'
               /\ cache'[s].at <= now' /\ cache'[s].at <= expires'[s]
    BY DEF CacheInv
  <2>2. s \in Cached /\ s \in Tokens /\ cache'[s] = cache[s] /\ login[s].pc = "done"
    BY <1>1, <1>2, <2>1 DEF CacheOK, KnownInv
  <2>3. cache[s].at \in Int
    BY <2>2, <1>1, TimeAssumption DEF CacheOK, Entry, Times
  <2>4. expires'[s] = expires[s]
    BY <2>2, <1>1, ExpiryStays
  <2>5. PICK q, at : q = cache[s].roles /\ at = cache[s].at - MaxDelay
    OBVIOUS
  <2>6. at \in Int /\ ReadOK(s, q, at)
    BY <2>2, <2>3, <2>5, <1>1 DEF CacheInv
  <2>7. ReadOK(s, q, at)'
    BY <2>2, <2>6, <1>1, ReadStays
  <2>8. ReadOK(s, cache[s].roles, cache[s].at - MaxDelay)'
    BY <2>2, <2>5, <2>7 DEF ReadOK
  <2> QED  BY <2>2, <2>3, <2>4, <2>8, <1>1 DEF CacheInv
<1>3. CASE UNCHANGED cacheVars
  BY <1>2, <1>3 DEF cacheVars, Cached
<1>4. ASSUME NEW keys \in SUBSET Cached, Keep(keys) PROVE CacheInv'
  BY <1>1, <1>2, <1>4, KeepKeepsOrder
<1>5. ASSUME NEW t \in Tokens, LoginPrime(t) PROVE CacheInv'
  <2>1. /\ login[t].roles \in Roles /\ login[t].readAt \in Int
        /\ ReadOK(t, login[t].roles, login[t].readAt)
        /\ now - login[t].readAt <= MaxDelay
        /\ login[t].readAt + SessionTTL <= expires[t]
        /\ expires'[t] = expires[t] /\ expires[t] \in Int
    BY <1>1, <1>5, LoginKinds, TimeAssumption DEF LoginPrime, LoginsInv, Times, TypeOK
  <2>2. Owner(t) \in Users /\ now - MaxDelay \in Int /\ now - MaxDelay <= login[t].readAt
    BY <2>1, <1>1, <1>5, LoginKinds DEF LoginPrime
  <2>3. ReadOK(t, login[t].roles, now - MaxDelay)
    BY <2>1, <2>2, <1>1, ReadEarlier
  <2>4. now <= expires'[t]
    BY <2>1, <1>1, TimeAssumption
  <2> QED  BY <2>1, <2>3, <2>4, <1>5, PrimedIsRead DEF LoginPrime
<1>6. ASSUME NEW r \in Requests, Admit(r) PROVE CacheInv'
  <2> DEFINE t == request[r].token
  <2>1. /\ t \in Tokens /\ request[r].roles \in Roles /\ request[r].readAt \in Int
        /\ ReadOK(t, request[r].roles, request[r].readAt)
        /\ now - request[r].readAt <= MaxDelay
        /\ login[t].pc = "done"
    BY <1>1, <1>6, GuardKinds, TimeAssumption DEF Admit, GuardsInv, KnownInv, Times
  <2>2. expires[t] > now /\ expires'[t] = expires[t] /\ expires[t] \in Int
    BY <2>1, <1>1, <1>6, TimeAssumption DEF Admit, TypeOK
  <2>3. Owner(t) \in Users /\ now - MaxDelay \in Int /\ now - MaxDelay <= request[r].readAt
    BY <2>1, <1>1, LoginKinds
  <2>4. ReadOK(t, request[r].roles, now - MaxDelay)
    BY <2>1, <2>3, <1>1, ReadEarlier
  <2>5. Prime(t, request[r].roles) /\ now' = now
    BY <1>6 DEF Admit
  <2>6. now <= expires'[t]
    BY <2>2, <1>1
  <2> HIDE DEF t
  <2> QED  BY <2>1, <2>4, <2>5, <2>6, PrimedIsRead
<1> QED  BY <1>3, <1>4, <1>5, <1>6, CacheSteps

LEMMA InvInit == Init => IInv
<1> SUFFICES ASSUME Init PROVE IInv
  OBVIOUS
<1>1. TypeOK /\ KnownInv
  BY TypeInit
<1>2. NewInv /\ LoginsInv /\ GuardsInv /\ CacheInv
  BY DEF Init, NewInv, LoginsInv, GuardsInv, CacheInv, NoLogin, Cached
<1> QED  BY <1>1, <1>2 DEF IInv

LEMMA InvNext == IInv /\ [Next]_vars => IInv'
  BY TypeNext, KnownNext, NewNext, LoginsNext, GuardsNext, CacheNext DEF IInv

LEMMA InvCorrect == Spec => []IInv
  BY InvInit, InvNext, PTL DEF Spec

-----------------------------------------------------------------------------
(* Who is admitted *)

\* The steps that admit a request.
LEMMA AdmittingSteps ==
    ASSUME [Next]_vars, request \in [Requests -> GuardCall],
           NEW r \in Requests, Admitting(r)
    PROVE  Admit(r) \/ \E s \in Tokens : Hit(r, s)
<1> USE DEF vars, Admitting
<1>1. CASE UNCHANGED request \/ Restart
  BY <1>1 DEF Restart
<1>2. ASSUME NEW q \in Requests, NEW s \in Tokens, Hit(q, s) \/ Miss(q, s)
      PROVE  Hit(r, s)
  BY <1>2 DEF Hit, Miss
<1>3. ASSUME NEW q \in Requests, GuardStep(q) PROVE Admit(r)
  BY <1>3 DEF GuardStep, Query, Admit, Reject
<1>4. \/ UNCHANGED request \/ Restart
      \/ \E q \in Requests : \/ \E s \in Tokens : Hit(q, s) \/ Miss(q, s)
                             \/ GuardStep(q)
  BY DEF Next, LoginRead, LoginCreate, LoginPrime, LoginError, StrayCreate,
         Purge, Logout, ChangePassword, Reset, Disable, ChangeRoles, Commit,
         Clear, OpError, Enable, Tick
<1> QED  BY <1>1, <1>2, <1>3, <1>4

\* An admission is a hit of a fresh entry, or follows a read that is recent.
LEMMA AdmittedOnTime ==
    ASSUME IInv, [Next]_vars, NEW r \in Requests, Admitting(r)
    PROVE  LET t == request'[r].token IN
           /\ t \in Tokens /\ Owner(t) \in Users
           /\ \E at \in Int : /\ now - at < CacheTTL + MaxDelay
                             /\ ReadOK(t, request'[r].roles, at)
           /\ now - expires[t] < CacheTTL
           /\ UNCHANGED <<login, now, rows, status, expires, ended, disabledAt,
                          roleOf, reroledAt>>
<1> USE DEF vars, dbVars, history, Admitting
<1> DEFINE t == request'[r].token
<1>1. /\ TypeOK /\ KnownInv /\ CacheInv /\ CacheOK /\ GuardsInv
      /\ request \in [Requests -> GuardCall]
      /\ now \in Int /\ MaxDelay \in Nat /\ CacheTTL \in Nat /\ CacheTTL > 0
  BY TypeParts, TimeWaits, TimeAssumption, CacheAssumption DEF IInv, TypeOK
<1>2. ASSUME NEW s \in Tokens, Hit(r, s)
      PROVE  /\ t \in Tokens /\ Owner(t) \in Users
             /\ \E at \in Int : /\ now - at < CacheTTL + MaxDelay
                               /\ ReadOK(t, request'[r].roles, at)
             /\ now - expires[t] < CacheTTL
  <2>1. t = s /\ request'[r].roles = cache[s].roles /\ s \in Cached
        /\ now - cache[s].at < CacheTTL /\ login[s].pc = "done"
    BY <1>1, <1>2 DEF Hit, Starts, Fresh
  <2>2. cache[s].at \in Int /\ expires[s] \in Int /\ cache[s].at <= expires[s]
    BY <2>1, <1>1, TimeAssumption DEF CacheOK, Entry, Times, CacheInv, TypeOK
  <2>3. ReadOK(t, request'[r].roles, cache[s].at - MaxDelay)
    BY <2>1, <1>1 DEF CacheInv
  <2>4. cache[s].at - MaxDelay \in Int
        /\ now - (cache[s].at - MaxDelay) < CacheTTL + MaxDelay
    BY <2>1, <2>2, <1>1
  <2>5. now - expires[t] < CacheTTL
    BY <2>1, <2>2, <1>1
  <2> QED  BY <2>1, <2>3, <2>4, <2>5, <1>1, LoginKinds
<1>3. ASSUME Admit(r)
      PROVE  /\ t \in Tokens /\ Owner(t) \in Users
             /\ \E at \in Int : /\ now - at < CacheTTL + MaxDelay
                               /\ ReadOK(t, request'[r].roles, at)
             /\ now - expires[t] < CacheTTL
  <2>1. t = request[r].token /\ request'[r].roles = request[r].roles
        /\ request[r].pc = "found" /\ expires[t] > now
    BY <1>1, <1>3 DEF Admit
  <2>2. t \in Tokens /\ request[r].readAt \in Int /\ login[t].pc = "done"
    BY <2>1, <1>1, GuardKinds, TimeAssumption DEF KnownInv, Times
  <2>3. ReadOK(t, request'[r].roles, request[r].readAt)
        /\ now - request[r].readAt < CacheTTL + MaxDelay
    BY <2>1, <2>2, <1>1 DEF GuardsInv
  <2>4. now - expires[t] < CacheTTL
    BY <2>1, <2>2, <1>1, TimeAssumption DEF TypeOK
  <2> QED  BY <2>2, <2>3, <2>4, <1>1, LoginKinds
<1>4. Admit(r) \/ \E s \in Tokens : Hit(r, s)
  BY <1>1, AdmittingSteps
<1>5. UNCHANGED <<login, now, rows, status, expires, ended, disabledAt, roleOf,
                  reroledAt>>
  BY <1>4 DEF Admit, Hit
<1> QED  BY <1>2, <1>3, <1>4, <1>5

\* A session whose row is gone, whose account is disabled or whose time is up
\* admits nobody once the lifetime of the cache and one read are over.
THEOREM EndsAreFelt == Spec => EndReaches
<1>1. IInv /\ [Next]_vars =>
        \A r \in Requests : Admitting(r) =>
          LET t == request'[r].token IN
          /\ t \notin rows => ~Overdue(ended[t])
          /\ status[Owner(t)] = "DISABLED" => ~Overdue(disabledAt[Owner(t)])
          /\ now - expires[t] < CacheTTL
  <2> SUFFICES ASSUME IInv, [Next]_vars, NEW r \in Requests, Admitting(r)
      PROVE  LET t == request'[r].token IN
             /\ t \notin rows => ~Overdue(ended[t])
             /\ status[Owner(t)] = "DISABLED" => ~Overdue(disabledAt[Owner(t)])
             /\ now - expires[t] < CacheTTL
    OBVIOUS
  <2> DEFINE t == request'[r].token
  <2>1. /\ t \in Tokens /\ Owner(t) \in Users
        /\ now - expires[t] < CacheTTL
    BY AdmittedOnTime
  <2>2. PICK at \in Int : /\ now - at < CacheTTL + MaxDelay
                          /\ ReadOK(t, request'[r].roles, at)
    BY AdmittedOnTime
  <2>3. /\ now \in Int /\ CacheTTL + MaxDelay \in Int
        /\ ended[t] \in Int /\ disabledAt[Owner(t)] \in Int
    BY <2>1, TimeAssumption, CacheAssumption DEF IInv, TypeOK, Times, Never
  <2> HIDE DEF t
  <2>4. t \notin rows => ~Overdue(ended[t])
    BY <2>2, <2>3 DEF ReadOK, Overdue
  <2>5. status[Owner(t)] = "DISABLED" => ~Overdue(disabledAt[Owner(t)])
    BY <2>2, <2>3 DEF ReadOK, Overdue
  <2> QED  BY <2>1, <2>4, <2>5 DEF t
<1> QED  BY <1>1, InvCorrect, PTL DEF Spec, EndReaches

\* Nobody is admitted with roles that the account lost longer ago than that.
THEOREM LostRolesAreFelt == Spec => RolesReach
<1>1. IInv /\ [Next]_vars =>
        \A r \in Requests : Admitting(r) =>
          LET t == request'[r].token IN
          request'[r].roles # roleOf[Owner(t)] => ~Overdue(reroledAt[Owner(t)])
  <2> SUFFICES ASSUME IInv, [Next]_vars, NEW r \in Requests, Admitting(r)
      PROVE  LET t == request'[r].token IN
             request'[r].roles # roleOf[Owner(t)] => ~Overdue(reroledAt[Owner(t)])
    OBVIOUS
  <2> DEFINE t == request'[r].token
  <2>1. t \in Tokens /\ Owner(t) \in Users
    BY AdmittedOnTime
  <2>2. PICK at \in Int : /\ now - at < CacheTTL + MaxDelay
                          /\ ReadOK(t, request'[r].roles, at)
    BY AdmittedOnTime
  <2>3. now \in Int /\ CacheTTL + MaxDelay \in Int /\ reroledAt[Owner(t)] \in Int
    BY <2>1, TimeAssumption, CacheAssumption DEF IInv, TypeOK, Times, Never
  <2> HIDE DEF t
  <2>4. request'[r].roles # roleOf[Owner(t)] => ~Overdue(reroledAt[Owner(t)])
    BY <2>2, <2>3 DEF ReadOK, Overdue
  <2> QED  BY <2>4 DEF t
<1> QED  BY <1>1, InvCorrect, PTL DEF Spec, RolesReach

-----------------------------------------------------------------------------
(* What a reset or a disabling cuts off *)

\* A session that is cut off has no row, no entry and no guard that found it.
CutInv ==
    /\ \A t \in cut : /\ t \in Tokens \ rows
                      /\ login[t].pc = "done"
                      /\ t \notin Cached
    /\ \A r \in Requests : request[r].pc = "found" => request[r].token \notin cut

LEMMA CutNext == ASSUME IInv, CutInv, [Next]_vars PROVE CutInv'
<1> USE DEF vars, dbVars, cacheVars, history
<1>1. /\ TypeOK /\ CacheOK /\ now \in Times
      /\ login \in [Tokens -> LoginCall \cup {NoLogin}]
      /\ request \in [Requests -> GuardCall]
  BY TypeParts DEF IInv, TypeOK, TablesOK
<1>2. ASSUME UNCHANGED cut PROVE CutInv'
  <2>1. ASSUME NEW t \in cut
        PROVE  t \in Tokens \ rows' /\ login'[t].pc = "done"
    <3>1. t \in Tokens \ rows /\ login[t].pc = "done"
      BY <2>1 DEF CutInv
    <3>2. ASSUME NEW s \in Tokens, LoginCreate(s) \/ StrayCreate(s)
          PROVE  t \notin rows'
      BY <3>1, <3>2 DEF LoginCreate, StrayCreate, Insert
    <3> QED  BY <3>1, <3>2, <1>1, RowsShrink, LoginsProgress
  <2>2. ASSUME NEW t \in cut PROVE t \notin Cached'
    <3>1. t \in Tokens /\ login[t].pc = "done" /\ t \notin Cached
      BY <2>2 DEF CutInv
    <3>2. ASSUME NEW s \in Tokens, NEW rs \in Roles, Prime(s, rs), s # t
          PROVE  t \notin Cached'
      BY <1>1, <3>1, <3>2, PrimeKeepsOrder
    <3>3. ASSUME NEW s \in Tokens, LoginPrime(s) PROVE t \notin Cached'
      BY <1>1, <3>1, <3>2, <3>3, LoginKinds DEF LoginPrime
    <3>4. ASSUME NEW r \in Requests, Admit(r) PROVE t \notin Cached'
      <4>1. request[r].token \in Tokens /\ request[r].token # t
        BY <1>1, <2>2, <3>4, GuardKinds DEF Admit, CutInv
      <4> QED  BY <1>1, <3>2, <3>4, <4>1, GuardKinds DEF Admit
    <3>5. ASSUME NEW keys \in SUBSET Cached, Keep(keys) PROVE t \notin Cached'
      BY <1>1, <3>1, <3>5, KeepKeepsOrder
    <3>6. CASE UNCHANGED cacheVars
      BY <3>1, <3>6 DEF Cached
    <3> QED  BY <3>3, <3>4, <3>5, <3>6, CacheSteps
  <2>3. ASSUME NEW r \in Requests, request'[r].pc = "found"
        PROVE  request'[r].token \notin cut
    <3>1. CASE UNCHANGED request
      BY <2>3, <3>1 DEF CutInv
    <3>2. ASSUME NEW q \in Requests, NEW t \in Tokens, Hit(q, t) \/ Miss(q, t)
          PROVE  request'[r] = request[r]
      BY <1>1, <2>3, <3>2 DEF Hit, Miss
    <3>3. ASSUME NEW q \in Requests, Admit(q) \/ Reject(q)
          PROVE  request'[r] = request[r]
      BY <1>1, <2>3, <3>3 DEF Admit, Reject
    <3>4. ASSUME NEW q \in Requests, Query(q)
          PROVE  request'[r] = request[r] \/ request'[r].token \in rows
      BY <1>1, <2>3, <3>4 DEF Query
    <3>5. CASE Restart
      BY <2>3, <3>5 DEF Restart
    <3>6. \/ UNCHANGED request \/ Restart
          \/ \E q \in Requests : \/ \E t \in Tokens : Hit(q, t) \/ Miss(q, t)
                                 \/ Query(q) \/ Admit(q) \/ Reject(q)
      BY DEF Next, LoginRead, LoginCreate, LoginPrime, LoginError, StrayCreate,
             Purge, GuardStep, Logout, ChangePassword, Reset, Disable,
             ChangeRoles, Commit, Clear, OpError, Enable, Tick
    <3> QED  BY <2>3, <3>1, <3>2, <3>3, <3>4, <3>5, <3>6 DEF CutInv
  <2> QED  BY <1>2, <2>1, <2>2, <2>3 DEF CutInv
<1>3. ASSUME NEW a \in Admins, Clear(a) PROVE CutInv'
  <2>1. Cached' = {}
    BY <1>1, <1>3, KeepKeepsOrder DEF Clear, DropAll
  <2>2. UNCHANGED <<rows, login, request>>
    BY <1>3 DEF Clear
  <2>3. cut' = cut \cup {t \in Tokens \ rows : /\ login[t].pc = "done"
                                              /\ Owner(t) = op[a].user
                                              /\ ~BeingRead(t)}
    BY <1>3 DEF Clear
  <2> QED  BY <2>1, <2>2, <2>3 DEF CutInv, BeingRead
<1>4. UNCHANGED cut \/ \E a \in Admins : Clear(a)
  BY DEF Next, LoginRead, LoginCreate, LoginPrime, LoginError, StrayCreate, Purge,
         Hit, Miss, GuardStep, Query, Admit, Reject, Logout, ChangePassword,
         Reset, Disable, ChangeRoles, Commit, OpError, Enable, Tick, Restart
<1> QED  BY <1>2, <1>3, <1>4

\* Once a reset or a disabling has returned, only a guard that had read a session
\* it ended, and not yet cached it, can bring that session back.
THEOREM OnlyRacesOutlive == Spec => CutIsOut
<1>1. Init => CutInv
  BY DEF Init, CutInv
<1>2. Spec => []CutInv
  BY <1>1, CutNext, InvCorrect, PTL DEF Spec
<1>3. IInv /\ CutInv /\ [Next]_vars =>
        \A r \in Requests : Admitting(r) => request'[r].token \notin cut
  <2> SUFFICES ASSUME IInv, CutInv, [Next]_vars,
                      NEW r \in Requests, Admitting(r)
      PROVE  request'[r].token \notin cut
    OBVIOUS
  <2>1. request \in [Requests -> GuardCall]
    BY DEF IInv, TypeOK
  <2>2. CASE Admit(r)
    BY <2>1, <2>2 DEF Admit, CutInv
  <2>3. ASSUME NEW s \in Tokens, Hit(r, s) PROVE request'[r].token \notin cut
    BY <2>1, <2>3 DEF Hit, Fresh, CutInv
  <2> QED  BY <2>1, <2>2, <2>3, AdmittingSteps
<1> QED  BY <1>2, <1>3, InvCorrect, PTL DEF Spec, CutIsOut
=============================================================================
