--------------------------- MODULE AdminSessions ---------------------------
(***************************************************************************)
(* Sessions of the admin area: logins, the guard of every admin request    *)
(* with its cache of sessions in the memory of the process, and the calls  *)
(* that end sessions or change roles (logout, changePassword, and update,  *)
(* status and roles of UsersService).                                      *)
(*                                                                         *)
(* Between any two awaits other calls run, so a guard may cache what it    *)
(* read before a session ended after the cache was cleared of it.  The     *)
(* variables ended, disabledAt, reroledAt, cut and replaced are history:   *)
(* they only serve to state the properties.                                *)
(***************************************************************************)
EXTENDS Integers, FiniteSets, Functions

CONSTANTS
    Users,      \* admin accounts
    Tokens,     \* session tokens; each login makes a new one
    Requests,   \* requests that pass the guard at the same time
    Admins,     \* calls at the same time that end sessions or change roles
    Roles,      \* sets of roles an account can have
    NoOp,       \* no such call is running
    NoToken,    \* no session of the account is spared
    MaxEntries, \* CACHE_MAX_ENTRIES
    CacheTTL,   \* CACHE_TTL_MS
    SessionTTL, \* AUTH_SESSION_TTL_HOURS
    MaxDelay,   \* bound: a login or a guard takes no longer from its read on
    MaxNow      \* bound: the clock stops here

ASSUME CacheAssumption == MaxEntries \in Nat \ {0} /\ CacheTTL \in Nat \ {0}
ASSUME TimeAssumption == /\ SessionTTL \in Nat /\ MaxDelay \in Nat
                         /\ MaxNow \in Nat /\ MaxDelay <= SessionTTL
ASSUME TokenAssumption == IsFiniteSet(Tokens)

VARIABLES
    now,        \* the clock
    status,     \* status[u]: "ACTIVE" or "DISABLED"
    roleOf,     \* roleOf[u]: the roles of u
    login,      \* login[t]: the login that makes token t
    rows,       \* the tokens with a row in AdminSession
    expires,    \* expires[t]: the expiresAt of t's row
    cache,      \* sessionCache: the roles and the age of what is kept
    older,      \* its insertion order: the pairs of keys of which the first is older
    request,    \* request[r]: the guard call of request r
    op,         \* op[a]: the call of a that ends sessions or changes roles
    ended,      \* ended[t]: when the row of t was deleted
    disabledAt, \* disabledAt[u]: since when u is disabled
    reroledAt,  \* reroledAt[u]: when the roles of u last changed
    cut,        \* the sessions that were over, with no read of them under way,
                \* when a reset or disabling of their user returned
    replaced    \* the tokens of logins that were in with a password since
                \* replaced, but for the session that was meant to stay

dbVars == <<status, roleOf, rows, expires>>
cacheVars == <<cache, older>>
history == <<ended, disabledAt, reroledAt, cut, replaced>>
vars == <<now, dbVars, login, cacheVars, request, op, history>>

Never == -1
Times == 0..MaxNow
NoLogin == [pc |-> "unused"]
LoginCall == [pc : {"checked", "created"},
              user : Users, roles : Roles, readAt : Times]
               \cup [pc : {"done", "stray", "lost"}, user : Users]
GuardCall == [pc : {"idle"}]
               \cup [pc : {"query", "missing"}, token : Tokens]
               \cup [pc : {"found"}, token : Tokens, roles : Roles, readAt : Times]
               \cup [pc : {"admitted"}, token : Tokens, roles : Roles]
OpCall == [kind : {"logout", "changePassword"}, pc : {"commit"},
           user : Users, token : Tokens]
            \cup [kind : {"reset"}, pc : {"commit", "clear"},
                  user : Users, token : Tokens \cup {NoToken}]
            \cup [kind : {"disable"}, pc : {"commit", "clear"}, user : Users]
            \cup [kind : {"roles"}, pc : {"commit"}, user : Users, roles : Roles]
ASSUME NoOpAssumption == NoOp \notin OpCall /\ NoToken \notin Tokens

Owner(t) == login[t].user
Cached == DOMAIN cache
Entry == [roles : Roles, at : Times]

\* S is ordered by insertion.
Ordered(S) ==
    /\ older \subseteq S \X S
    /\ \A s \in S : <<s, s>> \notin older
    /\ \A s, t \in S : s # t => <<s, t>> \in older \/ <<t, s>> \in older
    /\ \A s, t, u \in S :
          <<s, t>> \in older /\ <<t, u>> \in older => <<s, u>> \in older

TypeOK ==
    /\ now \in Times
    /\ status \in [Users -> {"ACTIVE", "DISABLED"}]
    /\ roleOf \in [Users -> Roles]
    /\ login \in [Tokens -> LoginCall \cup {NoLogin}]
    /\ rows \subseteq Tokens
    /\ expires \in [Tokens -> 0..(MaxNow + SessionTTL)]
    /\ Cached \subseteq Tokens
    /\ Cardinality(Cached) <= MaxEntries
    /\ cache \in [Cached -> Entry]
    /\ Ordered(Cached)
    /\ request \in [Requests -> GuardCall]
    /\ op \in [Admins -> OpCall \cup {NoOp}]
    /\ ended \in [Tokens -> Times \cup {Never}]
    /\ disabledAt \in [Users -> Times \cup {Never}]
    /\ reroledAt \in [Users -> Times \cup {Never}]
    /\ cut \subseteq Tokens
    /\ replaced \subseteq Tokens

Init ==
    /\ now = 0
    /\ status = [u \in Users |-> "ACTIVE"]
    /\ roleOf \in [Users -> Roles]
    /\ login = [t \in Tokens |-> NoLogin]
    /\ rows = {}
    /\ expires = [t \in Tokens |-> 0]
    /\ cache = << >>
    /\ older = {}
    /\ request = [r \in Requests |-> [pc |-> "idle"]]
    /\ op = [a \in Admins |-> NoOp]
    /\ ended = [t \in Tokens |-> Never]
    /\ disabledAt = [u \in Users |-> Never]
    /\ reroledAt = [u \in Users |-> Never]
    /\ cut = {}
    /\ replaced = {}

-----------------------------------------------------------------------------
(* The session cache *)

FreshInclusive(t) ==        \* mutant of Fresh
    t \in Cached /\ now - cache[t].at <= CacheTTL

FreshForever(t) == t \in Cached          \* mutant of Fresh

Fresh(t) == t \in Cached /\ now - cache[t].at < CacheTTL

RoomOfFresh ==              \* mutant of Room
    IF Cardinality(Cached) < MaxEntries THEN Cached ELSE {t \in Cached : Fresh(t)}

\* What is left to make room: when the cache is full, what is fresh, and if that
\* still fills it, all but the oldest insertion.
Room ==
    IF Cardinality(Cached) < MaxEntries THEN Cached
    ELSE LET kept == {t \in Cached : Fresh(t)}
         IN  IF Cardinality(kept) < MaxEntries THEN kept
             ELSE {t \in kept : \E s \in kept : <<s, t>> \in older}

Keep(keys) ==
    /\ cache' = Restrict(cache, keys)
    /\ older' = older \cap (keys \X keys)

\* primeSessionCache: a key that is there keeps its place.
Prime(t, rs) ==
    /\ cache' = [s \in Room \cup {t} |->
                  IF s = t THEN [roles |-> rs, at |-> now] ELSE cache[s]]
    /\ older' = (older \cap (Room \X Room))
                  \cup (IF t \in Room THEN {} ELSE Room \X {t})

\* invalidateSessionCache, of one token or of all.
Drop(t) == Keep(Cached \ {t})
DropOld == Keep({t \in Cached : Fresh(t)})     \* mutant of DropAll
DropAll == Keep({})

-----------------------------------------------------------------------------
(* AuthService.login *)

\* The account is read and found active; the password is compared after.
LoginRead(t, u) ==
    /\ login[t] = NoLogin
    /\ status[u] = "ACTIVE"
    /\ login' = [login EXCEPT ![t] = [pc |-> "checked", user |-> u,
                                      roles |-> roleOf[u], readAt |-> now]]
    /\ UNCHANGED <<now, dbVars, cacheVars, request, op, history>>

Insert(t) ==
    /\ rows' = rows \cup {t}
    /\ expires' = [expires EXCEPT ![t] = now + SessionTTL]

LoginCreate(t) ==
    /\ login[t].pc = "checked"
    /\ Insert(t)
    /\ login' = [login EXCEPT ![t].pc = "created"]
    /\ UNCHANGED <<now, status, roleOf, cacheVars, request, op, history>>

\* The cache gets the roles as they were read; the token goes out.
LoginPrime(t) ==
    /\ login[t].pc = "created"
    /\ Prime(t, login[t].roles)
    /\ login' = [login EXCEPT ![t] = [pc |-> "done", user |-> Owner(t)]]
    /\ UNCHANGED <<now, dbVars, request, op, history>>

\* A login that ends without an answer.
Failed(t) == [pc |-> IF login[t].pc = "checked" THEN "stray" ELSE "lost",
              user |-> Owner(t)]

\* The insertion, or the update of lastLoginAt beside it, fails: the insertion may
\* be under way still.
LoginError(t) ==
    /\ login[t].pc \in {"checked", "created"}
    /\ login' = [login EXCEPT ![t] = Failed(t)]
    /\ UNCHANGED <<now, dbVars, cacheVars, request, op, history>>

\* The session that nobody has the token of is inserted all the same.
StrayCreate(t) ==
    /\ login[t].pc = "stray"
    /\ Insert(t)
    /\ login' = [login EXCEPT ![t].pc = "lost"]
    /\ UNCHANGED <<now, status, roleOf, cacheVars, request, op, history>>

\* Rows of S are deleted.
Delete(S) ==
    /\ rows' = rows \ S
    /\ ended' = [t \in Tokens |-> IF t \in rows \cap S THEN now ELSE ended[t]]

\* Every login also deletes the rows that have expired, at some later time.
Purge ==
    /\ \E t \in Tokens : login[t].pc \in {"created", "done"}
    /\ Delete({t \in rows : expires[t] < now})
    /\ UNCHANGED <<now, status, roleOf, expires, login, cacheVars, request, op,
                   disabledAt, reroledAt, cut, replaced>>

-----------------------------------------------------------------------------
(* SessionAuthGuard.canActivate, for a token that a login gave out *)

Starts(r, t) ==
    /\ request[r].pc \in {"idle", "admitted"}
    /\ login[t].pc = "done"

Hit(r, t) ==
    /\ Starts(r, t)
    /\ Fresh(t)
    /\ request' = [request EXCEPT ![r] =
          [pc |-> "admitted", token |-> t, roles |-> cache[t].roles]]
    /\ UNCHANGED <<now, dbVars, login, cacheVars, op, history>>

Miss(r, t) ==
    /\ Starts(r, t)
    /\ ~Fresh(t)
    /\ request' = [request EXCEPT ![r] = [pc |-> "query", token |-> t]]
    /\ UNCHANGED <<now, dbVars, login, cacheVars, op, history>>

QueryAccount(r) ==          \* mutant of Query
    /\ request[r].pc = "query"
    /\ LET t == request[r].token IN
       request' = [request EXCEPT ![r] =
          IF status[Owner(t)] = "ACTIVE"
          THEN [pc |-> "found", token |-> t, roles |-> roleOf[Owner(t)],
                readAt |-> now]
          ELSE [pc |-> "missing", token |-> t]]
    /\ UNCHANGED <<now, dbVars, login, cacheVars, op, history>>

\* The database answers: the row with its user and roles as of now.
Query(r) ==
    /\ request[r].pc = "query"
    /\ LET t == request[r].token IN
       request' = [request EXCEPT ![r] =
          IF t \in rows /\ status[Owner(t)] = "ACTIVE"
          THEN [pc |-> "found", token |-> t, roles |-> roleOf[Owner(t)],
                readAt |-> now]
          ELSE [pc |-> "missing", token |-> t]]
    /\ UNCHANGED <<now, dbVars, login, cacheVars, op, history>>

Admit(r) ==
    /\ request[r].pc = "found"
    /\ expires[request[r].token] > now
    /\ Prime(request[r].token, request[r].roles)
    /\ request' = [request EXCEPT ![r] =
          [pc |-> "admitted", token |-> request[r].token,
           roles |-> request[r].roles]]
    /\ UNCHANGED <<now, dbVars, login, op, history>>

Reject(r) ==
    /\ \/ request[r].pc = "missing"
       \/ request[r].pc = "found" /\ expires[request[r].token] <= now
    /\ Drop(request[r].token)
    /\ request' = [request EXCEPT ![r] = [pc |-> "idle"]]
    /\ UNCHANGED <<now, dbVars, login, op, history>>

-----------------------------------------------------------------------------
(* Calls that end sessions or change roles *)

Begin(a, call) == op[a] = NoOp /\ op' = [op EXCEPT ![a] = call]

\* AuthController: logout and changePassword clear the cache first.
Logout(a, t) ==
    /\ login[t].pc = "done"
    /\ Begin(a, [kind |-> "logout", pc |-> "commit",
                 user |-> Owner(t), token |-> t])
    /\ Drop(t)
    /\ UNCHANGED <<now, dbVars, login, request, history>>

ChangePassword(a, t) ==
    /\ login[t].pc = "done"
    /\ Begin(a, [kind |-> "changePassword", pc |-> "commit",
                 user |-> Owner(t), token |-> t])
    /\ DropAll
    /\ UNCHANGED <<now, dbVars, login, request, history>>

\* UsersService.update with a password.
Reset(a, u, t) ==
    /\ t # NoToken => login[t].pc = "done" /\ Owner(t) = u
    /\ Begin(a, [kind |-> "reset", pc |-> "commit", user |-> u, token |-> t])
    /\ UNCHANGED <<now, dbVars, login, cacheVars, request, history>>

\* UsersService.status with DISABLED.
Disable(a, u) ==
    /\ Begin(a, [kind |-> "disable", pc |-> "commit", user |-> u])
    /\ UNCHANGED <<now, dbVars, login, cacheVars, request, history>>

\* UsersService.roles
ChangeRoles(a, u, rs) ==
    /\ Begin(a, [kind |-> "roles", pc |-> "commit", user |-> u, roles |-> rs])
    /\ UNCHANGED <<now, dbVars, login, cacheVars, request, history>>

SessionsOf(u) == {t \in rows : Owner(t) = u}

\* The logins of u that have inserted their session, not those that have only
\* read the account.
LoggedIn(u) ==
    {t \in Tokens : login[t].pc \in {"created", "done", "lost"} /\ Owner(t) = u}

DeletedByOwner(o) ==        \* mutant of Deleted
    CASE o.kind = "logout"                      -> {o.token}
      [] o.kind \in {"changePassword", "reset"} ->
            IF o.token = NoToken THEN {} ELSE SessionsOf(o.user) \ {o.token}
      [] o.kind = "disable"                     -> SessionsOf(o.user)
      [] o.kind = "roles"                       -> {}

\* The sessions the statement of a call deletes.  Who changes or resets their
\* own password keeps the session they use.
Deleted(o) ==
    CASE o.kind = "logout"                      -> {o.token}
      [] o.kind \in {"changePassword", "reset"} -> SessionsOf(o.user) \ {o.token}
      [] o.kind = "disable"                     -> SessionsOf(o.user)
      [] o.kind = "roles"                       -> {}

\* The statement or transaction of a call takes effect.
Apply(o) ==
    /\ Delete(Deleted(o))
    /\ status' = IF o.kind = "disable"
                 THEN [status EXCEPT ![o.user] = "DISABLED"] ELSE status
    /\ disabledAt' = IF o.kind = "disable" /\ status[o.user] = "ACTIVE"
                     THEN [disabledAt EXCEPT ![o.user] = now] ELSE disabledAt
    /\ roleOf' = IF o.kind = "roles"
                 THEN [roleOf EXCEPT ![o.user] = o.roles] ELSE roleOf
    /\ reroledAt' = IF o.kind = "roles" /\ o.roles # roleOf[o.user]
                    THEN [reroledAt EXCEPT ![o.user] = now] ELSE reroledAt
    /\ replaced' = IF o.kind \in {"changePassword", "reset"}
                   THEN replaced \cup (LoggedIn(o.user) \ {o.token}) ELSE replaced
    /\ UNCHANGED expires

Commit(a) ==
    /\ op[a] # NoOp
    /\ op[a].pc = "commit"
    /\ Apply(op[a])
    /\ op' = [op EXCEPT ![a] = IF op[a].kind \in {"reset", "disable"}
                               THEN [op[a] EXCEPT !.pc = "clear"] ELSE NoOp]
    /\ UNCHANGED <<now, login, cacheVars, request, cut>>

\* A guard has read session t and may yet cache it.
BeingRead(t) == \E r \in Requests : request[r].pc = "found" /\ request[r].token = t

\* update and status clear the whole cache when the database has answered.
Clear(a) ==
    /\ op[a] # NoOp
    /\ op[a].pc = "clear"
    /\ DropAll
    /\ op' = [op EXCEPT ![a] = NoOp]
    /\ cut' = cut \cup
          {t \in Tokens \ rows : /\ login[t].pc = "done"
                                 /\ Owner(t) = op[a].user
                                 /\ ~BeingRead(t)}
    /\ UNCHANGED <<now, dbVars, login, request, ended, disabledAt, reroledAt,
                   replaced>>

\* The database fails, before the call took effect or after it.
OpError(a) ==
    /\ op[a] # NoOp
    /\ op[a].pc = "commit"
    /\ Apply(op[a]) \/ UNCHANGED <<dbVars, ended, disabledAt, reroledAt, replaced>>
    /\ op' = [op EXCEPT ![a] = NoOp]
    /\ UNCHANGED <<now, login, cacheVars, request, cut>>

\* status ACTIVE: neither sessions nor the cache are touched.
Enable(u) ==
    /\ status[u] = "DISABLED"
    /\ status' = [status EXCEPT ![u] = "ACTIVE"]
    /\ disabledAt' = [disabledAt EXCEPT ![u] = Never]
    /\ UNCHANGED <<now, roleOf, rows, expires, login, cacheVars, request, op,
                   ended, reroledAt, cut, replaced>>

-----------------------------------------------------------------------------

\* Time passes; no read waits longer than MaxDelay for what follows it.
Tick ==
    /\ now < MaxNow
    /\ \A r \in Requests :
          request[r].pc = "found" => now - request[r].readAt < MaxDelay
    /\ \A t \in Tokens :
          login[t].pc \in {"checked", "created"} => now - login[t].readAt < MaxDelay
    /\ now' = now + 1
    /\ UNCHANGED <<dbVars, login, cacheVars, request, op, history>>

\* The process restarts with an empty cache; its calls are gone.
Restart ==
    /\ DropAll
    /\ login' = [t \in Tokens |->
          IF login[t].pc \in {"checked", "created"}
          THEN Failed(t) ELSE login[t]]
    /\ request' = [r \in Requests |-> [pc |-> "idle"]]
    /\ op' = [a \in Admins |-> NoOp]
    /\ UNCHANGED <<now, dbVars, history>>

GuardStep(r) == Query(r) \/ Admit(r) \/ Reject(r)

Next ==
    \/ \E t \in Tokens :
          \/ \E u \in Users : LoginRead(t, u)
          \/ LoginCreate(t) \/ LoginPrime(t)
          \/ LoginError(t) \/ StrayCreate(t)
    \/ Purge
    \/ \E r \in Requests :
          \/ \E t \in Tokens : Hit(r, t) \/ Miss(r, t)
          \/ GuardStep(r)
    \/ \E a \in Admins :
          \/ \E t \in Tokens : Logout(a, t) \/ ChangePassword(a, t)
          \/ \E u \in Users :
                \/ \E t \in Tokens \cup {NoToken} : Reset(a, u, t)
                \/ Disable(a, u)
                \/ \E rs \in Roles : ChangeRoles(a, u, rs)
          \/ Commit(a) \/ Clear(a) \/ OpError(a)
    \/ \E u \in Users : Enable(u)
    \/ Tick
    \/ Restart

Spec == Init /\ [][Next]_vars

-----------------------------------------------------------------------------
(* Properties *)

Admitting(r) == request'[r].pc = "admitted" /\ request'[r] # request[r]
FromCache(r) == Admitting(r) /\ request[r].pc # "found"

\* So long may the cache and a read in flight outlive what they say.
Overdue(at) == at # Never /\ now - at >= CacheTTL + MaxDelay

\* Wherever logins, guards, cache and calls interleave: a session whose row is
\* gone, whose user is disabled or whose time is up admits nobody any more
\* once the time to live of the cache and one read are over.
EndReaches ==
    [][\A r \in Requests : Admitting(r) =>
         LET t == request'[r].token IN
         /\ t \notin rows => ~Overdue(ended[t])
         /\ status[Owner(t)] = "DISABLED" => ~Overdue(disabledAt[Owner(t)])
         /\ now - expires[t] < CacheTTL]_vars

\* The same for roles: nobody is admitted with roles lost longer ago.
RolesReach ==
    [][\A r \in Requests : Admitting(r) =>
         LET t == request'[r].token IN
         request'[r].roles # roleOf[Owner(t)] => ~Overdue(reroledAt[Owner(t)])]_vars

\* Only a race keeps an ended session alive: when a reset or disabling has
\* returned, a session of its user that is over and that nobody was reading is
\* never admitted again, whatever guards, logins and other calls do.  (One that a
\* guard had read and not yet cached is: EndReaches limits how long.)
CutIsOut ==
    [][\A r \in Requests : Admitting(r) => request'[r].token \notin cut]_vars

\* Whoever had the old password is locked out, as the comment in update says: a
\* session that was opened with it does not survive the change or come back,
\* whatever logins, purges and failures run beside it.  Left out is a login that
\* has read the account and not yet inserted its session when the password
\* changes: it ends up in, with the old password.
OldPasswordIsOut == replaced \cap rows = {}

\* The comment on sessionCache says that a role change, too, invalidates it on
\* the instance that handles it.
RoleChangeReaches ==
    [][\A r \in Requests : FromCache(r) =>
         LET t == request'[r].token IN
         request'[r].roles # roleOf[Owner(t)] =>
             cache[t].at >= reroledAt[Owner(t)]]_vars
=============================================================================
