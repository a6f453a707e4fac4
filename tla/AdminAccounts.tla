--------------------------- MODULE AdminAccounts ---------------------------
(***************************************************************************)
(* The accounts of the admin area and the calls of UsersService that       *)
(* create one, edit it (its name, address and password, and then perhaps   *)
(* its roles), change its roles, or disable and enable it.  Each call      *)
(* reads, checks and writes in separate awaits, so that the calls of       *)
(* several administrators interleave; none of them locks what it read.     *)
(*                                                                         *)
(* The roles of the caller are those the guard found in the session, which *)
(* come from its cache: they may be older than the call, and roles() does  *)
(* not drop them.  Here they may be of any age; AdminSessions!RolesReach   *)
(* says how old they can be.                                               *)
(***************************************************************************)
EXTENDS FiniteSets, Integers

CONSTANTS
    Users,          \* accounts that exist or may be created
    Calls,          \* calls of UsersService that run at the same time
    RoleSets,       \* sets of roles an account can be given
    Super,          \* the role SUPER_ADMIN
    Idle,           \* no call is running
    OneRemoval      \* TRUE: nobody disables or demotes while another does

ASSUME RoleAssumption ==
    /\ \A rs \in RoleSets : rs # {}
    /\ {Super} \in RoleSets
ASSUME UsersFinite == IsFiniteSet(Users)
ASSUME RemovalAssumption == OneRemoval \in BOOLEAN

VARIABLES
    active,     \* the accounts with status ACTIVE
    roles,      \* roles[u]: the roles of account u, none if it does not exist
    session,    \* session[c]: as whom the guard lets in who makes call c
    call,       \* call[c]: what call c asks for and how far it is
    raised      \* history: the calls whose target has become a super admin
                \* since they checked it

vars == <<active, roles, session, call, raised>>

AllRoles == UNION RoleSets
Kinds == {"create", "update", "roles", "disable", "enable"}
Pcs == {"check", "save", "protect", "count", "write", "insert"}
UserCall == [kind : Kinds, pc : Pcs, target : Users,
             roles : RoleSets \cup {{}}, seen : SUBSET AllRoles]

Exists(u) == roles[u] # {}

\* An account that may sign in is never without a role.
TypeOK ==
    /\ active \subseteq Users
    /\ roles \in [Users -> SUBSET AllRoles]
    /\ session \in [Calls -> {"nobody", "admin", "super"}]
    /\ call \in [Calls -> UserCall \cup {Idle}]
    /\ raised \subseteq Calls
    /\ \A u \in active : Exists(u)

ASSUME IdleAssumption == Idle \notin UserCall

Supers == {u \in Users : Super \in roles[u]}
ActiveSupers == active \cap Supers

\* The database as seeded: at least one super admin can sign in.
Init ==
    /\ roles \in [Users -> RoleSets \cup {{}}]
    /\ active \in SUBSET {u \in Users : Exists(u)}
    /\ ActiveSupers # {}
    /\ session = [c \in Calls |-> "nobody"]
    /\ call = [c \in Calls |-> Idle]
    /\ raised = {}

-----------------------------------------------------------------------------

Running(c) == call[c] # Idle
At(c, pc) == Running(c) /\ call[c].pc = pc
GoTo(c, pc) == call' = [call EXCEPT ![c] = [call[c] EXCEPT !.pc = pc]]
End(c) == call' = [call EXCEPT ![c] = Idle]

\* The calls that may take a super admin away.
Removes(kind, rs) ==
    \/ kind = "disable"
    \/ kind = "roles" /\ Super \notin rs
    \/ kind = "update" /\ rs # {} /\ Super \notin rs
Removing(c) == Running(c) /\ Removes(call[c].kind, call[c].roles)

\* The guard reads the session of account u, which may manage users, and keeps
\* it for whatever call comes next ...
Admit(c, u) ==
    /\ ~Running(c)
    /\ u \in active
    /\ roles[u] \cap {Super, "ADMIN"} # {}
    /\ session' = [session EXCEPT ![c] =
                     IF Super \in roles[u] THEN "super" ELSE "admin"]
    /\ UNCHANGED <<active, roles, call, raised>>

\* ... until it is too old.
Expire(c) ==
    /\ ~Running(c)
    /\ session' = [session EXCEPT ![c] = "nobody"]
    /\ UNCHANGED <<active, roles, call, raised>>

\* A call starts with the roles the guard has kept.
Begin(c, kind, target, rs) ==
    /\ ~Running(c)
    /\ session[c] # "nobody"
    /\ OneRemoval /\ Removes(kind, rs) => \A d \in Calls : ~Removing(d)
    /\ call' = [call EXCEPT ![c] =
          [kind |-> kind, pc |-> "check", target |-> target, roles |-> rs,
           seen |-> {}]]
    /\ UNCHANGED <<active, roles, session, raised>>

BySuper(c) == session[c] = "super"

\* The roles of the account a call is about, as the call reads them.
RolesRead(c) ==
    IF call[c].kind = "create" THEN {} ELSE roles[call[c].target]

CanManageTarget(c) ==        \* mutant of CanManage
    BySuper(c) \/ Super \notin RolesRead(c)

\* assertCanManage: neither the roles there are nor the roles to be.
CanManage(c) ==
    BySuper(c) \/ Super \notin RolesRead(c) \cup call[c].roles

\* detail, or nothing for a new account, and assertCanManage.
Check(c) ==
    /\ At(c, "check")
    /\ call[c].kind # "create" => Exists(call[c].target)
    /\ CanManage(c)
    /\ GoTo(c, CASE call[c].kind = "create" -> "write"
                 [] call[c].kind = "update" -> "save"
                 [] OTHER                   -> "protect")
    /\ raised' = raised \ {c}
    /\ UNCHANGED <<active, roles, session>>

\* update writes name, address and password, and only then begins with the
\* roles, if it was given any, as a call of roles would.
Save(c) ==
    /\ At(c, "save")
    /\ call[c].kind = "update"
    /\ IF call[c].roles = {} THEN End(c)
       ELSE call' = [call EXCEPT ![c] = [call[c] EXCEPT !.kind = "roles",
                                                        !.pc = "check"]]
    /\ UNCHANGED <<active, roles, session, raised>>

\* protectLastSuper: is this a super admin who would cease to be one?
Protect(c) ==
    /\ At(c, "protect")
    /\ GoTo(c, IF call[c].target \in Supers /\ Removing(c) THEN "count"
               ELSE "write")
    /\ UNCHANGED <<active, roles, session, raised>>

CountAll(c) ==              \* mutant of Count
    /\ At(c, "count")
    /\ Cardinality(Supers) > 1
    /\ GoTo(c, "write")
    /\ UNCHANGED <<active, roles, session, raised>>

\* ... then there must be another one, and active.
Count(c) ==
    /\ At(c, "count")
    /\ Cardinality(ActiveSupers) > 1
    /\ GoTo(c, "write")
    /\ UNCHANGED <<active, roles, session, raised>>

\* The call ends in 403, 404 or 409.
Refuse(c) ==
    /\ \/ At(c, "check") /\ call[c].kind # "create" /\ ~Exists(call[c].target)
       \/ At(c, "check") /\ ~CanManage(c)
       \/ At(c, "count") /\ Cardinality(ActiveSupers) <= 1
       \/ At(c, "write") /\ call[c].kind = "create" /\ Exists(call[c].target)
    /\ End(c)
    /\ UNCHANGED <<active, roles, session, raised>>

\* The account u gets the roles rs.
SetRoles(u, rs) ==
    /\ roles' = [roles EXCEPT ![u] = rs]
    /\ raised' = IF Super \in rs \ roles[u]
                 THEN raised \cup {d \in Calls : Running(d) /\ call[d].target = u}
                 ELSE raised

Create(c) ==
    /\ At(c, "write")
    /\ call[c].kind = "create"
    /\ ~Exists(call[c].target)
    /\ active' = active \cup {call[c].target}
    /\ SetRoles(call[c].target, call[c].roles)
    /\ End(c)
    /\ UNCHANGED session

SetStatus(c) ==
    /\ At(c, "write")
    /\ call[c].kind \in {"disable", "enable"}
    /\ active' = IF call[c].kind = "disable" THEN active \ {call[c].target}
                 ELSE active \cup {call[c].target}
    /\ End(c)
    /\ UNCHANGED <<roles, session, raised>>

DeleteAtOnce(c) ==          \* mutant of DeleteRoles
    /\ At(c, "write")
    /\ call[c].kind = "roles"
    /\ GoTo(c, "insert")
    /\ roles' = [roles EXCEPT ![call[c].target] = {}]
    /\ UNCHANGED <<active, session, raised>>

\* The transaction of roles: it deletes the roles that it sees ...
DeleteRoles(c) ==
    /\ At(c, "write")
    /\ call[c].kind = "roles"
    /\ call' = [call EXCEPT ![c] = [call[c] EXCEPT !.pc = "insert",
                                          !.seen = roles[call[c].target]]]
    /\ UNCHANGED <<active, roles, session, raised>>

Left(c) == roles[call[c].target] \ call[c].seen

\* ... and inserts the new ones, beside any a concurrent call has inserted.
InsertRoles(c) ==
    /\ At(c, "insert")
    /\ Left(c) \cap call[c].roles = {}
    /\ SetRoles(call[c].target, Left(c) \cup call[c].roles)
    /\ End(c)
    /\ UNCHANGED <<active, session>>

\* The database fails, two insertions collide, or the process restarts.
Fail(c) ==
    /\ Running(c)
    /\ End(c)
    /\ UNCHANGED <<active, roles, session, raised>>

Writes(c) == Create(c) \/ Save(c) \/ SetStatus(c) \/ InsertRoles(c)

Step(c) == \/ Check(c) \/ Protect(c) \/ Count(c) \/ Refuse(c)
           \/ Writes(c) \/ DeleteRoles(c) \/ Fail(c)

Next ==
    \E c \in Calls :
       \/ \E u \in Users : Admit(c, u)
       \/ Expire(c)
       \/ \E target \in Users :
             \/ \E rs \in RoleSets : \/ Begin(c, "create", target, rs)
                                    \/ Begin(c, "roles", target, rs)
             \/ \E rs \in RoleSets \cup {{}} : Begin(c, "update", target, rs)
             \/ Begin(c, "disable", target, {})
             \/ Begin(c, "enable", target, {})
       \/ Step(c)

Spec == Init /\ [][Next]_vars

-----------------------------------------------------------------------------
(* Properties *)

\* "Cannot disable or demote the last super admin": someone can always manage
\* the super admins.
AnActiveSuper == ActiveSupers # {}

\* "Only a super admin can manage super admin accounts": whoever writes to the
\* account of one, or makes one, was a super admin when the guard read the
\* session, although each write comes long after its check and roles change
\* meanwhile.  One who has been demoted since is still let in, as long as the
\* session cache keeps the roles.  Left out, too, is a call whose target has become
\* a super admin since the check, and not by this call.
ManagedBySuper ==
    [][\A c \in Calls :
          Writes(c) /\ call[c].target \in Supers \cup Supers' =>
              \/ BySuper(c)
              \/ c \in raised /\ Super \notin call[c].roles]_vars
=============================================================================
