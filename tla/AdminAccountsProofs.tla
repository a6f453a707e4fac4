------------------------ MODULE AdminAccountsProofs ------------------------
(***************************************************************************)
(* Proofs about AdminAccounts, for any accounts, calls and sets of roles.  *)
(***************************************************************************)
EXTENDS AdminAccounts, FiniteSetTheorems, TLAPS

(***************************************************************************)
(* Types                                                                   *)
(***************************************************************************)

\* TypeOK, but for the roles of active accounts.
Types ==
    /\ active \subseteq Users
    /\ roles \in [Users -> SUBSET AllRoles]
    /\ session \in [Calls -> {"nobody", "admin", "super"}]
    /\ call \in [Calls -> UserCall \cup {Idle}]
    /\ raised \subseteq Calls

LEMMA NextTypes == Types /\ [Next]_vars => Types'
<1> SUFFICES ASSUME Types, [Next]_vars PROVE Types'
  OBVIOUS
<1> USE DEF Types
<1>1. ASSUME NEW c \in Calls, Step(c) PROVE Types'
  <2>1. call[c] \in UserCall
    BY <1>1 DEF Step, Writes, Check, Save, Protect, Count, Refuse, Create,
                SetStatus, DeleteRoles, InsertRoles, Fail, At, Running
  <2>2. ASSUME NEW pc \in Pcs, GoTo(c, pc)
        PROVE  call' \in [Calls -> UserCall \cup {Idle}]
    <3>1. [call[c] EXCEPT !.pc = pc] \in UserCall
      BY <2>1 DEF UserCall
    <3>2. QED
      BY <2>2, <3>1 DEF GoTo
  <2>3. End(c) => call' \in [Calls -> UserCall \cup {Idle}]
    BY DEF End
  <2>4. call[c].target \in Users /\ call[c].roles \subseteq AllRoles
    BY <2>1 DEF UserCall, AllRoles
  <2>r. ASSUME NEW u \in Users, NEW rs \in SUBSET AllRoles, SetRoles(u, rs)
        PROVE  roles' \in [Users -> SUBSET AllRoles] /\ raised' \subseteq Calls
    BY <2>r DEF SetRoles
  <2>s. CASE Save(c)
    <3>1. [call[c] EXCEPT !.kind = "roles", !.pc = "check"] \in UserCall
      BY <2>1 DEF UserCall, Kinds, Pcs
    <3>2. QED
      BY <2>3, <2>s, <3>1 DEF Save
  <2>5. CASE Check(c) \/ Protect(c) \/ Count(c)
    BY <2>2, <2>5 DEF Check, Protect, Count, Pcs
  <2>6. CASE Refuse(c) \/ Fail(c)
    BY <2>3, <2>6 DEF Refuse, Fail
  <2>7. CASE Create(c)
    BY <2>3, <2>4, <2>7, <2>r DEF Create
  <2>8. CASE SetStatus(c)
    BY <2>3, <2>4, <2>8 DEF SetStatus
  <2>9. CASE DeleteRoles(c)
    <3>1. [call[c] EXCEPT !.pc = "insert", !.seen = roles[call[c].target]]
             \in UserCall
      BY <2>1, <2>4 DEF UserCall, Pcs
    <3>2. QED
      BY <2>9, <3>1 DEF DeleteRoles
  <2>10. CASE InsertRoles(c)
    BY <2>3, <2>4, <2>10, <2>r DEF InsertRoles, Left
  <2>11. QED
    BY <1>1, <2>s, <2>5, <2>6, <2>7, <2>8, <2>9, <2>10 DEF Step, Writes
<1>2. ASSUME NEW c \in Calls, NEW target \in Users,
             NEW kind \in Kinds, NEW rs \in RoleSets \cup {{}},
             Begin(c, kind, target, rs)
      PROVE  Types'
  <2>1. [kind |-> kind, pc |-> "check", target |-> target, roles |-> rs,
         seen |-> {}] \in UserCall
    BY DEF UserCall, Pcs
  <2>2. QED
    BY <1>2, <2>1 DEF Begin
<1>s. ASSUME NEW c \in Calls, Expire(c) \/ \E u \in Users : Admit(c, u)
      PROVE  Types'
  BY <1>s DEF Admit, Expire
<1>3. CASE UNCHANGED vars
  BY <1>3 DEF vars
<1>4. QED
  BY <1>1, <1>2, <1>s, <1>3 DEF Next, Kinds

\* Roles are given, never taken without others in their place: a call that gives
\* roles has some to give, and one that enables has found an account with some.
RolesKept ==
    /\ \A u \in active : Exists(u)
    /\ \A c \in Calls : Running(c) =>
          /\ call[c].kind \in {"create", "roles"} => call[c].roles # {}
          /\ call[c].kind = "enable" =>
                call[c].pc = "check" \/ Exists(call[c].target)
          /\ call[c].pc = "insert" => call[c].kind = "roles"

LEMMA NextRolesKept == Types /\ Types' /\ RolesKept /\ [Next]_vars => RolesKept'
<1> SUFFICES ASSUME Types, Types', RolesKept, [Next]_vars PROVE RolesKept'
  OBVIOUS
<1> USE DEF Types, RolesKept
<1>1. ASSUME NEW c \in Calls, Step(c) PROVE RolesKept'
  <2>1. /\ Running(c) /\ call[c] \in UserCall /\ call[c].target \in Users
    BY <1>1 DEF Step, Writes, Check, Save, Protect, Count, Refuse, Create,
                SetStatus, DeleteRoles, InsertRoles, Fail, At, Running, UserCall
  <2>2. \A u \in Users : Exists(u) => Exists(u)'
    <3>1. ASSUME NEW u \in Users, NEW rs, rs # {}, SetRoles(u, rs)
          PROVE  \A v \in Users : Exists(v) => Exists(v)'
      BY <3>1 DEF SetRoles, Exists
    <3>2. CASE Create(c)
      BY <2>1, <3>1, <3>2 DEF Create
    <3>3. CASE InsertRoles(c)
      BY <2>1, <3>1, <3>3 DEF InsertRoles, At
    <3>4. CASE UNCHANGED roles
      BY <3>4 DEF Exists
    <3>5. QED
      BY <1>1, <3>2, <3>3, <3>4 DEF Step, Writes, Check, Save, Protect, Count,
         Refuse, SetStatus, DeleteRoles, Fail
  <2>3. \A u \in active' : Exists(u)'
    <3>1. CASE Create(c)
      BY <2>1, <2>2, <3>1 DEF Create, SetRoles, Exists
    <3>2. CASE SetStatus(c)
      BY <2>1, <2>2, <3>2 DEF SetStatus, At
    <3>3. CASE UNCHANGED active
      BY <2>2, <3>3
    <3>4. QED
      BY <1>1, <3>1, <3>2, <3>3 DEF Step, Writes, Check, Save, Protect, Count,
         Refuse, InsertRoles, DeleteRoles, Fail
  <2>4. ASSUME NEW d \in Calls \ {c}, Running(d)'
        PROVE  call'[d] = call[d] /\ Running(d) /\ call[d].target \in Users
    <3>1. call'[d] = call[d]
      BY <1>1, <2>4 DEF Step, Writes, Check, Save, Protect, Count, Refuse, Create,
         SetStatus, DeleteRoles, InsertRoles, Fail, GoTo, End
    <3>2. QED
      BY <2>4, <3>1 DEF Running, UserCall
  <2>5. ASSUME Running(c)'
        PROVE  /\ call'[c].kind \in {"create", "roles"} => call'[c].roles # {}
               /\ call'[c].kind = "enable" =>
                     call'[c].pc = "check" \/ roles'[call[c].target] # {}
               /\ call'[c].pc = "insert" => call'[c].kind = "roles"
               /\ call'[c].target = call[c].target
    <3>1. ~End(c)
      BY <2>5 DEF End, Running
    <3>2. CASE Save(c)
      <4> DEFINE next == [call[c] EXCEPT !.kind = "roles", !.pc = "check"]
      <4>1. call' = [call EXCEPT ![c] = next] /\ call[c].roles # {}
        BY <3>1, <3>2 DEF Save
      <4>2. /\ next.kind = "roles" /\ next.pc = "check"
            /\ next.target = call[c].target /\ next.roles = call[c].roles
        BY <2>1 DEF UserCall
      <4>3. call'[c] = next
        BY <4>1
      <4>4. QED
        BY <4>1, <4>2, <4>3
    <3>3. CASE DeleteRoles(c)
      BY <2>1, <3>3 DEF DeleteRoles, At, UserCall
    <3>4. CASE Check(c)
      <4>1. call[c].kind = "enable" => roles'[call[c].target] # {}
        BY <2>1, <2>2, <3>4 DEF Check, Exists
      <4>2. PICK pc \in {"write", "save", "protect"} : GoTo(c, pc)
        BY <3>4 DEF Check
      <4>3. QED
        BY <2>1, <4>1, <4>2 DEF GoTo, UserCall
    <3>5. CASE Protect(c) \/ Count(c)
      <4>1. PICK pc \in {"write", "count"} : GoTo(c, pc)
        BY <3>5 DEF Protect, Count
      <4>2. call[c].pc # "check"
        BY <3>5 DEF Protect, Count, At
      <4>3. QED
        BY <2>1, <2>2, <4>1, <4>2 DEF GoTo, UserCall, Exists
    <3>6. QED
      BY <1>1, <3>1, <3>2, <3>3, <3>4, <3>5
         DEF Step, Writes, Refuse, Create, SetStatus, InsertRoles, Fail
  <2>6. QED
    BY <2>1, <2>2, <2>3, <2>4, <2>5 DEF Exists
<1>2. ASSUME NEW c \in Calls, NEW target \in Users, NEW kind \in Kinds,
             NEW rs \in RoleSets \cup {{}}, Begin(c, kind, target, rs),
             kind \in {"create", "roles"} => rs # {}
      PROVE  RolesKept'
  <2>1. /\ call'[c].kind = kind /\ call'[c].pc = "check" /\ call'[c].roles = rs
        /\ \A d \in Calls \ {c} : call'[d] = call[d]
        /\ UNCHANGED <<active, roles>>
    BY <1>2 DEF Begin
  <2>2. QED
    BY <1>2, <2>1 DEF Running, Exists
<1>3. ASSUME UNCHANGED <<active, roles, call>> PROVE RolesKept'
  BY <1>3 DEF Exists, Running
<1>4. QED
  <2>1. \A rs \in RoleSets : rs # {}
    BY RoleAssumption
  <2>2. CASE UNCHANGED vars
    BY <1>3, <2>2 DEF vars
  <2>3. ASSUME NEW c \in Calls, Expire(c) \/ \E u \in Users : Admit(c, u)
        PROVE  RolesKept'
    BY <1>3, <2>3 DEF Admit, Expire
  <2>4. QED
    BY <1>1, <1>2, <2>1, <2>2, <2>3 DEF Next, Kinds

\* Every variable keeps its type, and no account that may sign in is ever without
\* a role, although roles are deleted before they are inserted.
THEOREM TypeCorrect == Spec => []TypeOK
<1>1. Init => Types /\ RolesKept
  BY DEF Init, Types, RolesKept, AllRoles, Running
<1>2. Types /\ RolesKept /\ [Next]_vars => (Types /\ RolesKept)'
  BY NextTypes, NextRolesKept
<1>3. Types /\ RolesKept => TypeOK
  BY DEF Types, RolesKept, TypeOK
<1>4. QED
  BY <1>1, <1>2, <1>3, PTL DEF Spec

(***************************************************************************)
(* The last super admin, when removals take turns.  The call that is about *)
(* to take one away knows of another: Protect found its target not to be   *)
(* a super admin, or Count found two, and until it writes the others only  *)
(* add super admins.                                                       *)
(***************************************************************************)

InsertsRoles == \A c \in Calls : At(c, "insert") => call[c].kind = "roles"

RemovalsTakeTurns == \A c, d \in Calls : Removing(c) /\ Removing(d) => c = d

Another(c) == \E v \in ActiveSupers : v # call[c].target

RemovalIsSafe == \A c \in Calls :
    Removing(c) /\ (At(c, "write") \/ At(c, "insert")) => Another(c)

SuperInv == InsertsRoles /\ RemovalsTakeTurns /\ RemovalIsSafe /\ AnActiveSuper

LEMMA TwoOrMore ==
    ASSUME NEW S, IsFiniteSet(S), Cardinality(S) > 1, NEW x
    PROVE  \E v \in S : v # x
<1> SUFFICES ASSUME \A v \in S : v = x PROVE FALSE
  OBVIOUS
<1>1. S \subseteq {x}
  OBVIOUS
<1>2. Cardinality(S) <= Cardinality({x}) /\ Cardinality({x}) = 1
  BY <1>1, FS_Subset, FS_Singleton
<1>3. Cardinality(S) \in Nat
  BY FS_CardinalityType
<1>4. QED
  BY <1>2, <1>3

\* What a step of call c leaves of the other calls.
LEMMA OthersStay ==
    ASSUME TypeOK, NEW c \in Calls, Step(c)
    PROVE  /\ Running(c)
           /\ \A d \in Calls \ {c} : call'[d] = call[d]
           /\ call'[c] # Idle =>
                /\ \/ call'[c].kind = call[c].kind
                   \/ /\ call[c].kind = "update" /\ call'[c].kind = "roles"
                      /\ call[c].roles # {} /\ call'[c].pc = "check"
                /\ call'[c].target = call[c].target
                /\ call'[c].roles = call[c].roles
           /\ UNCHANGED session
<1>1. Running(c)
  BY DEF Step, Writes, Check, Save, Protect, Count, Refuse, Create, SetStatus,
         DeleteRoles, InsertRoles, Fail, At
<1>2. call[c] \in UserCall
  BY <1>1 DEF TypeOK, Running
<1>3. ASSUME NEW pc, GoTo(c, pc)
      PROVE  /\ \A d \in Calls \ {c} : call'[d] = call[d]
             /\ call'[c].kind = call[c].kind
             /\ call'[c].target = call[c].target
             /\ call'[c].roles = call[c].roles
  BY <1>2, <1>3 DEF GoTo, TypeOK, UserCall
<1>4. ASSUME End(c)
      PROVE  call'[c] = Idle /\ \A d \in Calls \ {c} : call'[d] = call[d]
  BY <1>4 DEF End, TypeOK
<1>5. CASE Check(c) \/ Protect(c) \/ Count(c)
  BY <1>1, <1>3, <1>5 DEF Check, Protect, Count
<1>6. CASE Refuse(c) \/ Create(c) \/ SetStatus(c) \/ InsertRoles(c) \/ Fail(c)
  BY <1>1, <1>4, <1>6 DEF Refuse, Create, SetStatus, InsertRoles, Fail
<1>7. CASE DeleteRoles(c)
  BY <1>1, <1>2, <1>7 DEF DeleteRoles, TypeOK, UserCall
<1>8. CASE Save(c)
  <2>1. CASE call[c].roles = {}
    BY <1>1, <1>4, <1>8, <2>1 DEF Save
  <2>2. CASE call[c].roles # {}
    <3> DEFINE next == [call[c] EXCEPT !.kind = "roles", !.pc = "check"]
    <3>1. /\ call' = [call EXCEPT ![c] = next] /\ call[c].kind = "update"
          /\ UNCHANGED session
      BY <1>8, <2>2 DEF Save
    <3>2. /\ next.kind = "roles" /\ next.pc = "check"
          /\ next.target = call[c].target /\ next.roles = call[c].roles
      BY <1>2 DEF UserCall
    <3>3. call'[c] = next /\ \A d \in Calls \ {c} : call'[d] = call[d]
      BY <3>1 DEF TypeOK
    <3>4. QED
      BY <1>1, <2>2, <3>1, <3>2, <3>3
  <2>3. QED
    BY <2>1, <2>2
<1>9. QED
  BY <1>5, <1>6, <1>7, <1>8 DEF Step, Writes

\* Only a removal takes anyone from the active super admins, and only its target.
LEMMA OnlyRemovalsRemove ==
    ASSUME TypeOK, SuperInv, NEW c \in Calls, Step(c), NEW v \in ActiveSupers,
           Removing(c) => v # call[c].target
    PROVE  v \in ActiveSupers'
<1> USE DEF ActiveSupers, Supers, TypeOK, SetRoles
<1>1. CASE Create(c)
  BY <1>1 DEF Create, Exists, At
<1>2. CASE SetStatus(c)
  BY <1>2 DEF SetStatus, At, Removing, Removes
<1>3. CASE InsertRoles(c)
  <2>1. call[c].kind = "roles" /\ Running(c)
    BY <1>3 DEF InsertRoles, SuperInv, InsertsRoles, At
  <2>2. v # call[c].target \/ Super \in call[c].roles
    BY <2>1 DEF Removing, Removes
  <2>3. QED
    BY <1>3, <2>2 DEF InsertRoles
<1>4. CASE UNCHANGED <<active, roles>>
  BY <1>4
<1>5. QED
  BY <1>1, <1>2, <1>3, <1>4
     DEF Step, Writes, Check, Save, Protect, Count, Refuse, DeleteRoles, Fail

LEMMA StepKeepsSuperInv ==
    ASSUME TypeOK, TypeOK', SuperInv, NEW c \in Calls, Step(c)
    PROVE  SuperInv'
<1>1. /\ Running(c)
      /\ \A d \in Calls \ {c} : call'[d] = call[d]
      /\ call'[c] # Idle =>
           /\ \/ call'[c].kind = call[c].kind
              \/ /\ call[c].kind = "update" /\ call'[c].kind = "roles"
                 /\ call[c].roles # {} /\ call'[c].pc = "check"
           /\ call'[c].target = call[c].target
           /\ call'[c].roles = call[c].roles
  BY OthersStay
<1>2. \A d \in Calls : Removing(d)' => Removing(d)
  BY <1>1 DEF Removing, Removes, Running
<1>3. RemovalsTakeTurns'
  BY <1>2 DEF SuperInv, RemovalsTakeTurns
<1>4. InsertsRoles'
  <2>1. ASSUME At(c, "insert")' PROVE call'[c].kind = "roles"
    <3>1. call'[c] # Idle /\ call'[c].pc = "insert"
      BY <2>1 DEF At, Running
    <3>2. DeleteRoles(c)
      <4>1. ASSUME NEW pc, GoTo(c, pc) PROVE call'[c].pc = pc
        BY <1>1, <4>1 DEF GoTo, TypeOK, UserCall, Running
      <4>2. End(c) => call'[c] = Idle
        BY DEF End, TypeOK
      <4>s. ~Save(c)
        BY <1>1, <3>1, <4>2 DEF Save, TypeOK, UserCall, Running
      <4>3. QED
        BY <3>1, <4>1, <4>2, <4>s
           DEF Step, Writes, Check, Protect, Count, Refuse, Create, SetStatus,
               InsertRoles, Fail
    <3>3. QED
      BY <1>1, <3>1, <3>2 DEF DeleteRoles
  <2>2. QED
    BY <1>1, <2>1 DEF SuperInv, InsertsRoles, At, Running
<1>5. AnActiveSuper'
  <2>1. CASE Removing(c) /\ (At(c, "write") \/ At(c, "insert"))
    BY <2>1, OnlyRemovalsRemove DEF SuperInv, RemovalIsSafe, Another, AnActiveSuper
  <2>2. CASE ~Removing(c)
    BY <2>2, OnlyRemovalsRemove DEF SuperInv, AnActiveSuper
  <2>3. CASE ~(At(c, "write") \/ At(c, "insert"))
    <3>1. UNCHANGED <<active, roles>>
      BY <2>3 DEF Step, Writes, Check, Save, Protect, Count, Refuse, Create,
                  SetStatus, DeleteRoles, InsertRoles, Fail
    <3>2. QED
      BY <3>1 DEF SuperInv, AnActiveSuper, ActiveSupers, Supers
  <2>4. QED
    BY <2>1, <2>2, <2>3
<1>6. RemovalIsSafe'
  <2> SUFFICES ASSUME NEW d \in Calls, Removing(d)',
                      At(d, "write")' \/ At(d, "insert")'
               PROVE  Another(d)'
    BY DEF RemovalIsSafe
  <2>1. Removing(d)
    BY <1>2
  <2>2. CASE d # c
    <3>1. call'[d] = call[d] /\ ~Removing(c)
      BY <1>1, <2>1, <2>2 DEF SuperInv, RemovalsTakeTurns
    <3>2. Another(d)
      BY <2>1, <3>1 DEF SuperInv, RemovalIsSafe, At, Running
    <3>3. QED
      BY <3>1, <3>2, OnlyRemovalsRemove DEF Another
  <2>3. CASE d = c
    <3>1. call'[c] # Idle /\ call'[c].target = call[c].target
      BY <1>1, <2>3 DEF Removing, Running
    <3>2. Removing(c)
      BY <2>1, <2>3 DEF Removing, Running
    <3>3. ~End(c)
      BY <3>1 DEF End, TypeOK
    <3>4. UNCHANGED <<active, roles>>
      BY <3>3 DEF Step, Writes, Check, Save, Protect, Count, Refuse, Create,
                  SetStatus, DeleteRoles, InsertRoles, Fail
    <3>5. Another(c)
      <4>1. CASE Protect(c)
        <5>1. call'[c].pc = IF call[c].target \in Supers /\ Removing(c)
                            THEN "count" ELSE "write"
          BY <1>1, <4>1 DEF Protect, GoTo, TypeOK, UserCall, Running
        <5>2. call[c].target \notin Supers
          BY <2>3, <3>2, <5>1 DEF At
        <5>3. QED
          BY <5>2 DEF SuperInv, AnActiveSuper, Another, ActiveSupers
      <4>2. CASE Count(c)
        <5>1. IsFiniteSet(ActiveSupers) /\ Cardinality(ActiveSupers) > 1
          <6>1. ActiveSupers \subseteq Users
            BY DEF ActiveSupers, Supers
          <6>2. QED
            BY <4>2, <6>1, UsersFinite, FS_Subset DEF Count
        <5>2. QED
          BY <5>1, TwoOrMore DEF Another
      <4>3. CASE DeleteRoles(c)
        BY <3>2, <4>3 DEF DeleteRoles, SuperInv, RemovalIsSafe
      <4>4. CASE Check(c)
        <5>1. call[c].kind # "create"
          BY <3>2 DEF Removing, Removes
        <5>2. call'[c].pc \in {"save", "protect"}
          BY <1>1, <4>4, <5>1 DEF Check, GoTo, TypeOK, UserCall, Running
        <5>3. QED
          BY <2>3, <5>2 DEF At
      <4>5. CASE Save(c)
        <5>1. call'[c].pc = "check"
          BY <1>1, <3>1, <3>3, <4>5 DEF Save, TypeOK, UserCall, Running
        <5>2. QED
          BY <2>3, <5>1 DEF At
      <4>6. QED
        BY <3>3, <4>1, <4>2, <4>3, <4>4, <4>5
           DEF Step, Writes, Refuse, Create, SetStatus, InsertRoles, Fail
    <3>6. QED
      BY <2>3, <3>1, <3>4, <3>5 DEF Another, ActiveSupers, Supers
  <2>4. QED
    BY <2>2, <2>3
<1>7. QED
  BY <1>3, <1>4, <1>5, <1>6 DEF SuperInv

LEMMA BeginKeepsSuperInv ==
    ASSUME OneRemoval = TRUE, TypeOK, SuperInv,
           NEW c \in Calls, NEW target \in Users,
           NEW kind \in Kinds, NEW rs \in RoleSets \cup {{}},
           Begin(c, kind, target, rs)
    PROVE  SuperInv'
<1>1. /\ call'[c].kind = kind /\ call'[c].pc = "check" /\ call'[c].roles = rs
      /\ \A d \in Calls \ {c} : call'[d] = call[d]
      /\ UNCHANGED <<active, roles>>
  BY DEF Begin, TypeOK
<1>2. InsertsRoles' /\ RemovalIsSafe'
  <2>1. \A d \in Calls : At(d, "write")' \/ At(d, "insert")' =>
            d # c /\ call'[d] = call[d]
    BY <1>1 DEF At
  <2>2. QED
    BY <1>1, <2>1 DEF SuperInv, InsertsRoles, RemovalIsSafe, Another, At,
                      Removing, Running, ActiveSupers, Supers
<1>3. RemovalsTakeTurns'
  <2>1. Removing(c)' => \A d \in Calls : ~Removing(d)
    BY <1>1 DEF Begin, Removing
  <2>2. \A d \in Calls \ {c} : Removing(d)' => Removing(d)
    BY <1>1 DEF Removing, Running
  <2>3. QED
    BY <2>1, <2>2 DEF SuperInv, RemovalsTakeTurns
<1>4. AnActiveSuper'
  BY <1>1 DEF SuperInv, AnActiveSuper, ActiveSupers, Supers
<1>5. QED
  BY <1>2, <1>3, <1>4 DEF SuperInv

\* As long as removals take turns there is always an active super admin,
\* whatever else is created, enabled and given roles meanwhile.
THEOREM SomeoneStays == OneRemoval = TRUE /\ Spec => []AnActiveSuper
<1> SUFFICES ASSUME OneRemoval = TRUE PROVE Spec => []AnActiveSuper
  OBVIOUS
<1>1. Init => SuperInv
  BY DEF Init, SuperInv, InsertsRoles, RemovalsTakeTurns, RemovalIsSafe,
         AnActiveSuper, At, Removing, Running
<1>2. TypeOK /\ TypeOK' /\ SuperInv /\ [Next]_vars => SuperInv'
  <2> SUFFICES ASSUME TypeOK, TypeOK', SuperInv, [Next]_vars PROVE SuperInv'
    OBVIOUS
  <2>1. ASSUME UNCHANGED <<active, roles, call>> PROVE SuperInv'
    BY <2>1 DEF SuperInv, InsertsRoles, RemovalsTakeTurns,
                RemovalIsSafe, AnActiveSuper, Another, At, Removing, Running,
                ActiveSupers, Supers
  <2>2. CASE Next
    BY <2>1, <2>2, StepKeepsSuperInv, BeginKeepsSuperInv
       DEF Next, Kinds, Admit, Expire
  <2>3. QED
    BY <2>1, <2>2 DEF vars
<1>3. SuperInv => AnActiveSuper
  BY DEF SuperInv
<1>4. QED
  BY <1>1, <1>2, <1>3, TypeCorrect, PTL DEF Spec

(***************************************************************************)
(* Who manages super admins.                                               *)
(***************************************************************************)

\* A call of somebody who is not a super admin is past its check only if it
\* makes no super admin, and its target was none then: if it is one now, it has
\* become one since.
ManagesRightly == \A c \in Calls :
    Running(c) /\ call[c].pc # "check" /\ ~BySuper(c) =>
        /\ Super \notin call[c].roles
        /\ call[c].kind # "create" \/ call[c].pc = "insert" =>
              call[c].target \notin Supers \/ c \in raised

\* Whoever becomes a super admin raises the calls about them.
LEMMA RaisesCalls ==
    ASSUME TypeOK, NEW c \in Calls, Step(c), NEW d \in Calls, d \in Calls \ {c},
           Running(d)
    PROVE  /\ call[d].target \in Supers' \ Supers => d \in raised'
           /\ d \in raised => d \in raised'
<1>1. ASSUME NEW u \in Users, NEW rs, SetRoles(u, rs)
      PROVE  /\ call[d].target \in Supers' \ Supers => d \in raised'
             /\ d \in raised => d \in raised'
  BY <1>1 DEF SetRoles, Supers, TypeOK
<1>2. \A b \in Calls : Running(b) => call[b].target \in Users
  BY DEF TypeOK, UserCall, Running
<1>3. CASE Create(c) \/ InsertRoles(c)
  BY <1>1, <1>2, <1>3 DEF Create, InsertRoles, At
<1>4. CASE UNCHANGED roles /\ raised \ {c} \subseteq raised'
  BY <1>4 DEF Supers
<1>5. QED
  BY <1>3, <1>4 DEF Step, Writes, Check, Save, SetStatus, Protect, Count, Refuse,
                    DeleteRoles, Fail

LEMMA Rightly == Spec => [](TypeOK /\ ManagesRightly)
<1>1. Init => ManagesRightly
  BY DEF Init, ManagesRightly, Running
<1>2. TypeOK /\ ManagesRightly /\ [Next]_vars => ManagesRightly'
  <2> SUFFICES ASSUME TypeOK, ManagesRightly, [Next]_vars PROVE ManagesRightly'
    OBVIOUS
  <2>1. ASSUME NEW c \in Calls, Step(c) PROVE ManagesRightly'
    <3>1. ASSUME NEW d \in Calls, d # c, Running(d)', call'[d].pc # "check",
                 ~BySuper(d)'
          PROVE  /\ Super \notin call'[d].roles
                 /\ call'[d].kind # "create" \/ call'[d].pc = "insert" =>
                       call'[d].target \notin Supers' \/ d \in raised'
      <4>1. call'[d] = call[d] /\ Running(d) /\ ~BySuper(d)
        BY <2>1, <3>1, OthersStay DEF Running, BySuper
      <4>2. QED
        BY <2>1, <3>1, <4>1, RaisesCalls DEF ManagesRightly
    <3>2. ASSUME Running(c)', call'[c].pc # "check", ~BySuper(c)'
          PROVE  /\ Super \notin call'[c].roles
                 /\ call'[c].kind # "create" \/ call'[c].pc = "insert" =>
                       call'[c].target \notin Supers' \/ c \in raised'
      <4>1. /\ call[c] \in UserCall /\ ~BySuper(c)
            /\ call'[c].roles = call[c].roles /\ call'[c].target = call[c].target
            /\ call'[c].kind = call[c].kind
        BY <2>1, <3>2, OthersStay DEF TypeOK, Running, BySuper
      <4>2. ~End(c)
        BY <3>2 DEF End, Running, TypeOK
      <4>g. \A pc : GoTo(c, pc) => call'[c].pc = pc
        BY <4>1 DEF GoTo, TypeOK, UserCall
      <4>3. CASE Check(c)
        <5>1. call'[c].pc # "insert"
          BY <4>3, <4>g DEF Check
        <5>2. QED
          BY <4>1, <4>3, <5>1 DEF Check, CanManage, RolesRead, Supers
      <4>4. CASE Protect(c) \/ Count(c)
        <5>1. call'[c].pc # "insert"
          BY <4>4, <4>g DEF Protect, Count
        <5>2. QED
          BY <4>1, <4>4, <5>1 DEF Protect, Count, At, ManagesRightly, Supers
      <4>d. CASE DeleteRoles(c)
        BY <4>1, <4>d DEF DeleteRoles, At, ManagesRightly, Supers
      <4>5. ~Save(c)
        BY <2>1, <3>2, <4>1, <4>2 DEF Save, TypeOK, UserCall
      <4>6. QED
        BY <2>1, <4>2, <4>3, <4>4, <4>d, <4>5
           DEF Step, Writes, Refuse, Create, SetStatus, InsertRoles, Fail
    <3>3. QED
      BY <3>1, <3>2 DEF ManagesRightly
  <2>2. ASSUME NEW c \in Calls, NEW target \in Users,
               NEW kind \in Kinds, NEW rs \in RoleSets \cup {{}},
               Begin(c, kind, target, rs)
        PROVE  ManagesRightly'
    BY <2>2 DEF Begin, ManagesRightly, Running, TypeOK, Supers, BySuper
  <2>s. ASSUME NEW c \in Calls, Expire(c) \/ \E u \in Users : Admit(c, u)
        PROVE  ManagesRightly'
    <3>1. /\ UNCHANGED <<call, roles, raised>> /\ ~Running(c)
          /\ \A d \in Calls \ {c} : session'[d] = session[d]
      BY <2>s DEF Admit, Expire, TypeOK
    <3>2. QED
      BY <3>1 DEF ManagesRightly, Running, Supers, BySuper
  <2>3. CASE UNCHANGED vars
    BY <2>3 DEF vars, ManagesRightly, Running, Supers, BySuper
  <2>4. QED
    BY <2>1, <2>2, <2>s, <2>3 DEF Next, Kinds
<1>3. QED
  BY <1>1, <1>2, TypeCorrect, PTL DEF Spec

\* Only who the guard let in as a super admin, by the roles its session had when
\* it was read, writes to the account of a super admin or makes one, but for a
\* call that was under way when its target became one.
THEOREM SupersManageSupers == Spec => ManagedBySuper
<1>1. ASSUME TypeOK, ManagesRightly, [Next]_vars
      PROVE  \A c \in Calls :
                Writes(c) /\ call[c].target \in Supers \cup Supers' =>
                    \/ BySuper(c)
                    \/ c \in raised /\ Super \notin call[c].roles
  <2> SUFFICES ASSUME NEW c \in Calls, Writes(c), ~BySuper(c),
                      call[c].target \in Supers \cup Supers'
               PROVE  c \in raised /\ Super \notin call[c].roles
    OBVIOUS
  <2>1. Running(c) /\ call[c].pc # "check" /\ call[c].target \in Users
    BY <1>1 DEF Writes, Create, Save, SetStatus, InsertRoles, At, Running, TypeOK,
                UserCall
  <2>2. Super \notin call[c].roles
    BY <1>1, <2>1 DEF ManagesRightly
  <2>3. call[c].target \in Supers
    BY <1>1, <2>1, <2>2 DEF Writes, Create, Save, SetStatus, InsertRoles, SetRoles,
                            Left, Supers, TypeOK
  <2>4. call[c].kind # "create" \/ call[c].pc = "insert"
    BY <1>1, <2>3 DEF Writes, Create, Save, SetStatus, InsertRoles, Exists, Supers, At
  <2>5. QED
    BY <1>1, <2>1, <2>2, <2>3, <2>4 DEF ManagesRightly
<1>2. QED
  BY <1>1, Rightly, PTL DEF Spec, ManagedBySuper
=============================================================================
