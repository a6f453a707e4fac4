\* Two calls on three accounts; removals take turns.
CONSTANTS
    u1 = u1
    u2 = u2
    u3 = u3
    c1 = c1
    c2 = c2
    Idle = Idle
    Users = {u1, u2, u3}
    Calls = {c1, c2}
    RoleSets <- MCRoleSets
    Super = "SUPER_ADMIN"
    OneRemoval = TRUE
SPECIFICATION Spec
SYMMETRY Interchangeable
INVARIANTS TypeOK AnActiveSuper
PROPERTY ManagedBySuper
CHECK_DEADLOCK FALSE
