\* Two removals at once.
CONSTANTS
    u1 = u1
    u2 = u2
    u3 = u3
    c1 = c1
    c2 = c2
    Idle = Idle
    Users = {u1, u2, u3}
    Calls = {c1, c2}
    RoleSets <- MCRoleSets
    Super = "SUPER_ADMIN"
    OneRemoval = FALSE
SPECIFICATION Spec
SYMMETRY Interchangeable
INVARIANT AnActiveSuper
CHECK_DEADLOCK FALSE
