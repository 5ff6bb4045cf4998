SPECIFICATION Spec
CONSTANTS
    People = {a, b, c}
    Nobody = Nobody
    Requests = {q1, q2, q3}
    a = a
    b = b
    c = c
    q1 = q1
    q2 = q2
    q3 = q3
    MaxMemberships = 4
SYMMETRY Symmetry
INVARIANTS
    NeverMemberless
    TokensBelongToMembers
PROPERTIES
    DeletionIsConfirmed
    ImplementsMembership
CHECK_DEADLOCK FALSE
