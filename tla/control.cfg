SPECIFICATION Spec
CONSTANTS
    Servers = {s1, s2}
    Groups = {g1}
    Users = {a, b}
    Tokens = {t1, t2}
    Requests = {r1, r2}
    Nobody = Nobody
    Gone = Gone
    MaxTokens = 2
SYMMETRY Symmetry
INVARIANTS
    NoDangling
    NotLockedOut
    MembersHoldTheirOwn
    HolderStillMay
