SPECIFICATION Spec
CONSTANTS
    Users = {u1, u2}
    Sessions = {s1}
    Requests = {r1, r2}
    Passwords = {p1, p2}
    MaxCodes = 2
    None = None
SYMMETRY Symmetric
INVARIANTS IndInv VerifiedByMail ClosedByReset OpenedWithPassword
PROPERTIES CodeUsedOnce OnlyLiveCode AccessKept
