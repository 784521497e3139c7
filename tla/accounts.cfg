SPECIFICATION Spec
CONSTANTS
    Email = {a, b}
    Password = {p, q}
    User = {u1, u2}
    SessionToken = {s1, s2}
    ResetToken = {t1, t2}
    Monitor = {m1}
    SystemMonitor = sys
    Request = {r1, r2}
    None = None
    MaxPasswords = 3
    MaxFaults = 1
SYMMETRY Symmetry
CHECK_DEADLOCK FALSE
INVARIANTS
    TypeOK
    SessionProvesPassword
    StaleSessionStraddles
PROPERTIES
    OwnerOnly
