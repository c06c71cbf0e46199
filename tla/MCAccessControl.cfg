CONSTANTS
    a1 = a1
    a2 = a2
    u1 = u1
    c1 = c1
    c2 = c2
    Users = {a1, a2, u1}
    Codes = {c1, c2}
    Requests = {r1, r2, r3}
    Operations <- MCOperations
    Accounts <- MCAccounts
    Granted <- MCGranted
    None = None
SPECIFICATION Spec
SYMMETRY Symmetry
INVARIANTS AnswersTrue References
PROPERTIES AuditKept NoLostUpdate
CHECK_DEADLOCK FALSE
