\* A read-only client calls File.Put and File.Remove; a client whose roles
\* list gnoi_readwrite before gnoi_noaccess calls gNOI.
CONSTANTS
    c1 = c1
    c2 = c2
    admin = admin
    monitor = monitor
    blocked = blocked
    stranger = stranger
    anon = anon
    nocn = nocn
    NoCert = NoCert
    Calls = {c1, c2}
    Clients = {admin, monitor, blocked, stranger, anon, nocn}
    CallChoices <- EdgeChoices
    Cert <- MCCert
    RolesOf <- ConflictRoles
SPECIFICATION Spec
\* Each call is decided once; the server then waits for more calls.
CHECK_DEADLOCK FALSE
INVARIANT AuthorizationMatchesPolicy
