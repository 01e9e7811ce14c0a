\* Calls of the System and gNMI methods, the skipped services and malformed
\* names, from clients with the roles of AUTHORIZATION_DEMO.md, without a
\* certificate or without a CN; both parseMethod versions; servers with and
\* without TLS and an authorizer.
CONSTANTS
    c1 = c1
    c2 = c2
    admin = admin
    monitor = monitor
    blocked = blocked
    stranger = stranger
    anon = anon
    nocn = nocn
    NoCert = NoCert
    Calls = {c1, c2}
    Clients = {admin, monitor, blocked, stranger, anon, nocn}
    CallChoices <- KnownChoices
    Cert <- MCCert
    RolesOf <- DemoRoles
SPECIFICATION Spec
\* Each call is decided once; the server then waits for more calls.
CHECK_DEADLOCK FALSE
INVARIANT AuthorizationMatchesPolicy
