------------------------- MODULE MCAuthMiddleware --------------------------
(***************************************************************************)
(* Model-checking instances of AuthMiddleware.                            *)
(***************************************************************************)
EXTENDS AuthMiddleware

CONSTANTS c1, c2, admin, monitor, blocked, stranger, anon, nocn

\* full method names, as their "/"-separated parts
M(svc, m) == <<"", svc, m>>
SetPackage  == M(<<"gnoi", "system", "System">>, "SetPackage")
Time        == M(<<"gnoi", "system", "System">>, "Time")
Ping        == M(<<"gnoi", "system", "System">>, "Ping")
GnmiSet     == M(<<"gnmi", "gNMI">>, "Set")
GnmiGet     == M(<<"gnmi", "gNMI">>, "Get")
Reflection  == M(<<"grpc", "reflection", "v1alpha", "ServerReflection">>, "ServerReflectionInfo")
Health      == M(<<"grpc", "health", "v1", "Health">>, "Check")
Malformed   == <<"", <<"invalid">>>>
OtherSvc    == M(<<"foo", "Bar">>, "Baz")
FilePut     == M(<<"gnoi", "file", "File">>, "Put")
FileRemove  == M(<<"gnoi", "file", "File">>, "Remove")

\* The certificate each client presents: three known CNs, a CN with no
\* roles in ConfigDB, no verified chain, and a certificate without CN.
MCCert == [cl \in {admin, monitor, blocked, stranger, anon, nocn} |->
             IF cl = admin THEN "admin.client" ELSE IF cl = monitor THEN "monitor.client"
             ELSE IF cl = blocked THEN "blocked.client" ELSE IF cl = stranger THEN "stranger"
             ELSE IF cl = anon THEN NoCert ELSE ""]

\* GNMI_CLIENT_CERT as in AUTHORIZATION_DEMO.md, a role of another level,
\* and nothing for "stranger".
DemoRoles ==
    [cn \in {"admin.client", "monitor.client", "blocked.client", "stranger"} |->
        IF cn = "admin.client" THEN <<Role("gnoi", "readwrite"), Role("gnmi", "readwrite")>>
        ELSE IF cn = "monitor.client" THEN <<Role("gnmi", "admin"), Role("gnoi", "readonly"),
                                            Role("gnmi", "readonly")>>
        ELSE IF cn = "blocked.client" THEN <<Role("gnoi", "noaccess")>>
        ELSE <<>>]

\* The blocked client also keeps the readwrite role it had before.
ConflictRoles ==
    [DemoRoles EXCEPT !["blocked.client"] = <<Role("gnoi", "readwrite"), Role("gnoi", "noaccess")>>]

Kinds == {"unary", "stream"}
CallsOver(cls, fms) == [kind : Kinds, client : cls, fm : fms]

\* System and gNMI methods, the skipped services and malformed names,
\* from every client.
KnownChoices ==
    [c \in Calls |->
        IF c = c1 THEN CallsOver({admin, monitor, blocked, stranger, anon, nocn},
                                 {SetPackage, Time, GnmiSet, GnmiGet, Reflection,
                                  Malformed, OtherSvc})
        ELSE CallsOver({monitor, blocked}, {Ping, Health, SetPackage})]

\* A read-only client calls the File service's writing methods, and the
\* blocked client (with ConflictRoles) calls a gNOI method.
EdgeChoices ==
    [c \in Calls |-> IF c = c1 THEN CallsOver({monitor}, {FilePut, FileRemove})
                     ELSE CallsOver({blocked}, {Time})]
=============================================================================
