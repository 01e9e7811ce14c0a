--------------------------- MODULE AuthMiddleware ---------------------------
(***************************************************************************)
(* Certificate-based authorization of the standalone server: the server    *)
(* built by NewServerWithAuth (server_with_auth.go), its unary and stream  *)
(* interceptors (AuthMiddleware, StreamAuthMiddleware), parseMethod, and   *)
(* CertAuthorizer.CheckAccess with extractCN, getRoles and hasAccess       *)
(* (builder.go:279-369).                                                   *)
(*                                                                         *)
(* The package holds two versions of parseMethod: the table-driven one of  *)
(* part_003 and the switch of part_004.  The variable parser says which    *)
(* one the server was built with; both are checked.                        *)
(*                                                                         *)
(* A full method name "/pkg.Svc/Method" is kept as the list of its         *)
(* "/"-separated parts: the empty part before the first "/", the service   *)
(* as the list of its "."-separated segments, and the method name.  A      *)
(* role "svc_level" of GNMI_CLIENT_CERT is the record of its two halves.   *)
(***************************************************************************)
EXTENDS Naturals, Sequences

CONSTANTS
    Calls,        \* RPCs made to the server
    CallChoices,  \* CallChoices[c]: the (kind, client, method) call c may be
    Clients,      \* client connections
    Cert,         \* Cert[cl]: the CN of cl's verified certificate, "" or NoCert
    RolesOf,      \* RolesOf[cn]: the role list ConfigDB holds for cn (maybe empty)
    NoCert        \* a client that presents no verified certificate chain

VARIABLES
    tls,          \* the server was given a certificate manager
    authz,        \* the server was given an authorizer (interceptors installed)
    parser,       \* which parseMethod the package was built with
    built,        \* NewServerWithAuth returned a server, not an error
    call          \* call[c]: the state of RPC c

vars == <<tls, authz, parser, built, call>>

Levels == {"readwrite", "readonly", "noaccess", "admin"}
Role(svc, level) == [svc |-> svc, level |-> level]

Outcomes == {"pending", "handler", "Unauthenticated", "PermissionDenied"}

(***************************************************************************)
(* The method tables of part_003 (lines 63-82) and the write operations of *)
(* part_004 (lines 80-83).                                                 *)
(***************************************************************************)
gnoiMethods ==
    [k \in {<<"system", "SetPackage">>, <<"system", "Reboot">>,
            <<"system", "KillProcess">>, <<"system", "SwitchControlProcessor">>,
            <<"system", "CancelReboot">>, <<"system", "Ping">>,
            <<"system", "Traceroute">>, <<"system", "Time">>,
            <<"system", "RebootStatus">>} |->
        k[2] \in {"SetPackage", "Reboot", "KillProcess", "SwitchControlProcessor",
                  "CancelReboot"}]

gnmiMethods == [m \in {"Set", "Get", "Subscribe"} |-> m = "Set"]

writeOps == {"Reboot", "KillProcess", "SetPackage", "SwitchControlProcessor", "CancelReboot"}

\* strings.Contains(fullMethod, "grpc.reflection") || ... "grpc.health"
SkipsAuth(fm) ==
    /\ Len(fm) >= 2
    /\ \E i \in 1 .. Len(fm[2]) - 1 :
           fm[2][i] = "grpc" /\ fm[2][i + 1] \in {"reflection", "health"}

(***************************************************************************)
(* parseMethod of part_003 (lines 85-143): the service class to authorize  *)
(* against ("" skips authorization) and whether the method writes.  The    *)
(* "Invalid gNOI service name" branch (124-125) cannot be taken: a name    *)
(* with the prefix "gnoi." splits into at least two segments.              *)
(***************************************************************************)
parseMethodTable(fm) ==
    IF SkipsAuth(fm) THEN <<"", FALSE>>
    ELSE IF Len(fm) < 3 THEN <<"unknown", FALSE>>
    ELSE LET svc == fm[2]
             m   == fm[3]
         IN  IF Len(svc) >= 2 /\ svc[1] = "gnoi"
             THEN IF <<svc[2], m>> \in DOMAIN gnoiMethods
                  THEN <<"gnoi", gnoiMethods[<<svc[2], m>>]>>
                  ELSE <<"gnoi", FALSE>>
             ELSE IF svc = <<"gnmi", "gNMI">>
             THEN IF m \in DOMAIN gnmiMethods
                  THEN <<"gnmi", gnmiMethods[m]>>
                  ELSE <<"gnmi", FALSE>>
             ELSE <<"unknown", FALSE>>

(***************************************************************************)
(* parseMethod of part_004 (lines 62-118): only "/gnoi.system.System/" and *)
(* "/gnmi.gNMI/" are recognised, by substring.                             *)
(***************************************************************************)
parseMethodSwitch(fm) ==
    IF SkipsAuth(fm) THEN <<"", FALSE>>
    ELSE IF Len(fm) >= 3 /\ fm[2] = <<"gnoi", "system", "System">>
    THEN <<"gnoi", fm[3] \in writeOps>>
    ELSE IF Len(fm) >= 3 /\ fm[2] = <<"gnmi", "gNMI">>
    THEN <<"gnmi", fm[3] = "Set">>
    ELSE <<"unknown", FALSE>>

parseMethod(fm) == IF parser = "table" THEN parseMethodTable(fm) ELSE parseMethodSwitch(fm)

(***************************************************************************)
(* extractCN (builder.go:305-327): no TLS info on an insecure server, no   *)
(* verified chain, or an empty CN is an error.                             *)
(***************************************************************************)
extractCN(cl) ==
    IF ~tls THEN "error"
    ELSE IF Cert[cl] \in {NoCert, ""} THEN "error"
    ELSE Cert[cl]

\* getRoles (builder.go:330-339): an empty role list is an error.
getRoles(cn) == RolesOf[cn]

\* hasAccess with the write check of readonly left out.
RECURSIVE hasAccessReadonlyWrites(_, _, _)
hasAccessReadonlyWrites(roles, service, writeAccess) ==
    IF roles = <<>> THEN FALSE
    ELSE LET r == Head(roles)
         IN  IF r.svc = service /\ r.level \in {"readwrite", "readonly"} THEN TRUE
             ELSE IF r.svc = service /\ r.level = "noaccess" THEN FALSE
             ELSE hasAccessReadonlyWrites(Tail(roles), service, writeAccess)

(***************************************************************************)
(* hasAccess (builder.go:342-369): the roles in ConfigDB order; the first  *)
(* role of the service that decides, decides.  HasPrefix(role, service)    *)
(* with TrimPrefix(role, service+"_") selects a case only when the role's  *)
(* service half is the service itself; any other level falls through.     *)
(***************************************************************************)
RECURSIVE hasAccess(_, _, _)
hasAccess(roles, service, writeAccess) ==
    IF roles = <<>> THEN FALSE
    ELSE LET r == Head(roles)
         IN  IF r.svc = service /\ r.level = "readwrite" THEN TRUE
             ELSE IF r.svc = service /\ r.level = "readonly" /\ ~writeAccess THEN TRUE
             ELSE IF r.svc = service /\ r.level = "noaccess" THEN FALSE
             ELSE hasAccess(Tail(roles), service, writeAccess)

\* CertAuthorizer.CheckAccess (builder.go:279-302): the status it returns.
CheckAccess(cl, service, writeAccess) ==
    LET cn == extractCN(cl)
    IN  IF cn = "error" THEN "Unauthenticated"
        ELSE IF getRoles(cn) = <<>> THEN "Unauthenticated"
        ELSE IF hasAccess(getRoles(cn), service, writeAccess) THEN "handler"
        ELSE "PermissionDenied"

(***************************************************************************)
(* NewServerWithAuth (server_with_auth.go:14-54): with a certificate       *)
(* manager the server takes TLS credentials, unless GetTLSConfig fails and *)
(* no server is returned; with an authorizer it installs both             *)
(* interceptors.  NewInsecureServerWithAuth (57-70) is the case of no     *)
(* certificate manager and an authorizer, and always returns a server.     *)
(***************************************************************************)
Init ==
    /\ tls \in BOOLEAN
    /\ authz \in BOOLEAN
    /\ parser \in {"table", "switch"}
    /\ built \in {TRUE, ~tls}
    /\ \E pick \in [Calls -> UNION {CallChoices[c] : c \in Calls}] :
          /\ \A c \in Calls : pick[c] \in CallChoices[c]
          /\ call = [c \in Calls |-> [kind |-> pick[c].kind, client |-> pick[c].client,
                                       fm |-> pick[c].fm, outcome |-> "pending"]]

\* The server without an authorizer: the RPC goes straight to its handler.
NoInterceptor(c) ==
    /\ built
    /\ ~authz
    /\ call[c].outcome = "pending"
    /\ call' = [call EXCEPT ![c].outcome = "handler"]
    /\ UNCHANGED <<tls, authz, parser, built>>

\* The decision both interceptors take: skip the check for the services
\* parseMethod clears, else return CheckAccess's error or run the handler.
Authorize(c) ==
    LET p == parseMethod(call[c].fm)
    IN  IF p[1] = "" THEN "handler" ELSE CheckAccess(call[c].client, p[1], p[2])

\* AuthMiddleware (part_003:12-34): the unary interceptor.
UnaryIntercept(c) ==
    /\ built
    /\ authz
    /\ call[c].kind = "unary"
    /\ call[c].outcome = "pending"
    /\ call' = [call EXCEPT ![c].outcome = Authorize(c)]
    /\ UNCHANGED <<tls, authz, parser, built>>

\* StreamAuthMiddleware (part_003:37-59): the stream interceptor, checked
\* once when the stream opens.
StreamIntercept(c) ==
    /\ built
    /\ authz
    /\ call[c].kind = "stream"
    /\ call[c].outcome = "pending"
    /\ call' = [call EXCEPT ![c].outcome = Authorize(c)]
    /\ UNCHANGED <<tls, authz, parser, built>>

Next == \E c \in Calls : NoInterceptor(c) \/ UnaryIntercept(c) \/ StreamIntercept(c)

Spec == Init /\ [][Next]_vars

(***************************************************************************)
(* The policy the server documents (AUTHORIZATION_DEMO.md, "Role-Based     *)
(* Access Control" and "Method-to-Service Mapping"; middleware_test.go:    *)
(* 153-156 for the File service): a role is "{service}_{level}"; noaccess  *)
(* explicitly denies; readwrite grants everything, readonly grants reads;  *)
(* Put and Remove of gNOI File, the five System operations and gNMI Set    *)
(* write.  Reflection and health checks are not authorized.                *)
(***************************************************************************)
PolicyService(fm) ==
    IF SkipsAuth(fm) THEN ""
    ELSE IF Len(fm) >= 3 /\ Len(fm[2]) >= 2 /\ fm[2][1] = "gnoi" THEN "gnoi"
    ELSE IF Len(fm) >= 3 /\ fm[2] = <<"gnmi", "gNMI">> THEN "gnmi"
    ELSE "unknown"

PolicyWrite(fm) ==
    /\ Len(fm) >= 3
    /\ \/ fm[2] = <<"gnoi", "system", "System">> /\ fm[3] \in writeOps
       \/ fm[2] = <<"gnoi", "file", "File">> /\ fm[3] \in {"Put", "Remove"}
       \/ fm[2] = <<"gnmi", "gNMI">> /\ fm[3] = "Set"

PolicyGrants(roles, svc, w) ==
    LET has(level) == \E i \in 1 .. Len(roles) : roles[i] = Role(svc, level)
    IN  ~has("noaccess") /\ (has("readwrite") \/ (has("readonly") /\ ~w))

PolicyOutcome(c) ==
    LET fm == call[c].fm
        cn == extractCN(call[c].client)
    IN  IF ~authz \/ PolicyService(fm) = "" THEN "handler"
        ELSE IF cn = "error" THEN "Unauthenticated"
        ELSE IF RolesOf[cn] = <<>> THEN "Unauthenticated"
        ELSE IF PolicyGrants(RolesOf[cn], PolicyService(fm), PolicyWrite(fm)) THEN "handler"
        ELSE "PermissionDenied"

(***************************************************************************)
(* Properties                                                              *)
(***************************************************************************)

\* Every RPC the interceptors decide gets what the documented policy says:
\* the handler runs exactly when the client's certificate, its ConfigDB
\* roles and the method's read/write class allow it, and a refusal carries
\* Unauthenticated or PermissionDenied as CheckAccess documents.
AuthorizationMatchesPolicy ==
    \A c \in Calls : call[c].outcome # "pending" => call[c].outcome = PolicyOutcome(c)
=============================================================================
