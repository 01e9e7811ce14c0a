--------------------------- MODULE ServerBuilder ---------------------------
(***************************************************************************)
(* The ServerBuilder of pkg/server/builder.go: a caller makes a sequence   *)
(* of fluent calls on one builder, then Build.  Build falls back to the    *)
(* global configuration for an empty address or root, and for TLS when no *)
(* TLS method was called; it creates the server (NewServerWithTLS, not in  *)
(* the repository, which may fail) and registers the enabled services it   *)
(* implements.  `history' records the calls made, for the properties.      *)
(***************************************************************************)
EXTENDS Naturals, Sequences, SequencesExt, Functions

CONSTANTS
    Addrs,         \* addresses a caller may pass, "" among them
    Roots,         \* root filesystem paths a caller may pass, "" among them
    Files,         \* certificate, key and CA file names
    ServiceLists,  \* the []string slices passed to EnableServices
    Global,        \* config.Global: the command-line configuration
    MaxCalls,      \* bound on the builder calls before Build
    BuildError,    \* the error NewServerWithTLS returned
    None

\* The services registerServices knows, in the order it registers them.
Implemented == {"gnoi.system", "gnmi", "gnoi.file"}

\* tlsConfig (lines 57-63); Go's zero values for the fields not set.
TLSConfigs ==
    [enabled : BOOLEAN, mtls : BOOLEAN, cert : Files \cup {""},
     key : Files \cup {""}, ca : Files \cup {""}]

VARIABLES
    addr, rootFS, services, tlsConfig,  \* the ServerBuilder fields
    server,                             \* None, BuildError, or the built server
    history                             \* the calls made so far

vars == <<addr, rootFS, services, tlsConfig, server, history>>

\* NewServerBuilder (lines 67-71): an empty services map, no TLS config.
Init ==
    /\ addr = "" /\ rootFS = "" /\ services = {} /\ tlsConfig = None
    /\ server = None /\ history = <<>>

\* Every builder method: recorded, and only before Build.
Call(c) ==
    /\ server = None
    /\ Len(history) < MaxCalls
    /\ history' = Append(history, c)
    /\ UNCHANGED server

WithAddress(a) ==
    /\ Call([op |-> "WithAddress", arg |-> a])
    /\ addr' = a
    /\ UNCHANGED <<rootFS, services, tlsConfig>>

WithRootFS(r) ==
    /\ Call([op |-> "WithRootFS", arg |-> r])
    /\ rootFS' = r
    /\ UNCHANGED <<addr, services, tlsConfig>>

\* WithTLS, WithMTLS and WithoutTLS each replace the whole TLS config.
WithTLS(cert, key) ==
    /\ Call([op |-> "WithTLS", cert |-> cert, key |-> key])
    /\ tlsConfig' = [enabled |-> TRUE, mtls |-> FALSE, cert |-> cert, key |-> key, ca |-> ""]
    /\ UNCHANGED <<addr, rootFS, services>>

WithMTLS(cert, key, ca) ==
    /\ Call([op |-> "WithMTLS", cert |-> cert, key |-> key, ca |-> ca])
    /\ tlsConfig' = [enabled |-> TRUE, mtls |-> TRUE, cert |-> cert, key |-> key, ca |-> ca]
    /\ UNCHANGED <<addr, rootFS, services>>

\* WithoutTLS setting the config back to nil, so that Build falls back to
\* the global configuration.
WithoutTLSNil ==
    /\ Call([op |-> "WithoutTLS"])
    /\ tlsConfig' = None
    /\ UNCHANGED <<addr, rootFS, services>>

WithoutTLS ==
    /\ Call([op |-> "WithoutTLS"])
    /\ tlsConfig' = [enabled |-> FALSE, mtls |-> FALSE, cert |-> "", key |-> "", ca |-> ""]
    /\ UNCHANGED <<addr, rootFS, services>>

\* EnableGNOISystem, EnableGNMI, EnableGNOIFile: set one map entry.
Enable(name) ==
    /\ Call([op |-> "Enable", names |-> <<name>>])
    /\ services' = services \cup {name}
    /\ UNCHANGED <<addr, rootFS, tlsConfig>>

\* EnableServices with the loop starting at the second name.
EnableServicesSkipFirst(list) ==
    /\ Call([op |-> "Enable", names |-> list])
    /\ services' = services \cup {list[i] : i \in 2 .. Len(list)}
    /\ UNCHANGED <<addr, rootFS, tlsConfig>>

\* EnableServices (lines 143-148): any name at all is accepted.
EnableServices(list) ==
    /\ Call([op |-> "Enable", names |-> list])
    /\ services' = services \cup Range(list)
    /\ UNCHANGED <<addr, rootFS, tlsConfig>>

\* registerServices (lines 207-242): each implemented service that is
\* enabled is registered with the root filesystem; others are ignored.
registerServices(root) == [svc : services \cap Implemented, root : {root}]

(***************************************************************************)
(* Build (lines 153-203): the address and root fall back to the global     *)
(* ones when empty; the TLS fields come from the builder's config when it  *)
(* is set and from the global one otherwise; a failing server creation    *)
(* returns the error and registers nothing.                                *)
(***************************************************************************)
Build ==
    LET a   == IF addr = "" THEN Global.Addr ELSE addr
        r   == IF rootFS = "" THEN Global.RootFS ELSE rootFS
        tls == IF tlsConfig # None THEN tlsConfig
               ELSE [enabled |-> Global.TLSEnabled, mtls |-> Global.MTLSEnabled,
                     cert |-> Global.TLSCertFile, key |-> Global.TLSKeyFile,
                     ca |-> Global.TLSCACertFile]
    IN
    /\ server = None
    /\ \/ server' = BuildError
       \/ server' = [addr |-> a, tls |-> tls, registered |-> registerServices(r)]
    /\ UNCHANGED <<addr, rootFS, services, tlsConfig, history>>

Next ==
    \/ \E a \in Addrs : WithAddress(a)
    \/ \E r \in Roots : WithRootFS(r)
    \/ \E c, k \in Files : WithTLS(c, k)
    \/ \E c, k, ca \in Files : WithMTLS(c, k, ca)
    \/ WithoutTLS
    \/ \E name \in Implemented : Enable(name)
    \/ \E list \in ServiceLists : EnableServices(list)
    \/ Build

Spec == Init /\ [][Next]_vars

(***************************************************************************)
(* Properties                                                              *)
(***************************************************************************)

\* The last call of one of the methods ops, or None.
LastCall(ops) ==
    LET s == SelectSeq(history, LAMBDA c : c.op \in ops)
    IN  IF s = <<>> THEN None ELSE Last(s)

\* What a setter's doc comment promises: the last call's argument, unless
\* the setter was never called or was given "" ("If not called, the server
\* will use the global configuration address").
Chosen(op, default) ==
    LET c == LastCall({op}) IN IF c = None \/ c.arg = "" THEN default ELSE c.arg

\* The TLS settings the last of WithTLS, WithMTLS and WithoutTLS asks for
\* ("This overrides global TLS configuration"), or the global ones.
RequestedTLS ==
    LET c == LastCall({"WithTLS", "WithMTLS", "WithoutTLS"})
    IN  CASE c = None -> [enabled |-> Global.TLSEnabled, mtls |-> Global.MTLSEnabled,
                          cert |-> Global.TLSCertFile, key |-> Global.TLSKeyFile,
                          ca |-> Global.TLSCACertFile]
          [] c.op = "WithTLS" -> [enabled |-> TRUE, mtls |-> FALSE, cert |-> c.cert,
                                  key |-> c.key, ca |-> ""]
          [] c.op = "WithMTLS" -> [enabled |-> TRUE, mtls |-> TRUE, cert |-> c.cert,
                                   key |-> c.key, ca |-> c.ca]
          [] c.op = "WithoutTLS" -> [enabled |-> FALSE, mtls |-> FALSE, cert |-> "",
                                     key |-> "", ca |-> ""]

Built == server \notin {None, BuildError}

\* A built server listens where the last WithAddress asked, and uses the
\* TLS mode of the last TLS method called, whatever calls came between:
\* WithoutTLS disables TLS even when the global configuration enables it,
\* and WithTLS after WithMTLS leaves no client verification behind.
BuiltAsConfigured ==
    Built => server.addr = Chosen("WithAddress", Global.Addr) /\ server.tls = RequestedTLS

\* A built server serves exactly the implemented services some call
\* enabled, every one on the root filesystem the caller chose; a failed
\* Build serves nothing.
RegisteredAsEnabled ==
    Built =>
        server.registered =
            [svc : Implemented \cap UNION {Range(history[i].names) :
                                             i \in {j \in DOMAIN history : history[j].op = "Enable"}},
             root : {Chosen("WithRootFS", Global.RootFS)}]
=============================================================================
