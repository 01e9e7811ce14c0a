-------------------------- MODULE MCServerBuilder --------------------------
(***************************************************************************)
(* A model-checking instance of ServerBuilder.                             *)
(***************************************************************************)
EXTENDS ServerBuilder

\* The command-line configuration with mTLS on, listening on its own
\* address, with the container root.
MCGlobal ==
    [Addr |-> "g:8080", RootFS |-> "/mnt/host", TLSEnabled |-> TRUE, MTLSEnabled |-> TRUE,
     TLSCertFile |-> "s.crt", TLSKeyFile |-> "s.key", TLSCACertFile |-> "ca.crt"]

\* Slices as a deployment passes them: an implemented service after a
\* future one (containerz), two implemented ones, and an empty slice.
MCServiceLists ==
    {<<>>, <<"gnoi.containerz", "gnmi">>, <<"gnoi.file", "gnoi.system">>}
=============================================================================
