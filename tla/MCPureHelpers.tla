--------------------------- MODULE MCPureHelpers ---------------------------
(***************************************************************************)
(* Model-checking instance of PureHelpers: a 4-bit int, where the same     *)
(* wrap-around happens as in a 64-bit one, and strings of up to 2 bytes.   *)
(***************************************************************************)
EXTENDS PureHelpers
=============================================================================
