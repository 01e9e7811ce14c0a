\* Every sequence of up to three builder calls, then Build.
CONSTANTS
    Addrs = {"", ":50055"}
    Roots = {"", "/"}
    Files = {"s.crt", "ca.crt"}
    ServiceLists <- MCServiceLists
    Global <- MCGlobal
    MaxCalls = 3
    BuildError = BuildError
    None = None
SPECIFICATION Spec
\* The program builds one server and starts serving; the builder is done.
CHECK_DEADLOCK FALSE
INVARIANT BuiltAsConfigured
INVARIANT RegisteredAsEnabled
