-------------------------- MODULE ConnectionCache --------------------------
(***************************************************************************)
(* dpuproxy.GetDPUConnection and the DPU resolver (spec.md 4.2, 4.3; the   *)
(* package is not in the repository, its tests are in                     *)
(* pkg/interceptors/dpuproxy/singleton_test.go).  One cached connection    *)
(* per DPU identifier, dialled lazily after resolving the identifier to    *)
(* an address through the state table CHASSIS_MIDPLANE_TABLE.  A lock per *)
(* identifier serialises the check-and-dial, as spec.md 4.3 requires.      *)
(*                                                                         *)
(* A caller runs GetConnection in steps: CCLock, CCResolve, CCDial; its    *)
(* progress is the caller's, kept in ccpc[r].                              *)
(***************************************************************************)
EXTENDS Naturals

CONSTANTS
    Callers,         \* the requests that may ask for a connection
    DPUs,            \* DPU identifiers (the target-index metadata)
    Addrs,           \* midplane addresses
    ProxyInstalled,  \* SetDefaultProxy was called with a proxy
    HasResolver,     \* that proxy was built with a resolver
    NoConn           \* no connection

VARIABLES
    midplane,   \* midplane[id]: the state table entry, [addr, access], or NoConn
    cache,      \* cache[id]: the address of the cached connection, or NoConn
    lock,       \* lock[id]: the caller holding id's lock, or NoConn
    ccpc,       \* ccpc[r]: where caller r is in GetConnection
    ccid,       \* ccid[r]: the identifier caller r asked for
    conn        \* conn[r]: the connection (its address) r got, or NoConn

ccVars == <<midplane, cache, lock, ccpc, ccid, conn>>

CCPcs == {"idle", "lock", "resolve", "dial", "ok", "NotInitialized", "NoResolver",
          "NotFound", "Unavailable"}

\* What GetConnection returned once it has returned.
CCErrors == {"NotInitialized", "NoResolver", "NotFound", "Unavailable"}

Entry == [addr : Addrs, access : BOOLEAN]

CCTypeOK ==
    /\ midplane \in [DPUs -> Entry \cup {NoConn}]
    /\ cache \in [DPUs -> Addrs \cup {NoConn}]
    /\ lock \in [DPUs -> Callers \cup {NoConn}]
    /\ ccpc \in [Callers -> CCPcs]
    /\ conn \in [Callers -> Addrs \cup {NoConn}]

CCInit(table) ==
    /\ midplane = table
    /\ cache = [id \in DPUs |-> NoConn]
    /\ lock = [id \in DPUs |-> NoConn]
    /\ ccpc = [r \in Callers |-> "idle"]
    /\ ccid = [r \in Callers |-> NoConn]
    /\ conn = [r \in Callers |-> NoConn]

\* GetDPUConnection(ctx, id): no proxy installed, or a proxy without a
\* resolver, fails at once; otherwise take id's lock.
CCCall(r, id) ==
    /\ ccpc[r] = "idle"
    /\ ccid' = [ccid EXCEPT ![r] = id]
    /\ ccpc' = [ccpc EXCEPT ![r] = IF ~ProxyInstalled THEN "NotInitialized"
                                   ELSE IF ~HasResolver THEN "NoResolver"
                                   ELSE "lock"]
    /\ UNCHANGED <<midplane, cache, lock, conn>>

CCLock(r) ==
    /\ ccpc[r] = "lock"
    /\ lock[ccid[r]] = NoConn
    /\ lock' = [lock EXCEPT ![ccid[r]] = r]
    /\ ccpc' = [ccpc EXCEPT ![r] = "resolve"]
    /\ UNCHANGED <<midplane, cache, ccid, conn>>

\* Resolve the identifier afresh: no entry is NotFound, access "False" is
\* Unavailable (both release the lock); else reuse the cached connection
\* or go on to dial.
CCResolve(r) ==
    LET id == ccid[r]
        e  == midplane[id]
    IN
    /\ ccpc[r] = "resolve"
    /\ IF e = NoConn \/ ~e.access
       THEN /\ ccpc' = [ccpc EXCEPT ![r] = IF e = NoConn THEN "NotFound" ELSE "Unavailable"]
            /\ lock' = [lock EXCEPT ![id] = NoConn]
            /\ UNCHANGED conn
       ELSE IF cache[id] # NoConn
       THEN /\ ccpc' = [ccpc EXCEPT ![r] = "ok"]
            /\ conn' = [conn EXCEPT ![r] = cache[id]]
            /\ lock' = [lock EXCEPT ![id] = NoConn]
       ELSE /\ ccpc' = [ccpc EXCEPT ![r] = "dial"]
            /\ conn' = [conn EXCEPT ![r] = e.addr]
            /\ UNCHANGED lock
    /\ UNCHANGED <<midplane, cache, ccid>>

\* Dial the address resolved, cache the connection, release the lock.
CCDial(r) ==
    LET id == ccid[r]
    IN
    /\ ccpc[r] = "dial"
    /\ cache' = [cache EXCEPT ![id] = conn[r]]
    /\ lock' = [lock EXCEPT ![id] = NoConn]
    /\ ccpc' = [ccpc EXCEPT ![r] = "ok"]
    /\ UNCHANGED <<midplane, ccid, conn>>

\* The DPU's midplane entry changes: it goes down, comes up, or moves.
MidplaneChange(id) ==
    /\ \E e \in Entry \cup {NoConn} : midplane' = [midplane EXCEPT ![id] = e]
    /\ UNCHANGED <<cache, lock, ccpc, ccid, conn>>

CCStep(r) == CCLock(r) \/ CCResolve(r) \/ CCDial(r)
=============================================================================
