\* Two concurrent TransferToRemote calls to different destinations, one of
\* which already holds an older, longer file.
CONSTANTS
    r1 = r1
    r2 = r2
    pA = pA
    pB = pB
    pEtc = pEtc
    u1 = u1
    u2 = u2
    u3 = u3
    a = a
    b = b
    ad1 = ad1
    Requests = {r1, r2}
    ReqChoices <- DistinctChoices
    Paths = {pA, pB, pEtc}
    Allowed = {pA, pB}
    URLs = {u1, u2, u3}
    Source <- MCSource
    Data = {a, b}
    MaxFileSize = 2
    InContainer = TRUE
    Preexisting <- MCPreexisting
    Old = Old
    Zero = Zero
    None = None
    DPUs = {"0", "1"}
    Addrs = {ad1}
    Midplane <- MCMidplane
    ProxyInstalled = TRUE
    HasResolver = TRUE
SPECIFICATION Spec
\* Every call ends answered; the goroutines then stop.
CHECK_DEADLOCK FALSE
INVARIANT TypeOK
INVARIANT ReturnedDigestIsSource
INVARIANT DPUCopyIsSource
PROPERTY EveryRequestAnswered
