\* Two Put streams to different destinations, a concurrent Remove call and a
\* crash.  Streams carry up to two chunks of one value, so a file written in
\* part differs from the whole one by its length.
CONSTANTS
    s1 = s1
    s2 = s2
    r1 = r1
    pA = pA
    pB = pB
    pEtc = pEtc
    d1 = d1
    d2 = d2
    Sessions = {s1, s2}
    Removers = {r1}
    Bases = {pA, pB, pEtc}
    AllowedBases = {pA, pB}
    Targets <- DistinctTargets
    RmTargets <- RemoveTargets
    Data = {d1}
    MaxContent = 2
    Zero = Zero
    BadDigest = BadDigest
    None = None
SPECIFICATION Spec
\* Every handler returns; the goroutines then stop.
CHECK_DEADLOCK FALSE
INVARIANT TypeOK
INVARIANT DestinationVerified
INVARIANT NoOrphanTemp
PROPERTY EveryStreamAnswered
PROPERTY AtomicStoreRefined
