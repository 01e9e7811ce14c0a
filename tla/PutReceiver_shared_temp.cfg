\* A Put stream to pA and one to pA, or to pA + ".tmp", the first one's
\* temporary file.
CONSTANTS
    s1 = s1
    s2 = s2
    r1 = r1
    pA = pA
    pB = pB
    pEtc = pEtc
    d1 = d1
    d2 = d2
    Sessions = {s1, s2}
    Removers = {}
    Bases = {pA, pB, pEtc}
    AllowedBases = {pA, pB}
    Targets <- SharedTempTargets
    RmTargets <- RemoveTargets
    Data = {d1, d2}
    MaxContent = 2
    Zero = Zero
    BadDigest = BadDigest
    None = None
SPECIFICATION Spec
\* Every handler returns; the goroutines then stop.
CHECK_DEADLOCK FALSE
INVARIANT DestinationVerified
