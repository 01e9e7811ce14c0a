------------------------ MODULE MCTransferToRemote -------------------------
(***************************************************************************)
(* Model-checking instances of TransferToRemote.                          *)
(***************************************************************************)
EXTENDS TransferToRemote

CONSTANTS r1, r2, pA, pB, pEtc, u1, u2, u3, a, b, ad1

\* u1 serves one chunk, u2 two, u3 three: more than MaxFileSize = 2.
MCSource == [u \in URLs |-> IF u = u1 THEN <<a>> ELSE IF u = u2 THEN <<b, b>>
                            ELSE <<a, b, a>>]

Good(p, u) == [isNil |-> FALSE, hasRemote |-> TRUE, path |-> p, protocol |-> "HTTP",
               url |-> u, targetType |-> "", targetIndex |-> ""]

\* The same request carried to DPU id with the routing metadata.
ToDPU(p, u, id) == [Good(p, u) EXCEPT !.targetType = "dpu", !.targetIndex = id]

\* DPU "0" is reachable on the midplane; DPU "1" has no entry.
MCMidplane == [id \in DPUs |-> IF id = "0" THEN [addr |-> ad1, access |-> TRUE] ELSE None]

\* The first call carries one of several requests: good ones, one per check
\* of the local handler that can reject it, and one routed to a DPU; the
\* second downloads to another destination, locally or on DPU "0".
DistinctChoices ==
    [r \in Requests |->
        IF r = r1
        THEN {Good(pA, u1), Good(pA, u3),
              [Good(pA, u1) EXCEPT !.isNil = TRUE],
              [Good(pA, u1) EXCEPT !.hasRemote = FALSE],
              [Good(pA, u1) EXCEPT !.path = ""],
              Good(pEtc, u1),
              [Good(pA, u1) EXCEPT !.protocol = "SFTP"],
              [Good(pA, u1) EXCEPT !.url = ""],
              ToDPU(pEtc, u1, "0"), ToDPU(pA, u3, "0"), ToDPU(pA, u1, "1"),
              [Good(pA, u1) EXCEPT !.targetType = "dpu"],
              [Good(pA, u1) EXCEPT !.targetType = "npu", !.targetIndex = "0"]}
        ELSE {Good(pB, u2), ToDPU(pB, u2, "0")}]

\* Scenario C of spec.md 8: /etc/passwd routed to DPU "0", beside a valid
\* transfer to the same DPU.
ScenarioCChoices ==
    [r \in Requests |-> IF r = r1 THEN {ToDPU(pEtc, u1, "0")} ELSE {ToDPU(pB, u2, "0")}]

\* Two valid transfers to DPU "0", whose midplane entry may change under them.
DPUChoices ==
    [r \in Requests |-> IF r = r1 THEN {ToDPU(pA, u1, "0")} ELSE {ToDPU(pB, u2, "0")}]

\* pA already holds an older file, two chunks long.
MCPreexisting == <<pA>>

\* Two calls downloading different URLs to the same destination.
SameChoices == [r \in Requests |-> IF r = r1 THEN {Good(pA, u1)} ELSE {Good(pA, u2)}]
=============================================================================
