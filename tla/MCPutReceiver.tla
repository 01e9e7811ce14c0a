--------------------------- MODULE MCPutReceiver ---------------------------
(***************************************************************************)
(* Model-checking instances of PutReceiver.                               *)
(***************************************************************************)
EXTENDS PutReceiver

CONSTANTS s1, s2, r1, pA, pB, pEtc, d1, d2

\* Two streams to different names, one of which may also name a path
\* outside the allow-list; a Remove of one destination, of its temporary
\* file, or of a forbidden path.
DistinctTargets == [s \in Sessions |-> IF s = s1 THEN {<<pA, 0>>, <<pEtc, 0>>} ELSE {<<pB, 0>>}]
RemoveTargets == [r \in Removers |-> {<<pA, 0>>, <<pA, 1>>, <<pEtc, 0>>}]

\* A stream to pA, and one to pA itself or to pA + ".tmp": the two names
\* whose temporary files are, or is, the first one's.
SharedTempTargets == [s \in Sessions |-> IF s = s1 THEN {<<pA, 0>>} ELSE {<<pA, 0>>, <<pA, 1>>}]
=============================================================================
