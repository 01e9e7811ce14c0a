---------------------------- MODULE PutReceiver ----------------------------
(***************************************************************************)
(* The gNOI File service's file handlers of part_000: HandlePut (469-592), *)
(* the server side of the Put stream, and HandleFileRemove (738-786).      *)
(* Several Put streams and Remove calls run at once, each on its own       *)
(* goroutine, against one filesystem (PosixFS).                            *)
(*                                                                         *)
(* A path is a base name and a count of ".tmp" suffixes: <<b, 0>> is b,    *)
(* <<b, 1>> is b + ".tmp", the temporary file HandlePut writes for b       *)
(* (line 521).  Paths are clean and translatePathForContainer is a         *)
(* bijection on them, so they name host files directly; validatePath is    *)
(* the set Allowed (its algorithm is checked in PathValidator).            *)
(*                                                                         *)
(* Bytes are abstracted to chunks (Data); the MD5 digest is an ideal       *)
(* fingerprint: two digests are equal iff the byte sequences are.  File    *)
(* permission bits are left out: no property is about them.                *)
(***************************************************************************)
EXTENDS Naturals, Sequences, FiniteSets

CONSTANTS
    Sessions,     \* concurrent Put streams
    Removers,     \* concurrent Remove calls
    Bases,        \* base file names
    AllowedBases, \* the bases under /tmp/ or /var/tmp/
    Targets,      \* Targets[s]: the paths stream s may name in its Open
    RmTargets,    \* RmTargets[r]: the paths Remove call r may name
    Data,         \* chunk values a Contents message may carry
    MaxContent,   \* bound on Contents messages per stream
    Zero,         \* the value read from a hole in a file
    BadDigest,    \* a Hash message that matches no byte sequence
    None          \* no inode

\* A name, or that name with ".tmp" appended once or twice.
Files == Bases \X {0, 1, 2}
Paths == Bases \X {0, 1}
Allowed == AllowedBases \X {0, 1}
Tmp(p) == <<p[1], p[2] + 1>>

ASSUME AllowedBases \subseteq Bases
ASSUME Targets \in [Sessions -> SUBSET Paths]
ASSUME RmTargets \in [Removers -> SUBSET Paths]
ASSUME MaxContent \in Nat

VARIABLES
    sess,     \* sess[s]: the state of the HandlePut goroutine serving s
    rm,       \* rm[r]: the state of the HandleFileRemove call r
    link,     \* link[f]: the inode a file name is bound to, or None
    data,     \* data[i]: the bytes of inode i
    nextIno   \* the next free inode number

vars == <<sess, rm, link, data, nextIno>>
fsVars == <<link, data, nextIno>>

\* Each stream creates at most one file.
Inodes == 1 .. Cardinality(Sessions)

INSTANCE PosixFS WITH Names <- Files, Bytes <- Data, link <- link, data <- data,
                      nextIno <- nextIno

Digest(bytes) == [md5 |-> bytes]

(***************************************************************************)
(* The PutRequest oneof {Open, Contents, Hash}.                            *)
(***************************************************************************)
OpenMsg(p) == [type |-> "open", path |-> p]
ContentMsg(c) == [type |-> "content", chunk |-> c]
HashMsg(d) == [type |-> "hash", digest |-> d]

ContentSeqs == UNION {[1 .. n -> Data] : n \in 0 .. MaxContent}
AsContents(cs) == [i \in 1 .. Len(cs) |-> ContentMsg(cs[i])]

\* What a client may send on stream s: Open, Contents and a right or a
\* wrong Hash; a stream cut before its Hash; and streams out of order.
Streams(s) ==
    LET body(p, cs) == <<OpenMsg(p)>> \o AsContents(cs)
    IN  UNION {{body(p, cs) \o <<HashMsg(d)>> : d \in {Digest(cs), BadDigest}} :
                    p \in Targets[s], cs \in ContentSeqs}
        \cup {body(p, cs) : p \in Targets[s], cs \in ContentSeqs}
        \cup {<<>>} \cup {<<ContentMsg(c)>> : c \in Data}
        \cup {<<OpenMsg(p), OpenMsg(p)>> : p \in Targets[s]}

Digests == {Digest(cs) : cs \in ContentSeqs} \cup {BadDigest}
Msgs == {OpenMsg(p) : p \in Paths} \cup {ContentMsg(c) : c \in Data}
            \cup {HashMsg(d) : d \in Digests}

\* Steps of HandlePut; "Cleanup" is the deferred close-and-remove of the
\* temporary file, run on every return once the file was created.
Phases == {"AwaitOpen", "Receiving", "Closing", "Renaming", "Cleanup", "Done"}
Codes == {"none", "OK", "InvalidArgument", "Internal", "DataLoss", "Canceled",
          "NotFound", "PermissionDenied", "Unavailable"}

Session == [phase : Phases, inbox : Seq(Msgs), dest : Paths \cup {None},
            ino : Inodes \cup {None}, acc : Seq(Data), sent : Digests \cup {None},
            code : Codes]

TypeOK ==
    /\ sess \in [Sessions -> Session]
    /\ rm \in [Removers -> [target : Paths, code : Codes]]
    /\ FSTypeOK

Init ==
    /\ sess \in {f \in [Sessions -> [phase : {"AwaitOpen"},
                                      inbox : UNION {Streams(s) : s \in Sessions},
                                      dest : {None}, ino : {None}, acc : {<<>>},
                                      sent : {None}, code : {"none"}]] :
                    \A s \in Sessions : f[s].inbox \in Streams(s)}
    /\ rm \in {f \in [Removers -> [target : Paths, code : {"none"}]] :
                  \A r \in Removers : f[r].target \in RmTargets[r]}
    /\ link = [f \in Files |-> None]
    /\ data = [i \in Inodes |-> <<>>]
    /\ nextIno = 1

\* What stream s's next Recv returns: a message type, or "eof" once the
\* client has closed its side.
NextKind(s) == IF sess[s].inbox = <<>> THEN "eof" ELSE Head(sess[s].inbox).type

\* A return before the temporary file exists: nothing is deferred.
Reject(s, code) ==
    sess' = [sess EXCEPT ![s].phase = "Done", ![s].code = code,
                         ![s].inbox = IF @ = <<>> THEN @ ELSE Tail(@)]

\* A return once the temporary file was created: the deferred close and
\* remove still runs.
Fail(s, code) ==
    sess' = [sess EXCEPT ![s].phase = "Cleanup", ![s].code = code, ![s].ino = None,
                         ![s].inbox = IF @ = <<>> THEN @ ELSE Tail(@)]

\* Opening the destination itself instead of a temporary file.
RecvOpenInPlace(s) ==
    LET m == Head(sess[s].inbox)
    IN
    /\ sess[s].phase = "AwaitOpen"
    /\ NextKind(s) = "open"
    /\ m.path \in Allowed
    /\ sess' = [sess EXCEPT ![s].phase = "Receiving", ![s].dest = m.path,
                            ![s].ino = InodeFor(m.path), ![s].inbox = Tail(@)]
    /\ Create(m.path)

(***************************************************************************)
(* Steps 1-4 (lines 490-536): the first message must be Open with a valid  *)
(* remote_file; the temporary file translatedPath + ".tmp" is opened with   *)
(* O_CREATE|O_TRUNC (an existing one is truncated and shared) and the      *)
(* cleanup deferred.  The DPU headers (470-488) change nothing.            *)
(***************************************************************************)
RecvOpen(s) ==
    LET m == Head(sess[s].inbox)
    IN
    /\ sess[s].phase = "AwaitOpen"
    /\ \/ /\ NextKind(s) = "eof"
          /\ Reject(s, "Internal")
          /\ UNCHANGED fsVars
       \/ /\ NextKind(s) \in {"content", "hash"}
          /\ Reject(s, "InvalidArgument")
          /\ UNCHANGED fsVars
       \/ /\ NextKind(s) = "open"
          /\ m.path \notin Allowed
          /\ Reject(s, "InvalidArgument")
          /\ UNCHANGED fsVars
       \/ /\ NextKind(s) = "open"
          /\ m.path \in Allowed
          /\ sess' = [sess EXCEPT ![s].phase = "Receiving", ![s].dest = m.path,
                                  ![s].ino = InodeFor(Tmp(m.path)), ![s].inbox = Tail(@)]
          /\ Create(Tmp(m.path))
       \/ /\ NextKind(s) = "open"
          /\ m.path \in Allowed
          \* os.OpenFile fails (permission, no space)
          /\ Reject(s, "Internal")
          /\ UNCHANGED fsVars

(***************************************************************************)
(* Step 5 (lines 538-573), one Recv: Contents is written at the file's     *)
(* offset and fed to the hasher; Hash is compared with the hasher's sum    *)
(* (DataLoss on a mismatch); end of stream, a second Open, or a failed     *)
(* Recv ends the handler.                                                  *)
(***************************************************************************)
RecvContent(s) ==
    LET m == Head(sess[s].inbox)
    IN
    /\ sess[s].phase = "Receiving"
    /\ NextKind(s) = "content"
    /\ \/ /\ sess' = [sess EXCEPT ![s].acc = Append(@, m.chunk), ![s].inbox = Tail(@)]
          /\ Write(sess[s].ino, Len(sess[s].acc), m.chunk)
       \/ /\ Fail(s, "Internal")
          /\ UNCHANGED fsVars

\* The hash check with the comparison left out.
RecvHashUnchecked(s) ==
    /\ sess[s].phase = "Receiving"
    /\ NextKind(s) = "hash"
    /\ sess' = [sess EXCEPT ![s].phase = "Closing", ![s].inbox = Tail(@),
                            ![s].sent = Head(sess[s].inbox).digest]
    /\ UNCHANGED fsVars

RecvHash(s) ==
    LET m == Head(sess[s].inbox)
    IN
    /\ sess[s].phase = "Receiving"
    /\ NextKind(s) = "hash"
    /\ IF m.digest = Digest(sess[s].acc)
       THEN sess' = [sess EXCEPT ![s].phase = "Closing", ![s].inbox = Tail(@),
                                 ![s].sent = m.digest]
       ELSE Fail(s, "DataLoss")
    /\ UNCHANGED fsVars

\* Receiving with the end-of-stream branch left out.
RecvOtherNoEOF(s) ==
    /\ sess[s].phase = "Receiving"
    /\ NextKind(s) = "open"
    /\ Fail(s, "InvalidArgument")
    /\ UNCHANGED fsVars

RecvOther(s) ==
    /\ sess[s].phase = "Receiving"
    /\ NextKind(s) \in {"eof", "open"}
    /\ Fail(s, "InvalidArgument")
    /\ UNCHANGED fsVars

\* The client cancels the stream, or its deadline passes, during a Recv.
\* The client decides this, so no fairness covers it.
ClientCancels(s) ==
    /\ sess[s].phase = "Receiving"
    /\ Fail(s, "Canceled")
    /\ UNCHANGED <<rm, link, data, nextIno>>

(***************************************************************************)
(* Steps 7-8 (lines 575-583): close the file, then chmod the temporary     *)
(* path by name, which fails once that name is gone.                       *)
(***************************************************************************)
CloseAndChmod(s) ==
    /\ sess[s].phase = "Closing"
    /\ IF Exists(Tmp(sess[s].dest))
       THEN sess' = [sess EXCEPT ![s].phase = "Renaming", ![s].ino = None]
       ELSE Fail(s, "Internal")
    /\ UNCHANGED fsVars

\* Step 9 (lines 585-591): rename the temporary path onto the destination.
Commit(s) ==
    LET p == sess[s].dest
    IN
    /\ sess[s].phase = "Renaming"
    /\ IF Exists(Tmp(p))
       THEN /\ Rename(Tmp(p), p)
            /\ sess' = [sess EXCEPT ![s].phase = "Cleanup", ![s].code = "OK"]
       ELSE /\ Fail(s, "Internal")
            /\ UNCHANGED fsVars

\* The deferred cleanup with the remove left out.
CleanupKeepTemp(s) ==
    /\ sess[s].phase = "Cleanup"
    /\ sess' = [sess EXCEPT ![s].phase = "Done"]
    /\ UNCHANGED fsVars

\* The server process dies (killed, out of memory, container restart)
\* while streams or calls are open: each client sees its connection drop
\* (Unavailable), no deferred function runs, and the files stay on disk as
\* they are.  The environment decides this, so no fairness covers it.
ServerCrash ==
    /\ \/ \E s \in Sessions : sess[s].phase # "Done"
       \/ \E r \in Removers : rm[r].code = "none"
    /\ sess' = [s \in Sessions |->
                  IF sess[s].phase = "Done" THEN sess[s]
                  ELSE [sess[s] EXCEPT !.phase = "Done", !.code = "Unavailable", !.ino = None]]
    /\ rm' = [r \in Removers |->
                IF rm[r].code = "none" THEN [rm[r] EXCEPT !.code = "Unavailable"] ELSE rm[r]]
    /\ UNCHANGED fsVars

(***************************************************************************)
(* The deferred function (lines 526-536), run on every return after the    *)
(* temporary file was opened, success included: if a file exists at the   *)
(* temporary path now, remove it, whoever created it.                      *)
(***************************************************************************)
Cleanup(s) ==
    /\ sess[s].phase = "Cleanup"
    /\ sess' = [sess EXCEPT ![s].phase = "Done"]
    /\ Remove(Tmp(sess[s].dest))

\* A failing os.Remove returned as it is, not mapped to a status code:
\* gRPC then answers Unknown.
HandleFileRemoveRawError(r) ==
    LET p == rm[r].target
    IN
    /\ rm[r].code = "none"
    /\ \/ /\ p \notin Allowed
          /\ rm' = [rm EXCEPT ![r].code = "PermissionDenied"]
          /\ UNCHANGED fsVars
       \/ /\ p \in Allowed /\ ~Exists(p)
          /\ rm' = [rm EXCEPT ![r].code = "Unknown"]
          /\ UNCHANGED fsVars
       \/ /\ p \in Allowed /\ Exists(p)
          /\ rm' = [rm EXCEPT ![r].code = "OK"]
          /\ Remove(p)

(***************************************************************************)
(* HandleFileRemove (lines 738-786): a path outside the allow-list is      *)
(* PermissionDenied; os.Remove of a missing file is NotFound; a failing    *)
(* remove of an existing file is PermissionDenied or Internal.             *)
(***************************************************************************)
HandleFileRemove(r) ==
    LET p == rm[r].target
    IN
    /\ rm[r].code = "none"
    /\ \/ /\ p \notin Allowed
          /\ rm' = [rm EXCEPT ![r].code = "PermissionDenied"]
          /\ UNCHANGED fsVars
       \/ /\ p \in Allowed /\ ~Exists(p)
          /\ rm' = [rm EXCEPT ![r].code = "NotFound"]
          /\ UNCHANGED fsVars
       \/ /\ p \in Allowed /\ Exists(p)
          /\ rm' = [rm EXCEPT ![r].code = "OK"]
          /\ Remove(p)
       \/ /\ p \in Allowed /\ Exists(p)
          /\ \E code \in {"PermissionDenied", "Internal"} : rm' = [rm EXCEPT ![r].code = code]
          /\ UNCHANGED fsVars

Step(s) ==
    \/ RecvOpen(s)
    \/ RecvContent(s)
    \/ RecvHash(s)
    \/ RecvOther(s)
    \/ CloseAndChmod(s)
    \/ Commit(s)
    \/ Cleanup(s)

Next ==
    \/ \E s \in Sessions : Step(s) /\ UNCHANGED rm
    \/ \E s \in Sessions : ClientCancels(s)
    \/ \E r \in Removers : HandleFileRemove(r) /\ UNCHANGED sess
    \/ ServerCrash

\* Each stream and each call is served by its own goroutine, which keeps
\* running while it has a step to take.
Fairness ==
    /\ \A s \in Sessions : WF_vars(Step(s) /\ UNCHANGED rm)
    /\ \A r \in Removers : WF_vars(HandleFileRemove(r) /\ UNCHANGED sess)

Spec == Init /\ [][Next]_vars /\ Fairness

(***************************************************************************)
(* Properties                                                              *)
(***************************************************************************)

\* A destination that a Put was acknowledged for holds, while it exists,
\* exactly the bytes whose digest the client sent in the Hash of an
\* acknowledged Put to it: never a partial, mixed or unverified file
\* (temp-then-rename, line 458).
DestinationVerified ==
    \A s \in Sessions :
        sess[s].code = "OK" /\ Exists(sess[s].dest) =>
            \E t \in Sessions :
                /\ sess[t].code = "OK"
                /\ sess[t].dest = sess[s].dest
                /\ Digest(Contents(sess[s].dest)) = sess[t].sent

\* Once every stream has been answered, no temporary file is left behind:
\* each return after the temporary file was opened removes it (unless the
\* name is itself the destination of an acknowledged Put).  A stream cut
\* by a crash never returns, and its temporary file stays.
NoOrphanTemp ==
    (\A s \in Sessions : sess[s].phase = "Done") =>
        \A s \in Sessions :
            sess[s].dest # None /\ sess[s].code # "Unavailable" =>
                \/ ~Exists(Tmp(sess[s].dest))
                \/ \E t \in Sessions : sess[t].code = "OK" /\ sess[t].dest = Tmp(sess[s].dest)

(***************************************************************************)
(* Refinement of AtomicFileStore.  The abstract store is what a reader     *)
(* opening a destination by name finds; a Put offers its bytes once its    *)
(* Hash matched (sent is set only then), and the rename publishes them.    *)
(***************************************************************************)
Dests == UNION {Targets[s] : s \in Sessions}

Atomic == INSTANCE AtomicFileStore WITH
    store <- [p \in Dests |-> IF Exists(p) THEN Contents(p) ELSE None],
    offered <- {<<sess[s].dest, sess[s].sent.md5>> : s \in {t \in Sessions : sess[t].sent # None}}

\* Every step of the receiver and of Remove is a step of the atomic store:
\* a destination only ever changes, in one step, to the complete bytes of
\* an upload whose digest was verified, or disappears (spec.md 4.6, the
\* temp-then-rename of HandlePut, lines 458-591).
AtomicStoreRefined == Atomic!Spec

\* Every Put stream is eventually answered, with success or an error.
EveryStreamAnswered == \A s \in Sessions : <>(sess[s].phase = "Done")
=============================================================================
