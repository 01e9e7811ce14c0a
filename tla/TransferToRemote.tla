-------------------------- MODULE TransferToRemote --------------------------
(***************************************************************************)
(* The TransferToRemote RPC (part_000:284-398, 600-736): the routing on    *)
(* DPU metadata (HandleTransferToRemote), the local handler                *)
(* (handleTransferToRemoteLocal) and the DPU streaming proxy               *)
(* (HandleTransferToRemoteForDPUStreaming).  Several requests are served   *)
(* at once, each on its own goroutine, against one host filesystem         *)
(* (PosixFS) and one DPU connection cache (ConnectionCache).               *)
(*                                                                         *)
(* download.DownloadHTTP, DownloadHTTPStreaming and hash.CalculateMD5 live *)
(* in internal/, which is not in the repository: the download follows      *)
(* spec.md 4.4 and 6 (it writes straight to the destination and stops at   *)
(* maxFileSize), the hash reads back the file at that name.  The DPU end   *)
(* of the Put stream runs HandlePut (modelled in PutReceiver); here its    *)
(* answer is what HandlePut answers a well-ordered stream: InvalidArgument *)
(* for a path validatePath rejects, else the bytes are stored.             *)
(***************************************************************************)
EXTENDS Naturals, Sequences, FiniteSets

CONSTANTS
    Requests,     \* concurrent TransferToRemote calls
    ReqChoices,   \* ReqChoices[r]: the requests call r may carry
    Paths,        \* local_path values (model values; "" is the empty path)
    Allowed,      \* the paths validatePath accepts
    URLs,         \* remote_download.path values
    Source,       \* Source[u]: the bytes the HTTP server serves at u
    Data,         \* chunk values
    MaxFileSize,  \* maxFileSize, in chunks (4 GiB in the code)
    InContainer,  \* whether /mnt/host exists (the server runs in a container)
    Preexisting,  \* the paths that already hold a file at start, as a sequence
    Old,          \* the chunk value of a file that was there before
    Zero,
    None,
    DPUs,         \* DPU identifiers
    Addrs,        \* DPU midplane addresses
    Midplane,     \* the CHASSIS_MIDPLANE_TABLE entries at start
    ProxyInstalled,
    HasResolver

ASSUME Allowed \subseteq Paths
ASSUME Source \in [URLs -> Seq(Data)]
ASSUME MaxFileSize \in Nat
ASSUME InContainer \in BOOLEAN
ASSUME Preexisting \in Seq(Allowed)

VARIABLES
    req,      \* req[r]: the state of the goroutine serving call r
    link, data, nextIno,
    midplane, cache, lock, ccpc, ccid, conn,
    dpuFile   \* dpuFile[p]: the bytes the DPU stored at p, or None

fsVars == <<link, data, nextIno>>
dpuVars == <<midplane, cache, lock, ccpc, ccid, conn, dpuFile>>
vars == <<req, link, data, nextIno, midplane, cache, lock, ccpc, ccid, conn, dpuFile>>

(***************************************************************************)
(* translatePathForContainer (part_000:387-398): clean the path, and put   *)
(* /mnt/host in front of it when that directory exists.  Paths are clean   *)
(* model values, so a host name is the pair of a root and the path.        *)
(***************************************************************************)
translatePathForContainer(p) == IF InContainer THEN <<"/mnt/host", p>> ELSE <<"/", p>>

HostNames == {translatePathForContainer(p) : p \in Paths}
Inodes == 1 .. Cardinality(Requests) + Len(Preexisting)

INSTANCE PosixFS WITH Names <- HostNames, Bytes <- Data \cup {Old},
                      link <- link, data <- data, nextIno <- nextIno

INSTANCE ConnectionCache WITH Callers <- Requests, NoConn <- None

Digest(bytes) == [md5 |-> bytes]

\* The gRPC status codes the handler returns.
Codes == {"OK", "InvalidArgument", "Unimplemented", "Internal", "DeadlineExceeded"}

\* A request: nil or not, its RemoteDownload nil or not, local_path,
\* protocol, URL, and the x-sonic-ss-target-type / -index metadata.
Request == [isNil : BOOLEAN, hasRemote : BOOLEAN, path : Paths \cup {""},
            protocol : {"HTTP", "SFTP"}, url : URLs \cup {""},
            targetType : {"", "dpu", "npu"}, targetIndex : {""} \cup DPUs]

ASSUME ReqChoices \in [Requests -> SUBSET Request]

Pcs == {"start", "download", "fetching", "hashing", "dpu", "sopen", "sconn", "sput",
        "sloop", "shash", "done"}

ReqState == [pc : Pcs, q : Request, file : HostNames \cup {None},
             ino : Inodes \cup {None}, pos : Nat, stalled : BOOLEAN,
             io : BOOLEAN, sent : Seq(Data),
             digest : [md5 : Seq(Data \cup {Old, Zero})] \cup {None},
             code : Codes \cup {None}]

TypeOK ==
    /\ \A r \in Requests : req[r] \in ReqState
    /\ DOMAIN req = Requests
    /\ FSTypeOK
    /\ CCTypeOK
    /\ dpuFile \in [Paths -> Seq(Data) \cup {None}]

Init ==
    /\ \E qs \in {f \in [Requests -> UNION {ReqChoices[r] : r \in Requests}] :
                    \A r \in Requests : f[r] \in ReqChoices[r]} :
        req = [r \in Requests |-> [pc |-> "start", q |-> qs[r], file |-> None,
                                   ino |-> None, pos |-> 0, stalled |-> FALSE,
                                   io |-> FALSE, sent |-> <<>>,
                                   digest |-> None,
                                   code |-> None]]
    \* files from earlier transfers, two chunks long, at inodes 1, 2, ...
    /\ link = [n \in HostNames |->
                IF \E k \in 1 .. Len(Preexisting) : translatePathForContainer(Preexisting[k]) = n
                THEN CHOOSE k \in 1 .. Len(Preexisting) :
                        translatePathForContainer(Preexisting[k]) = n
                ELSE None]
    /\ data = [i \in Inodes |-> IF i <= Len(Preexisting) THEN <<Old, Old>> ELSE <<>>]
    /\ nextIno = Len(Preexisting) + 1
    /\ CCInit(Midplane)
    /\ dpuFile = [p \in Paths |-> None]

(***************************************************************************)
(* HandleTransferToRemote (part_000:288-308): both DPU headers present,    *)
(* with target type "dpu" and a non-empty index, route to the DPU          *)
(* streaming handler; otherwise serve the request locally.                 *)
(***************************************************************************)
RoutedToDPU(q) == q.targetType = "dpu" /\ q.targetIndex # ""

(***************************************************************************)
(* The checks of handleTransferToRemoteLocal (part_000:318-347), in the    *)
(* code's order: the first that fails decides the status.                  *)
(***************************************************************************)
validateTransferRequest(q) ==
    IF q.isNil THEN "InvalidArgument"
    ELSE IF ~q.hasRemote THEN "InvalidArgument"
    ELSE IF q.path = "" THEN "InvalidArgument"
    ELSE IF q.path \notin Allowed THEN "InvalidArgument"
    ELSE IF q.protocol # "HTTP" THEN "Unimplemented"
    ELSE IF q.url = "" THEN "InvalidArgument"
    ELSE "OK"

Finish(r, code) ==
    req' = [req EXCEPT ![r].pc = "done", ![r].code = code, ![r].ino = None]

\* A call that fails on its first network request: the request was sent.
FinishAfterIO(r, code) ==
    req' = [req EXCEPT ![r].pc = "done", ![r].code = code, ![r].io = TRUE]

\* The RPC arrives: route it, validate it and translate the path; all of
\* this happens before any I/O.
HandleTransferToRemote(r) ==
    LET q == req[r].q
    IN
    /\ req[r].pc = "start"
    /\ IF RoutedToDPU(q)
       THEN req' = [req EXCEPT ![r].pc = "dpu"]
       ELSE IF validateTransferRequest(q) # "OK"
       THEN Finish(r, validateTransferRequest(q))
       ELSE req' = [req EXCEPT ![r].pc = "download",
                               ![r].file = translatePathForContainer(q.path)]
    /\ UNCHANGED <<fsVars, dpuVars>>

(***************************************************************************)
(* download.DownloadHTTP(ctx, url, translatedPath, maxFileSize), under the *)
(* 5-minute downloadTimeout (part_000:354-360): the file is created at the *)
(* destination itself, the body is copied into it chunk by chunk, and a    *)
(* failure returns Internal and leaves what was written.                   *)
(***************************************************************************)
DownloadOpenNoTrunc(r) ==
    /\ req[r].pc = "download"
    /\ \/ /\ req' = [req EXCEPT ![r].pc = "fetching", ![r].ino = InodeFor(req[r].file),
                                 ![r].pos = 0, ![r].io = TRUE]
          /\ link' = [link EXCEPT ![req[r].file] = InodeFor(req[r].file)]
          /\ nextIno' = IF Exists(req[r].file) THEN nextIno ELSE nextIno + 1
          /\ UNCHANGED <<data, dpuVars>>
       \/ /\ FinishAfterIO(r, "Internal")
          /\ UNCHANGED <<fsVars, dpuVars>>

\* The request is sent and the destination file created; or the server is
\* unreachable and nothing is written.
DownloadOpen(r) ==
    /\ req[r].pc = "download"
    /\ \/ /\ req' = [req EXCEPT ![r].pc = "fetching", ![r].ino = InodeFor(req[r].file),
                                 ![r].pos = 0, ![r].io = TRUE]
          /\ Create(req[r].file)
          /\ UNCHANGED dpuVars
       \/ /\ FinishAfterIO(r, "Internal")
          /\ UNCHANGED <<fsVars, dpuVars>>

\* The next chunk of the body is copied to the file; a body longer than
\* maxFileSize is cut off with an error.
DownloadChunk(r) ==
    LET body == Source[req[r].q.url]
        pos  == req[r].pos
    IN
    /\ req[r].pc = "fetching"
    /\ pos < Len(body)
    /\ ~req[r].stalled
    /\ IF pos < MaxFileSize
       THEN /\ req' = [req EXCEPT ![r].pos = pos + 1]
            /\ Write(req[r].ino, pos, body[pos + 1])
            /\ UNCHANGED dpuVars
       ELSE /\ Finish(r, "Internal")
            /\ UNCHANGED <<fsVars, dpuVars>>

\* The HTTP server stops sending the body and keeps the connection open.
ServerStalls(r) ==
    /\ req[r].pc \in {"fetching", "sloop"}
    /\ ~req[r].stalled
    /\ req' = [req EXCEPT ![r].stalled = TRUE]
    /\ UNCHANGED <<fsVars, dpuVars>>

\* A download context without the deadline: only a dropped connection,
\* never a stalled one, ends the copy with an error.
DownloadFailNoDeadline(r) ==
    /\ req[r].pc = "fetching"
    /\ ~req[r].stalled
    /\ Finish(r, "Internal")
    /\ UNCHANGED <<fsVars, dpuVars>>

\* The connection drops, or downloadTimeout expires, mid-body.
DownloadFail(r) ==
    /\ req[r].pc = "fetching"
    /\ Finish(r, "Internal")
    /\ UNCHANGED <<fsVars, dpuVars>>

DownloadDone(r) ==
    /\ req[r].pc = "fetching"
    /\ req[r].pos = Len(Source[req[r].q.url])
    /\ req' = [req EXCEPT ![r].pc = "hashing", ![r].ino = None]
    /\ UNCHANGED <<fsVars, dpuVars>>

(***************************************************************************)
(* hash.CalculateMD5(translatedPath) reads the file back by name; when it  *)
(* fails, the file is removed and Internal returned (part_000:363-376).    *)
(***************************************************************************)
CalculateMD5(r) ==
    LET f == req[r].file
    IN
    /\ req[r].pc = "hashing"
    /\ \/ /\ Exists(f)
          /\ req' = [req EXCEPT ![r].pc = "done", ![r].code = "OK",
                                 ![r].digest = Digest(Contents(f))]
          /\ UNCHANGED <<fsVars, dpuVars>>
       \/ /\ Finish(r, "Internal")
          /\ Remove(f)
          /\ UNCHANGED dpuVars

(***************************************************************************)
(* HandleTransferToRemoteForDPUStreaming (part_000:600-736).  Its checks   *)
(* (605-633) leave out validatePath; dpuIndex is never empty when routed.  *)
(***************************************************************************)
validateStreamRequest(q) ==
    IF q.isNil THEN "InvalidArgument"
    ELSE IF ~q.hasRemote THEN "InvalidArgument"
    ELSE IF q.path = "" THEN "InvalidArgument"
    ELSE IF q.protocol # "HTTP" THEN "Unimplemented"
    ELSE IF q.url = "" THEN "InvalidArgument"
    ELSE "OK"

StreamValidate(r) ==
    /\ req[r].pc = "dpu"
    /\ IF validateStreamRequest(req[r].q) # "OK"
       THEN Finish(r, validateStreamRequest(req[r].q))
       ELSE req' = [req EXCEPT ![r].pc = "sopen"]
    /\ UNCHANGED <<fsVars, dpuVars>>

\* Step 1-2 (639-650): open the HTTP stream, then ask the connection cache
\* for the DPU's connection; a failure of either is Internal.
StreamOpen(r) ==
    /\ req[r].pc = "sopen"
    /\ \/ /\ req' = [req EXCEPT ![r].pc = "sconn", ![r].pos = 0, ![r].io = TRUE]
          /\ CCCall(r, req[r].q.targetIndex)
          /\ UNCHANGED <<fsVars, dpuFile>>
       \/ /\ FinishAfterIO(r, "Internal")
          /\ UNCHANGED <<fsVars, dpuVars>>

\* The cache's error returned as it is, instead of wrapped as Internal.
StreamConnPropagate(r) ==
    /\ req[r].pc = "sconn"
    /\ \/ /\ CCStep(r)
          /\ UNCHANGED <<req, fsVars, dpuFile>>
       \/ /\ ccpc[r] \in CCErrors
          /\ Finish(r, ccpc[r])
          /\ UNCHANGED <<fsVars, dpuVars>>
       \/ /\ ccpc[r] = "ok"
          /\ req' = [req EXCEPT ![r].pc = "sput"]
          /\ UNCHANGED <<fsVars, dpuVars>>

StreamConn(r) ==
    /\ req[r].pc = "sconn"
    /\ \/ /\ CCStep(r)
          /\ UNCHANGED <<req, fsVars, dpuFile>>
       \/ /\ ccpc[r] \in CCErrors
          /\ Finish(r, "Internal")
          /\ UNCHANGED <<fsVars, dpuVars>>
       \/ /\ ccpc[r] = "ok"
          /\ req' = [req EXCEPT ![r].pc = "sput"]
          /\ UNCHANGED <<fsVars, dpuVars>>

\* Step 3 (652-671): open the Put stream on the connection and send Open.
PutOpen(r) ==
    /\ req[r].pc = "sput"
    /\ \/ req' = [req EXCEPT ![r].pc = "sloop"]
       \/ Finish(r, "Internal")
    /\ UNCHANGED <<fsVars, dpuVars>>

(***************************************************************************)
(* Step 5 (677-708), one iteration: past the deadline (683),              *)
(* DeadlineExceeded; else read the next chunk through the TeeReader and   *)
(* send it.  A stalled read returns only when the deadline cancels it,    *)
(* with the context's error, and any read error is Internal (706); so is  *)
(* a read past maxFileSize or a failed send.  The end of the body leaves  *)
(* the loop.                                                               *)
(***************************************************************************)
StreamChunk(r) ==
    LET body == Source[req[r].q.url]
        pos  == req[r].pos
    IN
    /\ req[r].pc = "sloop"
    /\ \/ Finish(r, "DeadlineExceeded")
       \/ /\ req[r].stalled
          /\ Finish(r, "Internal")
       \/ /\ ~req[r].stalled /\ pos < Len(body) /\ pos >= MaxFileSize
          /\ Finish(r, "Internal")
       \/ /\ ~req[r].stalled /\ pos < Len(body) /\ pos < MaxFileSize
          /\ \/ req' = [req EXCEPT ![r].pos = pos + 1, ![r].sent = Append(@, body[pos + 1])]
             \/ Finish(r, "Internal")
       \/ /\ ~req[r].stalled /\ pos = Len(body)
          /\ req' = [req EXCEPT ![r].pc = "shash"]
    /\ UNCHANGED <<fsVars, dpuVars>>

\* The DPU's HandlePut answers a stream it read whole: a path validatePath
\* rejects is InvalidArgument; otherwise it stores the bytes it received.
DPUPutAccepts(r) == req[r].q.path \in Allowed

\* Step 6-7 with the error of CloseAndRecv ignored.
StreamFinishIgnoreAck(r) ==
    /\ req[r].pc = "shash"
    /\ req' = [req EXCEPT ![r].pc = "done", ![r].code = "OK",
                          ![r].digest = Digest(req[r].sent)]
    /\ dpuFile' = IF DPUPutAccepts(r) THEN [dpuFile EXCEPT ![req[r].q.path] = req[r].sent]
                  ELSE dpuFile
    /\ UNCHANGED <<fsVars, midplane, cache, lock, ccpc, ccid, conn>>

\* Step 6-7 (710-735): send Hash with the digest of the bytes read, close
\* the stream and wait for the DPU's answer; return the digest.
StreamFinish(r) ==
    /\ req[r].pc = "shash"
    /\ \/ /\ DPUPutAccepts(r)
          /\ req' = [req EXCEPT ![r].pc = "done", ![r].code = "OK",
                                ![r].digest = Digest(req[r].sent)]
          /\ dpuFile' = [dpuFile EXCEPT ![req[r].q.path] = req[r].sent]
       \/ /\ Finish(r, "Internal")
          /\ UNCHANGED dpuFile
    /\ UNCHANGED <<fsVars, midplane, cache, lock, ccpc, ccid, conn>>

Step(r) ==
    \/ HandleTransferToRemote(r)
    \/ DownloadOpen(r)
    \/ DownloadChunk(r)
    \/ DownloadFail(r)
    \/ DownloadDone(r)
    \/ CalculateMD5(r)
    \/ StreamValidate(r)
    \/ StreamOpen(r)
    \/ StreamConn(r)
    \/ PutOpen(r)
    \/ StreamChunk(r)
    \/ StreamFinish(r)

Next ==
    \/ \E r \in Requests : Step(r)
    \/ \E r \in Requests : ServerStalls(r) /\ UNCHANGED <<fsVars, dpuVars>>
    \/ \E id \in DPUs : MidplaneChange(id) /\ UNCHANGED <<req, fsVars, dpuFile>>

\* Each call runs on its own goroutine; the download ends at the latest at
\* its deadline, so a goroutine that can take a step eventually does.
Fairness == \A r \in Requests : WF_vars(Step(r))

Spec == Init /\ [][Next]_vars /\ Fairness

(***************************************************************************)
(* Properties                                                              *)
(***************************************************************************)

\* The digest returned with OK is the digest of the bytes served at the
\* request's URL (spec.md 8, scenarios A and B): the local file read back
\* is the one this call downloaded, whole; the DPU stream carried it whole.
ReturnedDigestIsSource ==
    \A r \in Requests :
        req[r].code = "OK" => req[r].digest = Digest(Source[req[r].q.url])

\* A transfer to a DPU that returned OK left the source's bytes at the
\* requested path on the DPU (spec.md 8, scenario B).
DPUCopyIsSource ==
    \A r \in Requests :
        RoutedToDPU(req[r].q) /\ req[r].code = "OK" =>
            dpuFile[req[r].q.path] = Source[req[r].q.url]

\* A request whose local_path validatePath rejects fails before any
\* network or filesystem I/O, whatever its routing metadata (spec.md 8,
\* scenario C).
InvalidPathNoIO ==
    \A r \in Requests : req[r].q.path \in Paths \ Allowed => ~req[r].io

\* A streaming call refused because the DPU it is routed to is marked
\* unreachable in the state table reports Unavailable: spec.md 6 classes an
\* unreachable peer as an availability error, which a caller may retry, and
\* GetDPUConnection returns Unavailable for it (spec.md 4.3).
UnreachableDPUUnavailable ==
    \A r \in Requests :
        RoutedToDPU(req[r].q) /\ req[r].pc = "done" /\ ccpc[r] = "Unavailable" =>
            req[r].code = "Unavailable"

\* Every call is eventually answered.
EveryRequestAnswered ==
    \A r \in Requests : <>(req[r].pc = "done")
=============================================================================
