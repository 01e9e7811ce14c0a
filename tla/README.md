# TLA+ models of the sonic-gnmi file-transfer core and authorization

This directory holds TLA+ models of the repository's gNOI File handlers, the DPU streaming proxy, path validation, the certificate-based authorization and the ServerBuilder of the standalone server, and the small pure helpers. Each model is checked with TLC. `PROJECT.json` lists the components, runs, mutants, the source lines each definition models (`map`), the findings and the hazards.

## 1. Inventory

### Parts of the system and how they interact

| Part | Source | Shared state | Operations |
|---|---|---|---|
| Put receiver | `src/unnamed/part_000` `HandlePut` 469-592 | host filesystem | Recv Open → validatePath → create `dest.tmp` with O_TRUNC → defer close+remove → Recv loop (Contents, Hash, EOF, cancel, other) → close → chmod → rename |
| Remove | part_000 `HandleFileRemove` 738-786 | host filesystem | validatePath → os.Remove → map error to NotFound / PermissionDenied / Internal |
| TransferToRemote routing | part_000 284-309 | - | DPU headers (`dpu`, non-empty index) → streaming handler, else local |
| Local transfer | part_000 313-377 | host filesystem | checks in order → translate → DownloadHTTP (timeout, maxFileSize) → CalculateMD5 by name → remove on hash error |
| DPU streaming proxy | part_000 600-736 | DPU connection cache; the DPU's filesystem via its Put handler | checks (no validatePath) → open HTTP stream → GetDPUConnection → Put stream Open → chunk loop (deadline, read, send) → Hash → CloseAndRecv |
| DPU connection cache | `dpuproxy` (not in the repository; spec.md 4.2-4.3, tests in `singleton_test.go`) | cache, per-id lock, midplane table | lock → resolve → reuse or dial → cache |
| Path validation | part_000 `validatePath` 419-446, `translatePathForContainer` 387-398 | - | Clean, absolute check, `..` substring check, prefix allow-list |
| Authorization | part_003 / part_004 interceptors and `parseMethod`; `builder.go` `CertAuthorizer` 279-369; `server_with_auth.go` | ConfigDB roles (read-only) | parse method → skip / CheckAccess: CN from the verified chain → roles → first matching role decides |
| Pure helpers | part_001; `testpkg/integration/helper.go` | - | Add, Multiply, Abs, Max, Clamp; Concat, Repeat, Truncate, CountChar |
| Server builder | builder.go 49-242 | `config.Global` (read-only) | fluent setters (address, root, TLS/mTLS/none, services) → Build: fall back to the global config, NewServerWithTLS, registerServices |

Every RPC runs on its own goroutine. The Put, Remove and local-transfer handlers share only the host filesystem, and they address files by name. Streaming transfers share the DPU connection cache. A streaming transfer is a Put stream to the DPU's own `HandlePut`, so the proxy and the Put receiver are the two ends of one protocol.

### Hard behaviours, and the property for each

- **Concurrent Puts sharing the temp name `dest.tmp`.** Truncation, removal by name in the deferred cleanup, and chmod/rename by name all act on that name. Properties: `DestinationVerified` (an acknowledged destination holds verified bytes) and `NoOrphanTemp`.
- **Out-of-order or cut streams.** These are EOF before Hash, a second Open, or a cancel. Properties: `EveryStreamAnswered` and `NoOrphanTemp`.
- **Local transfer that writes and then hashes by name, while another call uses the same path.** Property: `ReturnedDigestIsSource`.
- **A stalled server against the deadline.** Property: `EveryRequestAnswered`. The size limit itself is enforced inside `download`, which is not in the repository, so no property restates it.
- **The streaming proxy's failure paths.** It does I/O before validating, and never calls validatePath: property `InvalidPathNoIO` (spec.md scenario C). A DPU may be marked unreachable while calls are routed to it: property `UnreachableDPUUnavailable` (spec.md 6). Each is checked by its own run.
- **The DPU rejects the Put, or the stream fails late.** Property: `DPUCopyIsSource`.
- **Concurrent dials for one DPU.** No property. The cache's lock comes from spec.md 4.3, because `dpuproxy` is not in the repository, and spec.md 9 says the reference shows no such protection. A property of the modelled lock would check the model, not the code.
- **Path cleaning edge cases** (`.`, `..`, `//`, `/tmp` itself, names containing `..`). Property: `ValidatorMatchesSpec`, the spec.md 4.1 rule as an independent definition.
- **A crash of the server process mid-Put.** The destination must never be left partial. Property: `AtomicStoreRefined`, the refinement of the atomic file store.
- **Builder calls in any order.** A later TLS call replaces the whole TLS config, and an empty address falls back to the global one. Properties: `BuiltAsConfigured` and `RegisteredAsEnabled`.
- **Authorization.** This covers the method classification in two code versions, the role order, missing certificates and insecure servers. Property: `AuthorizationMatchesPolicy`.
- **Fixed-width integers.** Properties: `AbsNonNegative` and `HelpersMatchReference`.

## 2. Plan and modules

The modules, in dependency order:

1. `PosixFS`. This is the host filesystem, the environment and not code of this repository. A name is bound to an inode. `Create` truncates an existing inode, as O_TRUNC does. Writes go through an open inode, so they continue after a rename. `Remove` and `Rename` act on names.
2. `AtomicFileStore`. This is the abstract promise of spec.md 4.6. A destination changes in one step, either to the complete bytes of an upload whose digest was verified (`Offer`, then `Publish`) or to nothing (`Delete`).
3. `PutReceiver`. It models HandlePut and HandleFileRemove over `PosixFS`, which it includes with `INSTANCE`. It also instantiates `AtomicFileStore` with a refinement mapping (`Atomic`), and checks `Atomic!Spec` as the property `AtomicStoreRefined`.
4. `ConnectionCache`. It models the DPU connection cache from spec.md 4.2-4.3, because its package is not in the repository. It gives the streaming proxy the answers GetDPUConnection returns: a connection, NotFound, Unavailable, or a missing proxy or resolver.
5. `TransferToRemote`. It composes `PosixFS` and `ConnectionCache`, and it models the routing, the local handler and the streaming proxy. The DPU end of the proxy's Put stream is answered the way `PutReceiver`'s HandlePut answers a well-ordered stream.
6. `PathValidator`. It models validatePath with `filepath.Clean`, written as a `FoldLeft` over path segments.
7. `AuthMiddleware`. It models the interceptors, both `parseMethod` versions, CertAuthorizer (with a RECURSIVE `hasAccess`) and the server constructor.
8. `PureHelpers`. It models the helpers on a two's-complement int of `Width` bits, checked against reference definitions.
9. `ServerBuilder`. It models the builder's fields, one action per method, and `Build` with `registerServices`. A ghost variable `history` records the calls, so the properties can compare the built server with the calls that led to it.

Each `MC*` module gives the model values and the small tables that a `.cfg` cannot write, such as the request choices, the source bodies and the midplane table.

### How the state and actions match the code

- **PutReceiver.**
  - `sess[s]` is one HandlePut goroutine: its phase, the messages the client will still send, the destination, the open inode, the bytes hashed so far, the digest it verified, and the status it returned.
  - `RecvOpen` covers lines 490-525. `RecvContent`, `RecvHash` and `RecvOther` cover one iteration of the loop at 540-573. `ClientCancels` covers 546-547. `CloseAndChmod` covers 575-583 and `Commit` covers 585-591. `Cleanup` is the deferred function at 526-536, which runs on every return after the file was opened, success included.
  - `HandleFileRemove` covers 738-786.
  - `ServerCrash` is the process dying at any step. Every open stream and call sees Unavailable, no deferred function runs, and the files stay on disk.
  - The refinement mapping: the abstract `store[p]` is what a reader opening destination `p` by name finds (`Contents(p)`, or none). `offered` holds the `<<dest, bytes>>` pairs of the streams whose Hash matched.
  - A path is a base name plus a count of `.tmp` suffixes, so `Tmp(p)` is exactly `translatedPath + ".tmp"`.
- **TransferToRemote.**
  - `req[r]` is one call's goroutine. Its `pc` walks through start → download/fetching/hashing (local) or dpu/sopen/sconn/sput/sloop/shash (streaming) → done.
  - Each action is one step of the handler, with the code's guards and status codes. `io` records that a network request was sent. `sent` holds the bytes streamed to the DPU. `dpuFile` holds what the DPU stored. `StreamChunk` keeps apart the deadline check at line 683 (DeadlineExceeded) and a read cut by the deadline (Internal, line 706).
- **ConnectionCache.** `ccpc[r]` is caller r's progress through GetConnection. The lock and the cache are kept per DPU identifier. `MidplaneChange` is the state table changing under the cache.
- **ServerBuilder.** `addr`, `rootFS`, `services` and `tlsConfig` are the struct's fields, and `tlsConfig` is `None` until a TLS method is called. `server` is `None`, `BuildError`, or the built server: its address, its TLS settings, and the set of `[svc, root]` registrations.
- **AuthMiddleware.** A method name is the list of its `/` parts, with the service as a list of `.` segments. `call[c].outcome` is what the interceptor returned, or `handler`. The initial state is the server constructor's outcome: `tls` (a certificate manager was given), `authz` (an authorizer was given, so both interceptors are installed) and `built`. `built` is FALSE only when a certificate manager was given and `GetTLSConfig` failed (server_with_auth.go 22-26). NewServerWithAuth then returns an error, and no call is ever served. NewInsecureServerWithAuth is the case `~tls /\ authz`, and it always returns a server.

## 3. Runs

| Run | Config | Expect | What it shows |
|---|---|---|---|
| put_distinct | PutReceiver_distinct.cfg | pass (236,272 states) | Two Puts of up to two chunks to different names, one possibly forbidden, plus a Remove of a destination, a temp file or a forbidden path, and a server crash at any step. Checks TypeOK, DestinationVerified, NoOrphanTemp, EveryStreamAnswered and AtomicStoreRefined. |
| put_shared_temp | PutReceiver_shared_temp.cfg | violation | A Put to pA beside a Put to pA or to pA.tmp. The shared temp name breaks DestinationVerified. |
| transfer_local | TransferToRemote_local.cfg | pass (77,949 states) | Two concurrent calls, local or DPU-routed, over every validation branch, with stalls, deadlines and a changing midplane. Checks TypeOK, ReturnedDigestIsSource, DPUCopyIsSource and EveryRequestAnswered. |
| transfer_same_path | TransferToRemote_same_path.cfg | violation | Two local calls to the same path. One returns the digest of the other's bytes. |
| transfer_scenario_c | TransferToRemote_scenario_c.cfg | violation | /etc/passwd with DPU routing: the HTTP stream opens before any check. Checks InvalidPathNoIO. |
| transfer_dpu_unavailable | TransferToRemote_dpu_unavailable.cfg | violation | Two valid transfers to DPU "0". The midplane marks it unreachable, GetDPUConnection returns Unavailable, and the call answers Internal. Checks UnreachableDPUUnavailable. |
| path_spec | PathValidator_spec.cfg | violation | `/tmp/a..b` is rejected, contrary to spec.md 4.1. |
| auth_known | AuthMiddleware_known.cfg | pass (32,256 states) | Decisions for System, gNMI, reflection, health and unknown services match the documented policy. |
| auth_policy_edges | AuthMiddleware_policy_edges.cfg | violation | A readonly client is allowed File.Put and File.Remove, and the roles readwrite followed by noaccess grant access. |
| builder_calls | ServerBuilder_calls.cfg | pass (38,160 states) | Every sequence of up to three builder calls, then Build. The server's address and TLS mode are those of the last call that set them, or the global ones (BuiltAsConfigured). It serves exactly the implemented services that some call enabled (RegisteredAsEnabled). |
| helpers_reference | PureHelpers_reference.cfg | pass (10,614 states) | Every helper matches its reference definition. |
| abs_overflow | PureHelpers_abs_overflow.cfg | violation | Abs(MinInt) < 0. |

Every property of a passing run has a mutant in `PROJECT.json`. A mutant is an operator that models a plausible bug in the mapped code, such as a dropped hash comparison, a skipped cleanup, a missing EOF branch, an unwrapped error, O_TRUNC left out, a missing deadline, an ignored DPU answer, readonly granting writes, a clamp without its upper bound, a Put written in place, WithoutTLS resetting the config to nil, or an EnableServices loop that skips the first name. TLC finds each property violated when the mapped definition is replaced by its mutant.

### Bounds, and why they are enough

- **PutReceiver.**
  - It uses 2 streams, 1 Remove, 3 bases (two allowed, one not), 1 chunk value and at most 2 Contents messages per stream in put_distinct (2 values and 2 messages in the violation run). Each stream carries a good hash, a bad hash, no hash, an empty stream, Contents first, or a double Open.
  - Two streams are the least that can collide. Two chunks of one value tell a whole file from an empty one and from one cut after its first write, which is what a crash or a truncation leaves. A second value adds no new interleaving and triples the state space.
  - The Remove targets a destination, its temp file and a forbidden path, which covers all three branches.
- **TransferToRemote.**
  - There are 2 calls. Call r1 ranges over a request that fails each check, a valid one, one whose body exceeds MaxFileSize = 2, and DPU-routed ones (reachable DPU, DPU without a midplane entry, and /etc/passwd). Call r2 downloads locally or to the same DPU.
  - This gives two concurrent callers of the cache for one DPU. The midplane may change to "unreachable" or "absent" at any time.
- **PathValidator.** Paths have up to 5 segments over `"" . .. tmp var etc x a..b`. This is enough for `/var/tmp/x`, `/tmp/../etc`, `/tmp/./x`, `//tmp/x` and relative paths.
- **AuthMiddleware.** Two calls, over the configured method and client choices.
- **ServerBuilder.** Up to 3 calls before Build. The arguments are `""` and one value for the address and root, two file names, and three service slices (empty, containerz before gnmi, two implemented services). The global config enables mTLS. Three calls are enough for every pair of conflicting calls with one unrelated call between them.
- **PureHelpers.** A 4-bit int, where wrap-around happens exactly as in a 64-bit one, and strings of up to 2 bytes.

## 4. Fairness

- Each handler goroutine keeps running while it has a step to take. The Go scheduler runs every runnable goroutine, so the model uses weak fairness per stream, per Remove call and per transfer call.
- Client behaviour and crashes get no fairness. A client cancelling, or an HTTP server stalling, is an environment action. `ClientCancels` and `ServerStalls` may happen or not, and liveness does not rely on them.
- A stalled download or stream still ends, because the code bounds it with `context.WithTimeout(downloadTimeout)`. The deadline step is part of the fair handler step.
- HandlePut has no server-side deadline. `EveryStreamAnswered` therefore assumes the client eventually sends its stream. This is listed as a hazard, not checked.

## 5. Findings

These are the violation runs. Details are in `PROJECT.json`.

1. **The temp file of a Put is `dest.tmp`, shared by every writer of `dest`, and it is the destination of a Put to `dest.tmp`.** O_TRUNC and the deferred remove-by-name let one stream destroy another's acknowledged or in-flight file. This contradicts spec.md 5.
2. **The local transfer hashes by name.** Concurrent same-path calls return wrong digests.
3. **The streaming proxy never validates `local_path`, and opens the HTTP stream first.** This contradicts spec.md scenario C. The run is transfer_scenario_c.
4. **An unreachable DPU is reported as Internal (part_000:649)**, where spec.md 6 says unavailable, the class a caller may retry. The run is transfer_dpu_unavailable.
5. **validatePath's `..` substring test rejects legitimate names.**
6. **`parseMethod` classifies File.Put and File.Remove as reads**, against middleware_test.go. The run is auth_policy_edges.
7. **`hasAccess` lets an earlier readwrite role override a later noaccess.** The run is also auth_policy_edges. TLC reports the File.Put case, which it reaches first. The role-order case holds on the same trace by hand, but the run budget has no slot left for a run of its own.
8. **`Abs(math.MinInt)` is negative.**

Found while modelling but not given a run:
- EnableServices accepts `gnoi.containerz`, which its doc comment lists as valid, but registerServices never registers it.
- A deadline that expires while an HTTP read is blocked is reported as Internal (part_000:706). spec.md 4.5 asks only that the deadline be checked before each I/O, which line 683 does. The class of an in-flight read cut by the deadline is left open, so no run takes a side.
- A local download that fails part-way through leaves the partial destination file (part_000:359). Only a failed hash removes it. Whether DownloadHTTP cleans up after itself cannot be read, because it is not in the repository.

## 6. Not modelled, and why

- **NewServerWithTLS.** It is not in the repository. `Build` takes its two outcomes, a server or an error.
- **`test_example.go`.** A demo program.
- **The tests, the mocks in part_000 1-283, and the generated gNOI client in `singleton_test.go`.** They are read as statements of intent.
- **`download`, `hash` and `dpuproxy`.** These live outside the repository. Their steps are modelled from spec.md and marked `spec_modelled` in the map.
- **File permission bits, log output and TLS handshakes.** No property is about them. The permission bits carry a hazard of their own, listed in `PROJECT.json`. HandlePut casts the client's `uint32` to `os.FileMode` (part_000:581). That cast keeps Go's own setuid, setgid and sticky bits and drops the Unix ones, so 04755 becomes 0755 and a value with bit 23 set becomes a setuid file. This is a single cast, with nothing concurrent about it. Carrying a mode per stream would multiply the Put runs' states, so no run checks it.
- **Restart after a crash.** A crash is modelled, but no new streams start after it. A crash between creating `dest.tmp` and its removal leaves the file behind, and nothing removes it; this is recorded as a hazard.

## 7. Running

```
cd tla
tlc -workers 2 -config PutReceiver_distinct.cfg MCPutReceiver
tlc -workers 2 -config TransferToRemote_local.cfg MCTransferToRemote
tlc -workers 2 -config PathValidator_confined.cfg MCPathValidator
tlc -workers 2 -config AuthMiddleware_known.cfg MCAuthMiddleware
tlc -workers 2 -config PureHelpers_reference.cfg MCPureHelpers
tlc -workers 2 -config ServerBuilder_calls.cfg MCServerBuilder
```
