# Verification of the Model Interface Gateway

`migd` is a gateway between clients and models: it offers one small protocol
(hello, discover, invoke, publish, subscribe, cancel, heartbeat, stream) over
HTTP, gRPC and NATS, for several tenants at once, and keeps all of its state in
memory. Beside it stand a client library and an adapter that offers the gateway's
capabilities to MCP clients. This directory holds TLA+ specifications of them, the
TLC models that check them and TLAPS proofs of the results that matter most.

Source paths are relative to `src/core/pkg/mig` unless they say otherwise.

## 1. The system

| Component | State | Operations | Source |
|---|---|---|---|
| Message envelope | none | `Normalize` (version, generated id, tenant, deadline), `AddIDGMeta` | `types.go` |
| Invocation | capabilities, idempotency cache, cancelled ids, quotas, usage, audit log and file, error counters | `Invoke`, `Cancel`, `AddCapability`, `SetQuota`, `Close` | `service.go`, `auth.go` (scopes), `metrics.go` |
| Publish/subscribe | event log per topic, subscriber channels | `Publish`, `Subscribe`, unsubscribe, the serving loops | `service.go`, `http.go`, `grpc_server.go` |
| NATS mirror and binding | connection, subscriptions | mirror an event, receive a request | `service.go`, `nats_binding.go` |
| Long-lived connections | connection list, gauge of active streams, subscriber maps | `handleSubscribe`, `handleStream`, `StreamInvoke`, `Subscribe`, `RegisterConnection` | `http.go`, `grpc_server.go`, `connections.go`, `metrics.go` |
| Authentication and tenancy | principal in the request's context | middleware, interceptors, `applyPrincipalHeader` and its counterparts | `auth.go`, `grpc_server.go`, `nats_binding.go` |
| Process lifecycle | where `main` is | start, signal, `GracefulStop`, `Shutdown`, `Close`, crash | `cmd/migd/main.go` |
| Registry | orgs, tenants, gateways, schemas, capabilities, quotas | `CreateOrg`, `CreateTenant`, `CreateGateway`, `AddSchema`, `Hello`, `Discover`, `Heartbeat`, `ValidatePolicy`, ... and their handlers | `service.go`, `http.go`, `grpc_server.go` |
| gRPC conversions | none | header, enum, error and frame conversions | `grpc_server.go` |
| MCP adapter | manifest, credentials | JSON-RPC to gateway calls | `src/adapters/mcp` |
| SDK client | none | a POST with a timeout | `src/sdk/go/migclient` |
| Configuration, UI page, generated bindings, conformance drivers | none | | |

**How they interact.** One `Service` with one `sync.RWMutex` is shared by all
handlers. Each binding turns its requests into calls of the service: the
middleware or interceptor derives a principal from the credentials, the handler
completes and checks the tenant in the message header, then calls. A call of
`Invoke` starts a worker goroutine and waits for its channel or the deadline,
without the lock. `Publish` appends to the log, sends to every subscriber's
channel without blocking and mirrors to NATS, all under the lock, which it releases
when it returns. A subscription handler reads a snapshot and then its channel. The
metrics have a lock of their own; the connection list and the subscriber maps share
the service's. Clients wait for an answer no longer than their own timeout, which is
shorter than the gateway's default deadline.

**What is hard.** Calls are decided under the read lock, executed without it and
recorded under the write lock, so everything decided may be stale when it is
recorded. The deadline races the worker. Subscriber channels are bounded, and
closed by their readers while publishers send. Long-lived handlers acquire three
resources in three critical sections and may fail after each. A connection's principal is
fixed at opening and used for all later frames. Shutdown waits for clients of
one binding and not for those of the other. The broker hands the gateway its own
messages. A client may have given up a call that is executed later, and may hold
ids and answers of a process that has crashed. Nothing limits how long a write to a
client takes, and the error of a write to the audit file is dropped. `PROJECT.json` lists each of these hazards at its line with the
properties that would catch it going wrong.

## 2. Modules

| Module | What it models | Used by |
|---|---|---|
| `Envelope` | headers, `Normalize`, error codes, Go map assignment and deletion | all |
| `Invocation` | `Invoke` and everything that shares its state | `MCInvocation`, `InvocationProofs`, `MeteringProofs` |
| `UsageLedger` | abstract: a call is answered once, and billed and audited in the same step or never | refined by `Invocation` |
| `EventBus` | `Publish`, `Subscribe` and the handlers that serve subscriptions | `MCEventBus`, `NatsBinding`, `EventBusProofs`, `FeedProofs` |
| `OrderedFeed` | abstract: numbered logs, and clients that are each shown entries of one log in order and none twice | refined by `EventBus` |
| `NatsBinding` | mirror, broker and event subscription, composed with `EventBus` | `MCNatsBinding` |
| `Tenancy` | principal and header tenant of the three bindings, as operators | `Sessions`, `Registry` |
| `Sessions` | the four long-lived handlers, the frame loops, one-shot calls, shutdown | `MCSessions`, `SessionsProofs`, `StreamsProofs` |
| `Codec` | the conversions between the Go values and the protobuf messages, statuses, deadlines as numbers | `Registry` |
| `Registry` | the request/response endpoints over HTTP and gRPC, clients with timeouts, crash and restart | `McpAdapter` |
| `McpAdapter` | the MCP adapter, composed with `Registry` | `MCMcpAdapter`, `GatewayProofs`, `BindingsProofs` |
| `MC*` | instances for TLC: names, requests and frames of each scenario | the `.cfg` files |
| `*Proofs` | theorems, for all values of the constants | tlapm |

Each operator keeps the name of the Go function it stands for where there is
one; `PROJECT.json` ("map") gives the lines of each. Operators whose comment
begins with "Mutant of" are deliberate errors, used to show that a property can
fail; they are part of no specification.

### Invocation

Each element of `Calls` is a goroutine that runs `Invoke` once. Its three
actions are the code's three parts: `InvokeReject`/`InvokeReplay`/`InvokeAdmit`
(the read-locked section with every early return, and the copies it makes),
`Work` (the worker goroutine), and `InvokeCommit` or `InvokeTimeout`
(the write-locked section, or the deadline). `Cancel`, `AddCapability`,
`SetQuota` and `Close` are one critical section and one action each. The audit
record, its line in the audit file and the cache entry are inside the action of the
commit as they are inside its lock. An error is counted (`recordError`) after the
lock is released and before the call returns; nothing else reads the counter, so it
is part of the action that ends the call. The audit file is the sequence of the
writes to it, each of a record and of all, some or none of its line: `os.File.Write`
may fail after a part, which then has the next record glued to it
(`LineOfItsOwn`). Identifiers are sequences of
segments, so that joining tenant, capability and key with `:` is modelled by
what it does: concatenation, which is ambiguous exactly when segments contain
the separator. `overlap` is a history variable.

### EventBus, NatsBinding

Each element of `Handlers` serves one subscription: `Subscribe` (snapshot and
registration in one critical section), `SendReplay`, `ReplayDone`, `SendLive`,
`ContextDone` or `SendFails`, then `Unregister` under the lock and
`CloseChannel` after it. `Publish` is one action: validation, numbering, append,
the sends, the mirror. `NatsBinding` adds the broker (external, from its use):
it delivers each mirrored message to the subscription of the same connection. An event
that a handler has received from its channel and is writing is still the head of the
channel in the model: `ChanCap` counts it, so while a write is under way the model's
channel is full one event before the code's. The proofs hold for every `ChanCap`.

### Tenancy, Sessions

Each element of `Conns` is a goroutine that serves one connection. `stage` is
where it is, `held` its stack of deferred calls. `Open` is the middleware or the
interceptor; `Acquire` takes the next resource of the handler's kind
(`Needs`); `GiveUp` is an early return in between; `Release` runs the deferred
calls, last first. A websocket or bidirectional stream then reads frames
(`RejectFrame`, `RequestFrame`, `CancelFrame`), waits for the service
(`Return`) and writes (`Write`, `WriteFails`). A frame that cannot be decoded
(`Undecodable`) ends the handler without a reply although the client is still there.
The websocket handler goes on
after a failed write of an error it found itself and ends after any other; a
gRPC stream ends after both (`lenient`). `HTTPCall`, `GRPCCall` and `NATSCall` are the
one-shot handlers. `Signal`, `GRPCStopped` and `Exit` are `main`. What a call
does inside the service is `Invocation`'s matter, what a subscription delivers
`EventBus`'s: here `Invoke` may fail or succeed, and fails for an id cancelled
before. Clients open, send and leave when they like.

### Codec, Registry, McpAdapter

`Codec` has one operator per conversion of `grpc_server.go`. Enumerations are
tables with the default of the `switch`; a number is cut to its width (`Unsigned`,
`Signed`); a map is a function from keys to the Go types of its values, so that
`mapToStruct` does what `structpb.NewStruct` does with a type it does not know:
it gives up the whole map. The widths are constants, so that TLC can use small ones
and the proofs any.

In `Registry` a request is sent by a client (`Send`), waits in `queue`, is handled
in one step and answered (`Handle`: `Refuse` for everything before the service,
`handle...` for the rest), and its answer travels in `replies` until the client
reads it (`Receive`), reads it in part (`ReceivePart`) or has given up (`GiveUp`).
`s` is the memory of the service; `Restart` replaces it by a new one, loses what is
queued and keeps the audit file, the clients and the answers on their way. Each
operation of the service is an operator with the error it returns, and the handler
around it adds what that binding makes of it. `Invoke` is one step here: its parts
and their interleavings are the subject of `Invocation`, and the clients of this
repository send neither idempotency keys nor cancellations. A record and its line in
the audit file are one step, as they are one critical section; the write may fail or
leave a part, as in `Invocation`. A crash between the two loses a record that nobody
was told of. `past`, `learned` and `results` are history variables; `learned` notes
every thing a client was told to exist together with the process that said so, also
when the answer of an earlier process arrives after a restart.

`McpAdapter` adds the adapter's goroutines: `AnswerLocally` and `Bridge` are
`ServeHTTP` with its three methods up to the answer or the request to the gateway,
`Returns` the rest of `postJSON` and the reply to the MCP client.

Reading this code showed a few things that its documents do not say, or say
otherwise; they are modelled as the code has them:

* `docs/interop/MCP-MIG-MAPPING.md:104-116` gives each MIG error a JSON-RPC code of
  its own (`MIG_TIMEOUT` is `-32008`); the adapter answers `-32603` for all of them
  (`server.go:226`), and `-32011` for a failed connection. `ToolCallsTold` tells the
  answers apart by what they say, not by these numbers.
* The same document, line 152, asks for scopes to be checked before a capability is
  listed; `tools/list` calls `discover` and then lists the manifest.
* Every request of the adapter names the tenant `mcp-adapter` (`AdapterTenant`), to
  which the calls of all its clients are billed, and with authentication it works only
  with a token of that tenant. `MCP-MIG-MAPPING.md:32` says "Adapter behavior MUST
  preserve auth context, tenant context, and trace context", lines 134-136 "Adapter
  MUST carry: `tenant_id`", and `rfc/MIG-0001.md:296` says the same. No property here
  takes either side: `ToolCallsTold` says which capability is executed, not for whom.
* The meta of a gRPC answer is always empty: `idg.principal_scopes` is a `[]string`,
  which `structpb.NewStruct` refuses.
* Schemas are stored and never read; `ValidatePolicy` does not look at scopes; the
  SDK client sends no credentials.

## 3. Runs

Passing runs (all with a mutant for each property; see `PROJECT.json`):

| Run | Instance | Shows |
|---|---|---|
| `invoke_keyed` | 3 calls, 4 requests sharing a key across payloads, tenants and capabilities; re-registration; a quota of 1 | `DuplicatesOverlap`: two executions under one key were in flight together. `ReplayIsFaithful`: a replay is the response of an executed call with the same tenant, capability and key. `QuotaSlack`: a quota is passed by no more than the calls in flight together. `UsageMatchesAudit`: usage equals the audit log at every moment. `TypeOK` |
| `invoke_outcomes` | 2 calls, every early return, cancellations, quotas, timeouts, late results, audit writes that fail or stop half-way, Close | `OutcomesBooked`: each outcome counted once. `SinkMirrorsAudit`: the writes to the audit file are those of the first records of the log, in order and none twice, and of all of them until `Close`. `MeteringRefines`: implements `UsageLedger`. `CallsReturn`: every admitted call returns and every worker ends, after a timeout too |
| `bus` | 2 handlers, capacity 1, 3 events; cursors absent, inside and beyond the log; every refusal; NATS | `EventsAccounted`, `DeliveryInOrder`: nothing lost, doubled or reordered at the switch from snapshot to channel except what a full channel dropped. `SendsOnlyToOpen`: no send on a closed channel. `FeedRefines`: implements `OrderedFeed`. `StreamDrains`: a client that reads gets what its handler was given unless it leaves, although the other client may never read. `TypeOK` with the channel's bound |
| `sessions` | 2 connections of 5 kinds of request, 2 frames each of 3 kinds, undecodable frames, calls over HTTP and gRPC, shutdown | `ViewerConsistent`: gauge, connection list and subscriber maps agree. `SpeaksForPrincipal`: every call carries its principal's tenant. `FramesAnswered`: each decoded frame answered once, in order, and no hanging up on a client that stays but for a frame that cannot be decoded. `ServiceOutlivesGRPC`: no gRPC handler is left after `GracefulStop`. `TypeOK` |
| `sessions_live` | 2 connections, failures while opening, 1 frame, undecodable frames, a NATS call, shutdown | `SessionsEnd`: a handler whose client has left or has sent what cannot be decoded returns. `ShutdownEnds`: the process ends once its gRPC clients have left, whatever HTTP clients do |
| `gateway` | 14 requests over both bindings and every endpoint, 4 MCP requests, 3 sent and 2 in flight, failing audit writes, 1 restart | `ReferentialIntegrity`: what is stored refers to what exists. `LearnedResolves`: what the running process has told a client to exist does. `AuditFileIsHistory`: the writes to the audit file are the history of all processes. `AnswerTellsExecution`: a response means one execution, an error of the gateway none, a timeout at most one. `ToolCallsTold`: the same for MCP clients, with the capability. `BindingsAgree`: both bindings decide alike. `DeadlineKept`: deadlines survive conversion and multiplication.  `TypeOK` |

Runs that exhibit a disagreement between the code and what is said of it:

| Run | Property | Said | The code |
|---|---|---|---|
| `idempotency_race` | `AtMostOnceExecution` | `docs/USER-GUIDE.md:171`: the key "deduplicates repeated calls" | the cache is read at admission and written at the end, so overlapping calls both execute (`service.go:255`, `306`). What does hold is `DuplicatesOverlap` |
| `idempotency_key_collision` | `ResponseMatchesCapability` | the same: "per tenant + capability + key" | the three are joined with `:` unescaped (`service.go:256`), so two different calls may share an entry |
| `cancel_in_flight` | `CancelTerminatesInFlight` | `rfc/MIG-0001.md:151`: the server "MUST terminate work promptly" | cancellation is read only at admission; a call in flight executes and answers success |
| `audit_line` | `EachInvokeHasALine` | `docs/USER-GUIDE.md:444`: "Each successful invoke appends one JSON line"; `docs/MIGD-RUNTIME-GUIDE.md:106` | the result of the write is dropped and there is no file after `Close` (`service.go:645`): the line of a successful call may be missing, or be a part to which the next is glued. What does hold is `SinkMirrorsAudit` |
| `slow_subscriber` | `AtLeastOnce` | `service.go:137`: `at_least_once`; `rfc/MIG-0001.md:142` | a full channel drops the event silently (`service.go:361`) |
| `nats_echo` | `OneEventPerPublication` | `docs/USER-GUIDE.md:396` | the binding receives its own mirror and publishes it again, without end |

### Bounds

TLC explores every reachable state of each instance. `Calls`, `Handlers` and
`Conns` are 2 or 3: the races are between two goroutines, and a third call makes
an overwritten cache entry be replayed. `ChanCap` is 1 or 2 instead of 32: what
matters is that a channel can be empty, partly filled and full, and no action
depends on the number otherwise. `MaxEvents` exceeds the capacity plus what a
handler has taken, so that drops happen and delivery goes on after them.
`MaxFrames` is 2, so that a frame follows one that failed. `MaxRejected` and
`MaxRejectedCancels` bound calls that only increment a counter. In `gateway` three
requests are an organisation, its tenant and that tenant's gateway, or a quota, a
call and one too many, with a restart anywhere; two in flight make answers cross.
Its widths (16 on the wire, 256 for `int`, 8 nanoseconds in a millisecond) keep the
proportion that matters: every number on the wire, multiplied, fits. Symmetry is used
in `sessions`, where the specification never compares or chooses among connections;
runs that check liveness use none. The bound on events means that `StreamDrains` says
nothing of publishers that never stop; a send never waits for a publisher except for
the lock, which no step holds while it waits.

`CHECK_DEADLOCK FALSE` is said where the system may stop: clients may stop
sending, and an exited process does nothing.

### Fairness

Only steps that the Go runtime or the libraries guarantee are fair, and all of
them weakly: a worker sends its result into a buffered channel; an `Invoke` that
waits gets a result or its deadline; a handler that can release, unregister or
close does, because no step waits while holding the lock; reading from a client that
has left, and writing to one, fail or succeed and so end; `main` goes on when
`GracefulStop` returns, and `Shutdown` has a timeout of ten seconds.

Nothing is assumed of clients: they need not send, read, stay or leave. A write to a
client that is there need not end, for `main.go` sets no write timeout and a gRPC
`Send` waits for flow control. `StreamDrains` therefore has the reading of its own
client as a premise (`Reads`: weak fairness of that handler's sends alone), so that it
says what is left when others do not read. `ShutdownEnds` is conditional for the same
reason: `GracefulStop` waits for gRPC clients that stay, possibly for ever. In
`gateway` nothing is fair: a request may never be answered, and what ends the wait of a
caller is the timeout of its `http.Client`.

## 4. Proofs

All proofs are checked by tlapm, for every value of the constants that satisfies
the named assumptions (which say that the requests, frames and descriptors are
well-formed records, that bounds are natural numbers, that the empty string is no
identifier, that there are finitely many calls, connections, tenants and
capabilities, that NATS subjects name a tenant, and that a number of the wire, in
nanoseconds, fits an `int64`). TLC evaluates the assumptions in every run.

| Theorem | Statement | Argument |
|---|---|---|
| `InvocationProofs!TypeCorrect` | `Spec => []TypeOK` | inductive; one lemma per action |
| `InvocationProofs!DuplicatesOnlyOverlap` | `Spec => []DuplicatesOverlap` | `DuplicatesOverlap` speaks of executed calls only, and a step that executes a call knows nothing of the past. `DedupInv` adds the calls in flight (a call overlaps its duplicate before either executes) and that the cache has an entry for every executed key (which keeps later calls out) |
| `InvocationProofs!ReplaysAreFaithful` | `Unambiguous` implies `Spec => []ReplayIsFaithful` | `OriginInv`: each cache entry, and each replay, is the response of an executed call with that key. `Unambiguous` says that the joined key determines its parts; `NoSeparatorUnambiguous` shows it for identifiers without the separator, and the run `idempotency_key_collision` shows that it is needed |
| `InvocationProofs!MeteringCorrect` | `Spec => MeteringRefines` | step simulation from the type invariant: each action is one step or a stutter of `UsageLedger` |
| `MeteringProofs!OutcomesAreBooked` | `Spec => []OutcomesBooked` | inductive with `TypeOK`: a step that ends a call adds that call, which had not ended, to one of the counted sets, and one to its counter |
| `MeteringProofs!QuotaSlackBounded` | `Spec => []QuotaSlack` | a call compares the quota with a usage read at admission. `SlackInv` says how stale that figure is: of any two calls in flight each has met the other, so the usage has grown by exactly the executions of calls met since |
| `MeteringProofs!SinkIsMirror` | `Spec => []SinkMirrorsAudit` | inductive with `TypeOK`: a commit makes one write, of the record it appends, whatever part of it reaches the file; after `Close` the log grows alone |
| `MeteringProofs!UsageIsAudited` | `Spec => []UsageMatchesAudit` | `UsageInv` states the counts as cardinalities. `ExportCounts` (the loop of `AuditExport` returns as many records as match) and `SumGrows` (a map with one entry incremented sums to one more) bring it to what the two answers say |
| `EventBusProofs!TypeCorrect` | `Spec => []TypeOK` | inductive, channels within capacity |
| `EventBusProofs!ChannelsOpen` | `Spec => []SendsOnlyToOpen` | the subscriber map holds only handlers that have not reached `CloseChannel` |
| `FeedProofs!DeliveryIsOrdered` | `Spec => []DeliveryInOrder` | `FeedInv`: the log is numbered from 1, and what a handler has sent, replays and has in its channel is one stream of entries of that log, increasing, complete but for what was dropped. The channel must be in it: an event published before the replay ends is delivered after it |
| `FeedProofs!EventsAreAccounted` | `Spec => []EventsAccounted` | from `FeedInv`, with the length of the log at the snapshot as the border between replay and channel |
| `FeedProofs!FeedImplemented` | `Spec => FeedRefines` | step simulation: by `FeedInv` the event a send shows lies behind all those shown before |
| `SessionsProofs!TypeCorrect` | `Spec => []TypeOK` | includes `StackOK`: each handler's stack is a prefix of what its kind needs, whole while it serves, empty when it has returned |
| `SessionsProofs!TenantsSeparate` | `Spec => []SpeaksForPrincipal` | `SpeaksInv` adds `Admitted`: a handler that runs passed the middleware. Without it a frame's check (header against principal) would say nothing about the token |
| `SessionsProofs!NoGRPCAfterStop` | `Spec => []ServiceOutlivesGRPC` | inductive with `TypeOK`: after `GracefulStop` nothing gRPC can be opened |
| `SessionsProofs!BindingsAgree` | a fact about `Tenancy` | the HTTP and the gRPC versions of the header check, which are different code, decide alike for every authenticated request unless a tenant is called "unknown" |
| `StreamsProofs!FramesAreAnswered` | `Spec => []FramesAnswered` | `FrameInv` adds that the reply a busy handler prepares bears the header of the last frame it read: the write comes steps later. `HangUpInv` (theorem `HangUpHasReason`) says of every handler that has read a frame and is on its way out that its client has gone or has sent what cannot be decoded |
| `StreamsProofs!ViewerIsConsistent` | `Spec => []ViewerConsistent` | `BooksInv` ties each book to the stacks of deferred calls: listed, subscribed or counted are exactly those that have still to undo it. `StackOK` then gives what a handler at a given stage holds |
| `GatewayProofs!TypeCorrect` | `Spec => []TypeOK` | `TypeInv` adds what the later proofs read: the types of the answers, of the adapter's calls, and that requests are numbered apart |
| `GatewayProofs!AuditFileComplete` | `Spec => []AuditFileIsHistory` | inductive with `TypeInv`: only `Execute` and `Restart` touch either side, and each write is of the record appended, whole or not |
| `GatewayProofs!RegistryIntegrity` | `Spec => []ReferentialIntegrity` | `MapStep`: a step keeps the three maps, starts them anew, or adds one entry whose reference is there; entries are never removed |
| `GatewayProofs!ToldExists` | `Spec => []LearnedResolves` | `learned` grows when an answer is read, long after it was made. `ToldInv` therefore speaks of the answers on their way: one of this process tells only of what exists, and neither an answer nor what was learned comes from a process yet to start, so that a restart leaves nothing to show. It rests on `SameRequest` (queue and client hold the same request) and `CapabilitiesNamed` (a descriptor is stored under its id) |
| `GatewayProofs!EndsTellExecutions` | `Spec => []AnswerTellsExecution` | `ExecutionInv` follows a request: not executed while queued, executed once or not according to the answer on its way, and nothing changes that after its end |
| `GatewayProofs!ToolCallsReadable` | `Spec => []ToolCallsTold` | `ToolInv` says the same of each call of the adapter together with the request it forwarded, whose capability is the first mapping of the tool |
| `GatewayProofs!DeadlinesKept` | `Spec => []DeadlineKept` | `DeadlineInv` for the answers on their way; `BudgetExact` for the product |
| `BindingsProofs!HandlersAgree` | `Spec => []BindingsAgree` | by operation, for the request and its counterpart on the other binding: principal, refusal, conversions there and back, the operation of the service, the answer. From the type invariant alone; `Wellformed` says which requests can be put on both |

The prover has no induction over data that it can use, so the inductions of
`MeteringProofs` (over the subsets a sum is taken of, over the length of a log) are
written as an argument about a least counterexample, from the well-foundedness of
`<` on the naturals. Each inductive invariant was checked by TLC on the instance of
its run before it was proved.

Every invariant and both refinements that the runs check are proved.

**Only model-checked.** Liveness (`CallsReturn`, `StreamDrains`, `SessionsEnd`,
`ShutdownEnds`), which is beyond the prover, and the six
disagreements, which are counterexamples.

## 5. What is left out

* Payloads, schemas' contents, timestamps, actors, remote addresses and JSON: no
  property is about them. Decoding failures end a request before it has an effect
  (`Refusal` in `Registry`) and a stream (`Undecodable` in `Sessions`). HTTP and gRPC statuses are in `Registry` only.
* Time: a deadline or timeout may expire at any moment; its length is a number only
  in `Codec`. A `deadline_ms` beyond the width of the wire, which JSON can carry over
  HTTP and NATS, overflows above about 9.2e12 (`Signed`) and the call times out at
  once; `DeadlineKept` speaks of those that fit the wire, and no property of the others.
* Of the NATS binding, `SpeaksForPrincipal` says little: there the principal is made
  from the header it is compared with.
* Signature verification: a Boolean of the token. Scopes: in `Invocation` and
  `Registry`.
* Identifiers that are blank or padded with blanks: HTTP and gRPC trim the tenant
  they read from headers, and the models' identifiers are trimmed.
* Metrics are taken as enabled in `Sessions`; when they are not, there is no
  gauge to be consistent with.
* The websocket handler's `conn.Close` is a resource with nothing to undo in the
  books.
* `Connections` (a filtered listing) and `ConformanceHealth` (a constant).
* `streamPreferenceFromProto`, whose result nobody reads, and
  `eventMessageToProto`, which converts nothing but the header.
* A cancelled id stays cancelled for ever although the error says that the call may
  be retried (`service.go:251`). The model has this; a property would restate it.
* A restart in `EventBus`: clients that keep cursors of an earlier process appear
  there as cursors beyond the log.
* Configuration (read once at start), the UI page (static), generated code and test
  drivers: they keep no state that the program's own code changes.

## 6. Plan

Done: every component that keeps state or decides something, with the theorems
above.

Next theorems: the positive counterparts of the disagreements, under the condition
that each lacks. A subscriber that never fills its channel is shown every event; an
id cancelled before a call is admitted is never executed; a key used by one call at
a time is executed once.

## 7. Running

    tlc -workers 2 -config Sessions.cfg MCSessions     # any row of PROJECT.json "runs"
    tlapm SessionsProofs.tla                           # any of the eight proof modules
