# A verification development of secure-mcp-gateway

secure-mcp-gateway is an HTTP reverse proxy in front of an MCP server. Every
request passes token verification (OAuth2 introspection at ORY Hydra, cached),
a policy decision (OPA) and the proxy; what happened is recorded in an audit
log that a gRPC service pages out. This directory holds TLA+ models of that
system, the TLC runs that check them on small instances, and TLAPS proofs of
the main results for all values of the constants.

## 1. The system

| Component | Source | State it keeps | Operations |
|---|---|---|---|
| Token verification | `internal/auth` | `TokenCache.entries` under an RWMutex; one goroutine per request | `Handler`, `Get`, `Set`, eviction, `Introspect`, `extractBearerToken` |
| Policy enforcement | `internal/policy`, `policies/` | none; replaces `r.Body` | `Handler`, `buildInput`, `readBody`, `Evaluate`, `default.rego` |
| Audit middleware | `internal/audit/middleware.go`, `requestid.go` | a status recorder per request; replaces `r.Body` | `Handler`, `WriteHeader`, `Write`, `Flush`, `extractToolName` |
| Reverse proxy | `internal/proxy` | none of its own; deadlines on connections | `handleProxy`, `forwardRequest`, `handleSSE`, `handleHealth` |
| JSON-RPC parser | `internal/jsonrpc` | none | `Parse`, error responses |
| Audit trail | `internal/audit/{entry,logger,store}.go` | log file; ring buffer of 10,000 entries under an RWMutex | `NewEntry`, `Log`, `Append`, `List` |
| Management API | `internal/grpcserver` | none | `ListAuditLogs`, `Health` |
| Process lifecycle | `cmd/secure-mcp-gateway` | two servers, a signal channel, an error channel | `run` |
| Configuration | `internal/config` | six values read once | `Load`, `validate` |

`gen/` is protoc output and `internal/testutil` a mock server for tests. ORY
Hydra, OPA, the upstream MCP server and net/http are external.

**How they interact.** `main.run` chains RequestID -> Audit -> Auth -> Policy ->
Proxy; each layer calls the next with the same request and response writer. So
the layers meet in three places: the *body stream*, which audit, policy and
proxy each read, limit and replace; the *response header map*, in which auth
leaves the client's identity (`X-Audit-Client-Id`) for audit to pick up and
strip when the status is written; and the *request context*, in which auth
leaves `TokenInfo` for policy. The token cache is shared by all requests. The
audit store is shared by all requests and by the gRPC readers.

**What is hard.** Requests that race on the cache between a locked read, a
clock reading, a call to Hydra and a locked write; answers that arrive out of
order; time passing between two readings of the clock; three readers of one
body, each with a limit; a decision inferred at the end from a status that
several layers and upstream share; the exactly-once audit entry on every path,
streams included; an event stream relayed between an upstream that emits when
it likes, a client that may leave and a context that may end; paging through a
ring that moves; a crash between the line in the file and the entry in the
ring; a revocation that overtakes, or does not overtake, the requests that the
cache still admits. `PROJECT.json` lists each under "hazards"
at its line.

**What makes each part correct.**

- Token verification: whoever is admitted is admitted as the owner of the
  token, on a word of Hydra that is not too old, whatever the interleaving; the
  cache keeps its limit and evicts in the announced order; every request is
  decided.
- Pipeline: what is forwarded is what the policy allowed; an entry tells who
  called what and what came of it; one entry per request; no event of a stream
  is held back or lost; a request that can end does end.
- Audit trail: a page is a page of the log of all appends; a walk misses
  nothing that stays and comes to an end; nothing is shown that has no line.
- Process: a signal or a failed server ends it, unless a client of the
  management API holds it; a shutdown that goes through loses no entry, and the
  exit code tells whether it did.
- The whole: a revoked token's calls stop reaching upstream; what an operator is
  shown is what happened; a forwarded call has its line, once; each request acts
  as the client that Hydra named for its own token.

## 2. The modules

| Module | Role |
|---|---|
| `TokenGate` | abstract: what token verification promises, without a cache |
| `TokenAuth` | detailed: Handler, cache and Hydra call, step by step |
| `TokenAuth_proofs` | theorems about `TokenAuth` |
| `Mediation` | abstract: what the request path promises, without layers |
| `Gateway` | detailed: the request pipeline, all layers composed |
| `Gateway_proofs` | theorems about `Gateway` |
| `AuditTrail` | abstract: a log of which the newest entries are read by pages |
| `AuditStore` | detailed: writers, ring, file, ListAuditLogs, restarts |
| `AuditStore_proofs` | theorems about `AuditStore` |
| `System` | `Gateway`, `TokenGate` and `AuditStore` joined, with crashes |
| `System_proofs` | theorems about `System` |
| `Deployment` | `System` with the cache of `TokenAuth` in the place of `TokenGate` |
| `Deployment_proofs` | theorems about `Deployment` |
| `Service` | abstract: what the process promises to its callers and its operator |
| `Lifecycle` | configuration, `main.run`, both servers, signals, the shutdown |
| `Lifecycle_proofs` | theorems about `Lifecycle` |
| `MCTokenAuth`, `MCGateway`, `MCAuditStore`, `MCDeployment`, `MCLifecycle` | instances for TLC |

Five pairs are joined by refinement: `TokenAuth` implements `TokenGate`,
`Gateway` implements `Mediation`, `AuditStore` implements `AuditTrail`,
`Lifecycle` implements `Service`, and `Deployment` implements `System`. `System`
is built from `TokenGate`, which keeps the cache's interleavings out of its
proofs; `Deployment` puts them back.

### TokenAuth

A request is a goroutine whose step ends wherever another goroutine may run:

| Action | Code |
|---|---|
| `RejectHeader` | `extractBearerToken` fails, 401 |
| `ReadCache` | `Get` under the read lock |
| `CheckEntry` | `Get` compares the copy with the clock, *outside* the lock; Handler decides on a hit |
| `DeleteEntry` | `Get` takes the write lock and deletes the key |
| `Introspect`, `IntrospectFails` | Hydra answers, or there is no usable answer |
| `ComputeLife` | `Set` reads the clock and computes the lifetime; returns when it is 0 |
| `Store` | `Set` under the write lock (eviction, second reading of the clock), then Handler's decision |
| `Tick`, `Revoke`, `Arrive` | time, revocation at Hydra, the next request |

`cache` is `TokenCache.entries` (keys are hashes of tokens; SHA-256 is taken to
be injective). Each entry also carries, as history, the instant `at` of Hydra's
answer, which the code does not keep: freshness is stated with it. The clock of
the gateway and of Hydra is one clock.

`MaxLag` names a delay the code does not limit: how long a request may sit on
an answer before `Set` has stored it (scheduling and lock waiting). All
freshness results are relative to it. With `MaxLag = 0` they say that an entry
never outlives its token and TTL. The doc comment of `Set` (`cache.go:107-108`)
says so without a condition; as `Set` reads the clock twice, an entry may outlive
its token by the time between the readings, which is why `CacheFresh` allows for
it.

`Spec` adds weak fairness of every request's own steps: a runnable goroutine
runs, no critical section blocks, and Hydra's client has a 10 s timeout
(`token.go:82-86`), so `Introspect \/ IntrospectFails` is taken. Fairness of
`Tick`, `Revoke` and `Arrive` is not assumed.

### Mediation and Gateway

`Mediation` says what the path promises with one step each for identifying the
caller, handing over upstream, and ending with an entry. A call may be handed
over once, in the name of the client whose token the request presents, and only
with a right to it. `Gateway` maps to it by `Contract`; `Rights` leaves out what
the policy does not govern.

In `Gateway`, `pc[r]` is the layer that holds request `r`. A request has a
*shape*: method POST or not, event-stream or not, JSON or not, what
`jsonrpc.Parse` would make of its body, whether the body is whole, longer than
1 MB or broken off by the client (`cut`), whose token it presents, whether its
client reads the response. `body[r]` is what the next reader of `r.Body` gets;
`Truncated` and `Restored` are what `MaxBytesReader`, `ReadAll` and the
replacement of `r.Body` do to it. `Respond` is `statusRecorder.WriteHeader`.
Token verification is left open as in `TokenGate`: a request with an owner may
be admitted as that owner or rejected. OPA decides by `default.rego` over
`Grants` (`policies/data.json`) or fails, and any request may be denied (an OPA
failure): `Verdicts` is what `Evaluate` may return to a caller that treats an
error as a deny. A text of which the first megabyte is itself a request is
possible (trailing white space), so `text` and `cut` are independent.

| Actions | Code |
|---|---|
| `Arrive`, `Health`, `AuditEnter` | request ID, `/health`, the body limit and tool name of the audit middleware |
| `Admit`, `Reject` | the end of the auth middleware |
| `PolicyPass`, `PolicyAllow`, `PolicyDeny` | `buildInput`, `readBody`, `Evaluate`, 403 |
| `Refuse`, `Relay`, `UpstreamAnswer`, `UpstreamFail`, `CopyEnd` | `handleProxy`, `forwardRequest` |
| `SSEStart`, `SSEAnswer`, `SSEFail` | `handleSSE` up to the status |
| `StreamRead`, `StreamWrite`, `StreamFlush` | its loop: one `Read`, one `Write`, one `Flush` |
| `AuditExit` | decision and entry |
| `UpstreamEmits`, `UpstreamCloses`, `ClientLeaves`, `ContextEnds` | the world around a stream |

An event stream is four counters: what upstream has emitted, what `handleSSE` has
taken and written, what its client has got. A read may take several events and
may bring the error that ends the stream along with the last ones. A written
event lies in net/http's buffer until a flush, which goes through the recorder.
`ContextEnds` is the end of the request's context. net/http cancels it when its
background read of the connection fails, which it starts once the request body
has been read to the end (`Watched`). That is so when the client leaves, and
also when the connection's read deadline passes: `ReadTimeout` sets that to
30 seconds after the request began, and nothing moves it. So the action needs
no client that leaves, and the run `gateway_stream` shows what comes of it. A
client that sends more on the connection before it has its answer would end the
background read early, and with it this way to end; clients are taken to wait for
their answer, and `ReadersFinish` rests on that.

Fairness is weak, on `Serve(r)`: the gateway's own steps and exchanges that an
HTTP client timeout ends (Hydra 10 s, OPA 5 s, upstream 30 s). It does not make a
blocked write go on: `CopyEnd` and `StreamFlush` wait for a client that reads or
leaves. A watched context ends at the read deadline at the latest, hence weak
fairness of `ContextEnds(r)` where `Watched`; a call made with a context that is
over fails, hence that of `SSEFail(r)` where the context is over. All else is
outside (`Await`) and has none: arrivals, the answer to an event stream (its
client has no timeout, by design), events, the end of a stream, a client that
closes its connection. The requests are finitely many; `Finished` is the
stuttering end.

Not in the model: the header copying beyond `X-Audit-Client-Id`, the request
ID, scopes, log lines, redirects (301s of ServeMux for unclean paths; the HTTP
clients that reach upstream follow those it sends), and failures that no request
can cause (`json.Marshal` of a fixed struct).

### AuditStore

An entry is its number; the code draws a random UUID. `NewEntry`, `WriteLine`
and `AppendEntry` are the three steps of recording a request; slog's failure to
write is a choice, as `Log` ignores it. `slots`, `head` and `count` are the
ring. `ListAuditLogs(c, size)` is one call of client `c`: both clamps, `List`
under the read lock, the next token. `scan[c]` is the client's side of a walk:
its token, and as history what was stored when the walk began and what it has
been shown. `Probe(c, offset, size)` is a call with a token that the client has
kept from another walk or made up; one that is negative or no number is refused
and changes nothing. `Restart` empties the process; file and tokens stay.

`Trail == INSTANCE AuditTrail WITH log <- appended` is the refinement: the ring
is seen as the history variable of all appends.

### System

The composition takes the actions of its parts by INSTANCE and joins them where
the code meets. `AuditEnter` hands a request to token verification with a token
that fits its shape (`Presents`); `Admit` and `Reject` are the joint end of
both. `NewEntry`, `WriteLine` and `AppendEntry` are the audit middleware's exit
in the store's three steps, the last together with `Gateway`'s `AuditExit`.
`about[e]` is what entry `e` says, as `AuditStore` knows entries by number only.
`Crash` is the store's `Restart` and the death of all requests in flight
(`dead`), which take no further step. Time and revocation go on beside it, and
an operator reads at any point. Made-up page tokens (`Probe`) are left to
`AuditStore`, where they are checked. `arrivedAt[r]` is history: the property on
revocation speaks of it.

A crash does not empty the token gate: the cache that it would empty is behind
`TokenGate`, whose promise holds of an empty cache as well (`Deployment` shows
that it does).

The composition states safety only. It stops when requests, entries and ticks
are used up, so its run does not check deadlock.

### Deployment

`System` says how the gateway works if token verification keeps its promise;
`Deployment` is the gateway with the verification that the code has. It keeps
all of `System`, takes the steps of `TokenAuth` by INSTANCE (its `pc` under the
name `authpc`) and joins the two where the auth middleware is called and where it
calls on:

| Action | What it joins |
|---|---|
| `EnterAuth` | the audit middleware's call (`Gateway!AuditEnter`), the start of `TokenAuth`'s handler |
| `Verify` | one step of `TokenAuth`; its last one is also `Gateway!Admit` or `Gateway!Reject` |
| `Elsewhere`, `Reading` | `System`'s other actions; the cache does not change |
| `Outer` | `TokenAuth`'s clock and Hydra |
| `Die` | `System`'s `Crash`; the cache and what the requests held are gone |

`verdict`, the state of `TokenGate`, stays as an auxiliary variable: it is what
`Verdict` computes of `authpc`, and only the proofs look at it. `ctx[r]`, the
identity in `Gateway`'s request context, is that of the shape's owner;
`client[r]` is what the cache or Hydra has answered in `TokenAuth`.
`IdentityIsHydras` says that the two agree, and fails as soon as the cache gives
a request another token's entry.

### Lifecycle

The environment (`config`) gives each of the three required URLs as missing,
malformed or valid, and the audit log as stdout or a path. `pc` is where `run`
stands, and each of its steps is an action: `LoadConfig`, `OpenLog`, `Build`,
`Listen` (each may fail and end the process), `Notify`, `Select`, `StopGRPC` and
`RPCsDone` (the two halves of `GracefulStop`), `Shutdown`, then `Drained` or
`GiveUp`, `CloseLog`, `Return`. Beside it run the servers' goroutines (`Serve`,
`Fail`), the handlers (`Accept`, `Record`), the RPCs (`Call`, `Send`, `Reply`), the
signal and the timer (`Signal`, `Expire`). A handler is here one of `Gateway`
seen from outside: it runs until it has logged its entry, for ever with a
client that does not read.
`End` is the end of the process: handlers that still run are cut off. `errCh`
has room for both servers, so it is a set and no goroutine blocks on it. The
`nil` a server returns once it was told to stop is never read and is left out.

`Service` is the process seen from outside: a door that opens once and shuts for
good, requests, whether somebody has told it to end, whether the time for an
orderly end is over, and the exit code. Two ends may cut requests off, a first
signal that kills and giving up behind a shut door when the time is over; an end
in good order leaves nobody inside, and reports no error only if it was asked
for. `Lifecycle`'s `ServiceContract` maps to it: the door is the HTTP server.

An RPC is `held` from its start until its client sends the message (then `Reply`
answers it) or leaves. `grpcserver.New` sets no limit on that, and `GracefulStop`
waits for it outside the 30 seconds of the shutdown.

Fairness: `run`'s own steps, the timer, a server's start, and `Reply`, which only
reads memory. No request is assumed to end, which is what the 30 seconds are for,
no client of an RPC to send its message, and no signal to come. So the process
need not end: a client that holds an RPC open keeps it in `GracefulStop`, and
without its condition `ProcessEnds` fails with that behaviour. With it, the
property says that nothing else can: neither requests without end, nor a server
that fails meanwhile, nor one that fails while it starts.

net/http's `Shutdown` is external: it waits for the connections that serve a
request, and looks for them before it looks at its context. Connections that
have not sent a request yet, and one that wakes up in the instant it is closed
as idle, are not told apart.

## 3. The runs

| Run | Instance | Shows |
|---|---|---|
| `auth_capacity` | 2 requests, 3 tokens, 2 slots, TTL 2, lag 1, clock 0..2 | limit, freshness and eviction order while tokens compete for slots |
| `auth_contract` | 2 requests, 2 tokens, 1 slot, TTL 2, lag 1, clock 0..3 | refinement of `TokenGate`, and every request is decided |
| `gateway_paths` | 1 request of any shape, 3 clients, 2 tools, 2 events | every path: policy, audit, once, streams, termination, refinement of `Mediation` |
| `gateway_malformed` | same | **violated**: malformed POST with an event-stream Accept goes upstream |
| `gateway_oversized` | same | **violated**: no size-limit error for an oversized JSON body |
| `gateway_decision` | same | **violated**: an authorized, forwarded tool call is recorded as DENY when upstream answers 401 or 403 |
| `gateway_deadline` | same | **violated**: the write deadline reaches no connection |
| `gateway_stream` | same | **violated**: a healthy event stream ends at the read deadline of its request |
| `audit_store` | 2 writers, 1 reader, ring of 3, pages of 1 and 2, 5 entries, any token | walks, ring, crash, refinement of `AuditTrail` |
| `system` | `Deployment`: 2 requests of 2 shapes, 2 tokens, a cache of 1, TTL 1, lag 0, clock 0..2, ring of 1, 1 operator | revocation, identities, what the operator sees, every call accounted for, `TokenGate`'s promise kept in the whole, over crashes |
| `lifecycle_process` | 3 requests, 1 RPC | no entry lost by a shutdown that goes through; the process ends unless an RPC is held open for ever; refinement of `Service` |
| `lifecycle_audit` | 2 requests, 1 RPC | **violated**: coverage is not 100% when the shutdown runs out of time (`main.go:68`) |

**Why the bounds are enough to be interesting.** Two requests are what a race
on a key needs: a slow and a fast one. Three tokens on two slots make eviction
choose; one has no `exp`, one expires at 1, one at 2, so entries expire in
every order against `TTL = 2`. Three ticks with `TTL = 2` carry an entry past
its lifetime. A ring of three with five entries wraps and overwrites; a page of
one gives walks of three calls, with appends and a restart between them; sizes
0 and 5 hit the default and the maximum, offsets 0..4 lie before, at and past the
end of the ring. In `Gateway` no action of a request reads what belongs to
another, so one request of all shapes covers it; the theorems hold for any
number. It meets 428,717 states. Upstream answers with 200 or 403: the code
tells 401 and 403 from the rest, and the gateway's own 401 and 502 occur anyway.
Two events are what a stream needs for a read that takes several, one after
another, or the last with the error. In `Deployment` two requests meet through
the cache, the clock, the ring and the operator. The two shapes are a tool call
by the client with a right to it and a handshake by the other client, so an
identity or a method that slips from one request to the other is noticed; OPA may
fail for both. One token has no `exp`, the other expires at 1; one slot of cache
makes the two evict each other. The clock's two ticks carry a revocation past the
lifetime of a cached answer, which is where
`RevocationTakesEffect` bites; the lag is 0, since with `TTL = 1` a lag of 1
would move the bound to the end of the clock. A ring of one is overwritten by
the second entry. Upstream answers with 200 only: what its other statuses do is
`gateway_paths`' question. The run meets 3,301,697 states. That `Deployment`
implements all of `System` was checked on this instance too, and is not part of
the run because the theorem `ImplementsSystem` says it in general.
`auth_capacity` and `system` use symmetry of the requests, which is sound as they
check no liveness. In `Lifecycle` requests do not meet each other; three of them
are accepted before, during and after `GracefulStop`, and one RPC is enough to hold it up. The
theorems of section 4 remove the bounds where they apply.

Each property has a mutant in a module (comments "Mutant of ..."): the same
definition with a plausible mistake, under which the run fails.

A property of `system` is broken by a mutant of one component (`Gateway` or
`TokenAuth`): what goes wrong in a part is noticed in the whole.

The violated properties are comments of the source taken at their word; the
findings in `PROJECT.json` quote them. None of them is an assumption of another
run. In particular `ForwardedWasAllowed` claims only what the code achieves: it
covers regular POSTs and JSON-RPC calls over the event-stream path, and leaves
the malformed bodies to `MalformedStaysHere`.

## 4. The proofs

All theorems are checked by TLAPS from the named assumptions `ConstantsOK`
(`TokenAuth`), `SizesOK` (`AuditStore`), `PathOK` (`Gateway`), `SystemOK`
(`System`) and `DeploymentOK` (`Deployment`); TLC evaluates each on the runs of
its module.

`TokenAuth_proofs`, for every number of requests, tokens, slots, TTL and lag:

- `TypeCorrect`, `CacheStaysBounded`, `CacheStaysFresh`: `SafeSpec => []...`.
- `StoreEvictsInOrder`: the action property `EvictsInOrder`.
- `ImplementsGate`: `SafeSpec => Gate!Spec`.

Freshness of the cache is not inductive alone. An entry is made of an answer
that a request has held since Hydra gave it, and of a lifetime it computed
before; so `Inductive` adds, for each request, that the copy it is checking is
fresh (`HeldEntry`), that the answer it holds is true of its token, at most
`MaxLag` old and given before any revocation (`HeldAnswer`), and that the
lifetime it computed was right at the instant of the answer (`HeldLife`).
Finiteness of the cache's domain is part of `TypeOK` because `CacheBounded`
counts it. The refinement uses the same invariant: `CheckEntry` and `Store`
admit exactly when `TokenGate!Admit` allows.

`Gateway_proofs`, for any number of requests, clients, tools, grants, answers and
events:

- `TypeCorrect`, `PolicyIsTheOnlyWay`, `EntriesAreFaithful`, `OneEntryEach`,
  `EventsArePassedOn`, `StreamsAreWhole`: `SafeSpec => []...`, one for each
  invariant of `gateway_paths`.
- `ImplementsMediation`: `SafeSpec => PipelineContract`.

None of these is inductive, because each speaks of the end of a request and the
reason lies layers earlier. `Inductive` says per layer what has to be carried:
the identity on its way from the context through the header into the recorder
(`IdentityOK`); that no layer changes the text of the body, that the body of
a JSON POST is a complete stream from the audit middleware on, and that behind
the policy it is a text that was allowed, or garbage (`BodyOK`); that a refusal's status is still 401 or 403 when
the decision is made (`DenialOK`); the counters of a stream and what a read that
ended it implies (`StreamOK`); and that what was handed over, and each entry,
belongs to a request far enough on its way (`ForwardsOK`, `TrailOK`). One lemma
per conjunct has one step per action. The refinement's steps use that the
handing over happens in two actions only, `SSEStart` and `Relay`, both behind
the policy.

`AuditStore_proofs`, for every ring size, page size, number of writers and
readers:

- `TypeCorrect`, `WalksMissNothing`, `ShownWasWritten`: `Spec => []...`.
- `EveryWalkAdvances`: the action property `WalkAdvances`.
- `ImplementsTrail`: `Spec => Trail!Spec`.

The strengthening says that the slots read backwards from `head` are the end of
the log (`RingOK`), that an entry is in one hand or appended once and unknown
to readers until then (`IdsOK`), that whatever is appended has been written or
lost (`WrittenOK`), and that a walk has seen all it seeks among the first
`next` entries (`WalksOK`). `AppendShifts` is the arithmetic at the bottom: an
append moves every offset by one.

`System_proofs`, for any instance of all three parts:

- `ImplementsComponents`: `Spec => G!SafeSpec /\ T!Spec /\ A!Spec`. Each step of
  the whole is a step or a stutter of each part, so the theorems about the parts
  hold in it.
- `RevocationWorks`, `OperatorIsTold`, `CallsAreAccounted`: `Spec => []...`.

The argument takes the inductive invariants of `Gateway` and of `AuditStore` with
their proofs, through an INSTANCE of both proof modules, and adds `Meeting`: what
is true where the parts meet. An identity in the context means a token that the
gate admitted, with the bounds on its age at the request's arrival (`GateOK`);
an entry says what the layers know of its request, and is its only one
(`AboutOK`); a request that is over has a line, and one that is recording holds
the entry it made (`RecordOK`).

`Deployment_proofs`, for any instance of all parts, any cache size and lifetime:

- `ImplementsSystem`: `Deployed => Spec`.
- `KeepsTheGate`: `Deployed => TokenContract`, from the former and
  `ImplementsComponents`.
- `CachedRevocationWorks`, `CachedOperatorIsTold`, `CachedCallsAreAccounted`:
  the three results of `System`, of the gateway with its cache.
- `IdentityIsTrue`: `Deployed => []IdentityIsHydras`.

`ImplementsGate` speaks of `TokenAuth` alone. To use it inside the gateway, where
requests wait in other layers and a crash takes steps `TokenAuth` does not know,
its step form (`StepMaps`) is cited with its invariant. `Together` is the
invariant: that of `System`, that of `TokenAuth`, and `Agreement`, which says that
`verdict` is what `authpc` shows and that an admitted request has the owner of its
token as its client. `DieKeeps` is the crash: an empty cache and requests that
hold no answer satisfy `TokenAuth`'s invariant. `GateSees` and `OwnVerdict` are
the refinement: a step of request `r` that ends in the auth middleware is, seen
through `verdict`, a step of `TokenGate`, and can only be its `Admit` or
`Reject` of `r` itself, which is what `System` joins with the pipeline's. The
`Same...` lemmas say that the instance of the model and that of its proofs
define the same actions.

`Lifecycle_proofs`, for any requests and RPCs:

- `TypeCorrect`, `CleanShutdownLosesNothing`: `SafeSpec => []...`.
- `ImplementsService`: `SafeSpec => ServiceContract`.

The strengthening says that there is no server and no handler before the
listeners are up, that the HTTP server accepts nothing from `Shutdown` on, that
no handler runs once the log is about to be closed, and that the log is closed
only then; so nobody writes to a closed file and nothing is lost while the
process lives. The refinement needs the same: a failed start and the return are
ends in good order (`EarlyEnd`), `GiveUp` and a signal before `Notify` are the
two that cut off, and all that servers do is a move of the door (`DoorMoves`).

None of this needs fairness.

**Model-checked only**: liveness (`EveryRequestDecided`, `ReadersFinish`,
`ProcessEnds`), which is out of the proof system's reach. Every other property
of a passing run is a theorem.

## 5. The plan

Done: `TokenGate`, `TokenAuth`, `Mediation`, `Gateway`, `AuditTrail`,
`AuditStore`, `System`, `Deployment`, `Service` and `Lifecycle` with their runs
and proofs. Left, in this order:

1. `Service` beside `System`'s `Crash`, so that what an orderly shutdown promises
   of entries is said of `Gateway`'s requests and not of handlers seen from
   outside.
2. For the liveness properties, the part of them that is safety: a measure that
   every step of a request's own lowers, in `TokenAuth` and in `Gateway`.
3. Liveness of the composition: a request of a reading client is recorded
   although the clock, the operator and other requests go on.

## 6. Not modelled

Generated code and test helpers, as said in `PROJECT.json`. Within modelled
parts: an end of the process from outside in `Lifecycle` (`AuditStore`,
`System` and `Deployment` have it, as `Restart`, `Crash` and `Die`); redirects, by ServeMux and
followed by the HTTP clients; panics of handlers (one that upstream can bring
about with a status below 100, which `WriteHeader` does not take); hash
collisions and repeated UUIDs; time zones and steps of the clock; what
several gateways, each with a cache and a ring of its own, would do together.

Three hazards have no property. The timestamp of an entry is taken before it
reaches the ring (`entry.go:47`), so the order of a page, which is that of
`Append`, need not be that of the timestamps; the status of a stream is not
flushed before its first event (`proxy.go:302`); and a signal between the start
of the servers and `signal.Notify` (`main.go:103`) ends the process at once. In
each the code does what it does, and no text of the repository promises anything
that could be checked.
