# SLAIF Connect: TLA+ models and proofs

SLAIF Connect lets a web application start an SSH session from the browser to an
approved HPC login node.  A browser extension runs OpenSSH compiled to
WebAssembly; its traffic goes through a WebSocket relay that splices it to a TCP
connection.  The relay, the session API and the workload runtime authorise every
step with short-lived, scoped, use-limited tokens.  This directory models the
parts of that system whose correctness depends on the order of events.

## 1. Inventory

| Component (source) | State | Operations | What is hard |
|---|---|---|---|
| Token store contract (`server/tokens/token_store.js`) | - | the operations both stores offer | "atomic consume", "max-use enforcement" for any implementation |
| In-memory registry (`token_registry.js`) | `records` Map | issue, validate, consume, revoke, cleanup | equality cases of expiry and use count |
| Redis store (`redis_token_store.js`) | one key per token, with a lifetime | the same, asynchronously, from many instances | read-modify-write of revoke and cleanup, stale clock readings, lost answers |
| Relay (`server/relay/relay.js`) | `activeConnections`, per connection: `authed`, `tcp`, `activeKey`, timers | connect, messages, TCP events, timers, close | two awaits in one message handler, close and timers in between |
| Workload token (`workloads/workload_token.js`) | the token store's | issue, validate, consume | validate, then consume in a second call |
| Session API (`tools/start-extension-dev-stack.mjs`) | `jobReports`, token store | descriptor, job report, workload intent | check on arrival, consume after the body is read |
| Rate limiter (`rate_limit/rate_limiter.js`) | `buckets` Map | check, consume | nothing: only the readiness probe holds one |
| Extension launch (`extension/js/background.js`, `session.js`) | `pendingSlaifSession`, `acceptedSignedHpcPolicy` in browser storage | external message, page start | one slot for all launches, check-then-store of the policy |
| Policy, signature, descriptor (`slaif_policy.js`, ...) | - | validation | rollback rule, equality of bindings, a policy that declares itself a development policy |
| Local stack files (`tools/start-*-stack.mjs`) | `dev_runtime.local.json`, policy and trust roots in the build | written at start, removed by `stop()` | pages read them meanwhile; a killed stack leaves them |
| Relay client (`slaif_relay.js`) | `authenticated`, `openPromise` | open, write, close | its own timeouts against the relay's |
| Job parser and reporter | - | parse, post | what is reported when no job id is found |
| TCP-WebSocket bridge (`tools/ws-tcp-bridge.js`) | queued chunks | both directions, close | order of queued and live chunks |
| Session intent, Slurm profile, remote launcher (`remote/launcher`) | the intent and the profile file on the login node | validate, render, submit | files shared by all sessions; the Python and the JavaScript reading of the same document |
| Deployment config, health, audit log, metrics, pilot and maintainer tools | counters | validation, reporting | nothing reads the result back into control flow |

How they interact: the web application issues a launch token; the extension
(background worker, then session page) presents it to the session API and gets a
descriptor with a relay token and a job-report token; the relay client presents
the relay token to the relay, which consumes it in the token store and opens the
TCP connection; the SSH command is the launcher on the login node, which checks the
session's intent file and submits a Slurm job; the page finds the job number in the
output and posts a job report, which consumes the job-report token; a worker on the
HPC side registers with a workload token.
The token store is the shared state of all of them.

What makes each part correct:

- **token stores**: a token is consumed successfully at most `maxUses` times
  after each issue; a revoked or expired token is not accepted again; nothing but
  expiry or an explicit call takes a live token away;
- **relay**: a token opens at most as many TCP connections as it has uses; at most
  `maxConnectionsPerSession` connections per session and HPC; the slot counter is
  exact; a TCP connection lives no longer than its WebSocket; unauthenticated and
  authenticated lifetimes are bounded;
- **session API and workload token**: one accepted report or registration per
  token, for the bound session, HPC, payload and job;
- **extension**: a page runs the session it was launched for, under a policy signed
  for its context, at a host, payload and relay that policy lists; the accepted
  policy sequence never decreases; no token leaves in plain text but to this machine
  from the development context;
- **relay clients**: bytes arrive in order and without gaps; an abandoned connection
  carries nothing and is released;
- **launcher and job report**: a job runs the payload its session was given; the
  number reported is that job's.

The list of hazards, with the line where each bites and the properties that cover
it, is in `PROJECT.json`.

## 2. Modules

| Module | Models |
|---|---|
| `TokenContract` | abstract specification of a token store: `cap[t]` uses can still be handed out; `Grant`, `Use`, `Withdraw` |
| `TokenRecords` | the record, the checks on it (`CheckRecord` in JavaScript, `ScriptAdmits` in Lua), spending and revoking |
| `RedisTokenStore` | `redis_token_store.js`; implements `TokenContract` |
| `TokenRegistry` | `token_registry.js`, as actions that other modules combine with theirs |
| `Relay` | `relay.js` over `TokenRegistry`; the registry's part implements `TokenContract` |
| `SessionLaunch` | `background.js`, `session.js` and the session API of `start-extension-dev-stack.mjs`, over `TokenRegistry` |
| `TokenCallers` | `workload_token.js` and the relay's `resolveRelayToken`, over `RedisTokenStore` |
| `RelayClients` | `slaif_relay.js` and `ws-tcp-bridge.js` against what they see of the relay |
| `HpcPolicy` | the checks of `slaif_policy.js`, `slaif_policy_signature.js`, `payload_catalog.js` and the URL checks of `slaif_session_descriptor.js`, as operators |
| `PageAdmission` | `background.js` and `session.js` in the production and development contexts, and the files of the local stacks, over `HpcPolicy` |
| `LaunchIntent` | session intents as the launcher checks them, Slurm profiles as the launcher and the server library resolve them, as operators |
| `JobReport` | output capture, `job_output_parser.js`, `slaif_job_reporter.js`, the checks of both job-report routes, as operators |
| `HpcJob` | `slaif-launch`, `launcher-intent.py` and the end of a run in `session.js`, over `LaunchIntent` and `JobReport` |
| `RedisTokenStoreProofs`, `TokenCallersProofs`, `RelayProofs`, `RelayClientsProofs`, `SessionLaunchProofs`, `PageAdmissionProofs`, `HpcJobProofs` | theorems about the module of that name |
| `TokenRegistryProofs` | lemmas about the registry's operations, for `RelayProofs` |
| `MCTokenCallers`, `MCRelay`, `MCSessionLaunch`, `MCPageAdmission`, `MCHpcJob` | the small instances TLC runs (`RelayClients` needs none) |

A definition `X_Y` next to `X` is a faulty variant of `X`; substituting it for `X`
must violate a property (`mutants` in `PROJECT.json`).

### TokenRecords

Token values, hashes and fingerprints are one model value per token (`Token`);
the record keeps scope, bindings, expiry, use count and the revocation flag.
`assertBindingValue` maps `''` to undefined, which is why `Bindings` has no
`Empty`.  The two checks differ in one point: JavaScript's `checkRecord` never
meets an expected `''`, while `consumeToken` passes `expected.hpc || ''` to the
script, where it means no expectation.  Reason codes, audit events and metrics are
left out: no control flow reads them.

### RedisTokenStore

`db[t]` and `deadline[t]` are the key and its `PX` lifetime; `call[p]` holds the
step and the local variables of asynchronous call `p`.  Every Redis command is one
step:

| Code | Actions |
|---|---|
| `issueToken` | `IssueToken` (record built, clock read), `IssueSet` (`SET NX PX`) |
| `consumeToken` | `ConsumeToken` (clock read), `ConsumeEval` (the script) |
| `revokeToken` | `RevokeToken`, `RevokeGet`, `RevokeReply` (`PX` computed), `RevokeSet` |
| `cleanupExpired` | `CleanupExpired` (clock read), `CleanupGet`, `CleanupDel`, `CleanupReturn` |
| `commandTimeout`, closed socket | `GiveUp` (command still executed), `CommandLost` |
| key expiry, clock | `Tick` |

`granted`, `spent`, `accepted`, `revoked`, `issues` are history variables: only
properties (and the bound on issues) read them.  `validateToken` and `healthCheck` change nothing.  The
instances' clocks and Redis' clock are one clock; with clock skew the expiry
checks shift by the skew.

### TokenRegistry and Relay

The registry is synchronous, so each method is a step.  In the relay, a message
handler `h = <<c, i>>` is the i-th authentication message of connection `c`.  It
runs in three parts, between which anything may happen:

1. `AuthMessage`: the checks on the frame, and `resolveRelayToken`, which consumes
   the token before its promise is awaited;
2. `RejectAuth` or `ConnectTcp`: expiry, allowlist, slot, start of the TCP connect;
3. `TcpConnected` or `TcpConnectFails`.

`RejectMessage`, `TextFrame` and `BinaryFrame` are the frames that end in one step;
`TcpData`, `TcpClosed`, `Timeout`, `WsClosed`, `ServerClose` are the callbacks.  A
socket is named by the handler that asked for it, so a replaced socket stays
visible in `sock`.  Durations are left out: a pending timer may fire at any time,
which includes the order "10 s authentication timer before 15 s connect timeout".

Nothing in `relay.js` keeps a WebSocket from closing, or a second authentication
message from being handled, while a handler of the connection is suspended, and nothing
in the model does.  The history variable `overlapped` records the connections to which it
happened: a handler starts to connect although the WebSocket is closed or authenticated or
another handler connects, or the WebSocket closes while a handler connects.  A session's
slots are `Disturbed` when a connection that presented one of its tokens has overlapped.
The slot and socket properties say that the code keeps its books exactly as long as that
does not happen, and that an overlap harms its own connection and session only; section 4
shows what it does to them.

### SessionLaunch

`page[w]` follows launch `w` from the background worker into the session page
opened for it; a step ends where `main()` awaits:

| Code | Actions |
|---|---|
| `handleExternalMessage` | `LaunchMessage`, `StorePending` |
| `getPendingSession`, `loadVerifiedHpcPolicy` | `ReadPending`, `LoadPolicy` |
| `rememberProductionPolicy` | `CheckPolicy` (read and compare), `StorePolicy` (write, then the synchronous checks and the descriptor request) |
| `GET /api/connect/session/<id>`, `validateSessionDescriptor` | `ApiDescriptor`, `DescriptorArrives` |
| `startBrowserSshSession` | `RelayConnect` or `RelayConnectFails`, `SshExits` (sets the status, which is `Status`) |
| `startSshOverRelay` after it, `reportSchedulerJob` up to the request | `ReportSchedulerJob` |
| `POST .../job-report` | `ApiReport` (validated on arrival), `UploadEnds`, `UploadThrows` or `UploadAborted`, `ReportAnswered` |
| 401 or a refused relay token, any other error, closed window, reload | `ApiRejects`, `Fails`, `Close`, `Reload` |
| new release installed, browser restarted | `UpdateExtension` (external): no page survives, session storage is emptied |

The reference stack runs one process per session, with API and relay sharing a
registry; its three tokens are issued before it listens (`Init`).  The API goes on
with a report whose page is gone (`uploads`).  Alias, payload and URLs are those of
the session throughout; the relay's inner steps are those of `Relay`.  The pages
take the production path, with policies of type `slaif.hpcPolicy`; `PageAdmission` has
the others.
`descriptors`, `runs` and `highest` are history variables.

### TokenCallers

The callers are processes of `RedisTokenStore`, so everything that can happen in
the store happens between their steps.  `caller[p]` says what `p`'s call is for:

| Code | Actions |
|---|---|
| `consumeWorkloadToken` | `ConsumeWorkloadToken` (GET sent), `PreflightGet`, `PreflightLost`, `PreflightReply` (`checkRecord` and `assertJobBindingSatisfied` on the record read, consume sent), `WorkloadEval` (script) |
| `resolveRelayToken` | `ResolveRelayToken` (script sent, client turned away), `RelayEval` |
| command timeout, closed socket | `CallerGivesUp`, `CallerLost` |
| `issueWorkloadToken`, revocations, cleanups | `Maintenance` |

`workers` and `relayWaste` are history variables.  When the promise that the relay
does not await is rejected, `relayUp` becomes false: Node's default for an unhandled
rejection.

### RelayClients

One WebSocket, of a stream or of the bridge (`kind`).  Frames are numbers: 0 is a
text frame of the handshake, `n` the n-th chunk of its direction, so order and gaps
are visible at the other end.  The relay is reduced to accepting, forwarding, closing
and refusing what it does not expect.  A browser delivers message events only while
the WebSocket is open; the `ws` library also while it is closing.  `pendingTcpChunks`
of the bridge stays empty in every run, because the socket is paused until the relay
has accepted; what arrives before is in `backlog`, the socket's own buffer.  The
stream has no `error` or `close` handler between "open" and the answer; the timer
`StreamTimeout` stands for both timeouts.

### HpcPolicy and PageAdmission

An operator of `HpcPolicy` is true when its function returns and false when it
throws.  Everything one line of the code checks by a pattern (ids, ports, forbidden
fields, known_hosts syntax) is one flag `wellFormed` per object; what the properties
tell apart is kept: who signed, validity, origins with their protocol, hosts, command
kind, payload references, placeholder host keys, and payloads whose type is not
`slaif.hpcPolicy` (`legacy`), which take another path through `validatePolicy`.

`PageAdmission` follows one page through `main()`: `ReadConfig`, `FetchPolicy` and
`FetchTrustRoots` (two fetches at once), `VerifyPolicy`, `Remember`, `AdmitLaunch`,
`DescriptorArrives`, `Report`; or, opened with `?dev=1`, `StartDirectly`.  Meanwhile
`StackStarts`, `StackWrites`, `StackRemoves` and `StackKilled` change the three local
files one by one.  The pilot stack checks its policy before it starts (`PilotChecks`), the
development stack writes whatever it has signed, an expired policy too.  The descriptor is any of the model's, as the API is not trusted
here.  What `SessionLaunch` models of the same code (the slot, tokens, rollback) is
only a `Fails` here.

### LaunchIntent, JobReport and HpcJob

`PyAccepts` is the launcher's check of an intent; `JSResolve` and `PyResolve` are the
JavaScript library's and the launcher's reading of a profile catalog.  The two sides do not
check fields alike (`Number.isInteger` against `isinstance(value, int)`, patterns, forbidden
fields), so a catalog and each entry carry the set of sides whose field checks they pass
(`passes`), and any combination occurs.  A catalog is a sequence of entries, since both
languages iterate in file order.  A line of output announces a job in sbatch's form, behind
the prefix `sbatch:`, or not at all; a job number may be too long for `validateSlurmJobId`
(`LongIds`), and the page then fails.

| Code | Actions |
|---|---|
| `slaif-launch`: options, existing files | `Start` |
| `main` of `launcher-intent.py` | `ReadIntent`, `ReadProfile` (up to the dry run), `Sbatch` |
| `slaif-launch` without intent: test job id, site script | `SiteScriptRun` |
| files installed by the stack or an operator | `WriteIntent`, `ReplaceProfiles` |
| `startSshOverRelay`, `reportSchedulerJob`, job-report routes | `RunEnds`, `ConnectionLost` |

The login node may greet with lines that name another job (`Greetings`), and sbatch may
accept a job without saying so.  The scheduler numbers jobs from 1, as long as `JobIds` has
a number left; the test job's number is not one of them.

## 3. Runs

| Run | Checks | Bounds |
|---|---|---|
| `token_callers` | `CallersTypeOK`, `UsesWithinGrant`, `TombstoneOutlivesToken`, `RegistrationMatchesRecord`, `JobBindingHeld`, `ImplementsContract`, `RevocationIsFinal`, `LiveRecordsSurvive` | one token value issued up to twice, as workload token for two payloads, with or without a job, or as relay token; two calls in flight, clock 0..2, grace 1, one use |
| `relay_slots` | `TypeOK`, `SlotsExact`, `LimitUnlessDisturbed` | two WebSockets with one message each, two tokens of two uses, for two allowed hosts, another host, no host or a host in the metadata, clock 0..1, one slot per session and HPC |
| `relay_any` | `TokenBoundsConnections`, `OrphansOverlapped`, `ImplementsContract`, `SocketKept`; liveness: `AuthTimeoutEnforced`, `LifetimeEnforced`, `ReleasedUnlessOverlapped` | one token of two uses, presented up to four times on two WebSockets, fixed clock, one slot |
| `session_launch` | `TypeOK`, `LaunchChain`, `SettledIsReported`, `PolicyOfRecord`, `AcceptedMonotone` | two windows, two sessions, three policies of one policyId, one reload, one update or restart, tokens that expire at time 1 |
| `relay_clients` | `TypeOK`, `UpstreamIntact`, `DownstreamIntact`, `NeverRefused`, `AbandonedCarriesNothing`; liveness: `OpenSettles`, `AbandonedReleased`, `BridgeReleasesBoth` | a stream or a bridge, four chunks per direction |
| `page_admission` | `TypeOK`, `PlaintextIsLocal`, `RunIsAuthorised`, `AcceptedIsProduction` | two sessions, hosts and payloads; five packaged envelopes (production, self-declared development, mixed relays, legacy type, forged); two development stacks, one with an expired policy, and two pilot stacks with keys of their own, one of them with a legacy policy on the name `localhost`, two starts; two launches; clock 0..1 |
| `hpc_job` | `TypeOK`, `ReportedJobIsTheSessions`, `JobRunsApprovedPayload`, `ReportsNeverRefused`, `ResolversAgree` | two sessions with different payloads, four profile files that pass the checks of both sides or of one, intents that expire within the run, a greeting that names a foreign job, a job number that is too long, two lines of output kept |
| `relay_hardening` | `LimitOrLifetime` | expected to be violated; as `relay_any`, with one token of three uses |
| `relay_over_redis` | `RelaySpendsOnAccept` | expected to be violated |
| `session_promises` | `SomePromiseKept` | expected to be violated; two windows, two sessions, one policy |
| `session_policy_switch` | `RollbackRejected` | expected to be violated; one window, three policies of two policyIds, two updates |
| `page_policy` | `FixedOrExpiredRefused` | expected to be violated; two packaged policies, two launches, no local stack |

`LimitOrLifetime`, `SomePromiseKept` and `FixedOrExpiredRefused` are disjunctions of what
documents and tests say: each is weaker than any of its parts, so that the one behaviour
TLC finds breaks all of them.

Why the bounds are enough.  Two calls suffice for every race between a command
and a decision taken earlier, since each call holds at most one stale record; the
theorems of section 5 lift the store's results to any number.  Time 2 lets a token
issued at 0 with ttl 0 or 1 expire, be evicted after its grace, and be issued again,
for another payload or with another job.  Two
WebSockets and one slot let one connection be refused because of the other, two tokens
let connections of one key overlap while another key must stay exact; two
messages per WebSocket let a second authentication follow or overlap the first.
Calls that change nothing (a refused issue, a failed validation) do not bound
anything.  Two windows are enough for one page to change the slot, the policy
record or a token between two steps of another; one update for a page to meet the
record of a newer, an older or a changed policy.  Four chunks let chunks be buffered
before, during and after the handshake of a relay client.  In `page_admission` a second
launch meets the record and the files the first has seen, a second stack the files of
a killed one; the policies are one of each kind `validatePolicy` tells apart.  In
`hpc_job` two output lines are enough for a session's own announcement to be cut away
behind noise, or to be all that is left of a greeting and the command's output, two sessions for each to find the other's intent file.  Symmetry is used only in runs
without liveness properties; the sets it permutes (calls, windows, sessions) are
used symmetrically.

Fairness (`Relay!Fairness`, in the runs of the relay with liveness properties): a resolved promise resumes its
handler; `connectTcp` settles, because of its own 15 s timer; the authentication
and lifetime timers fire, as `setTimeout` guarantees; a closing handshake ends,
because the `ws` library destroys the socket after 30 s.  Nothing is assumed of
clients, HPC hosts or the idle timer, which traffic restarts.  `maxConnectionMs`
is taken to be positive, as by default; 0 switches the lifetime timer off.

Fairness of `PageAdmission` (for `page_policy`, whose property is temporal): a page that
has both responses goes on, as a resolved promise resumes `main()`.

Fairness of `RelayClients`: the stream's timers fire; the relay's timers end every
connection in the end (which `relay_any` shows of the relay); an established
connection delivers its frames, and a close completes.  Nothing is assumed of a
WebSocket that is still connecting, of the local SSH client or of the SSH server.

## 4. What the code does otherwise

- **Overlapping handlers of the relay break its limit and leave TCP connections open.**
  Everything between `resolveRelayToken` and `authed = true` is two awaits long, and close
  events, timers and further messages come in between.  `relay_hardening` finds one
  behaviour with all consequences:
  a WebSocket closes while its `connectTcp` is pending, its close handler gives the slot
  back (relay.js:603) without clearing `activeKey`, and when the connect fails the slot is
  given back again (relay.js:507), now at the expense of another connection; that
  connection's second authentication message (relay.js:417 admits it while the first is
  under way) takes the slot, so that more TCP connections are in use than
  `maxConnectionsPerSession`; its socket replaces the first (relay.js:505), which nobody
  destroys: the timers only close the WebSocket.  Where the connect of the closed WebSocket
  succeeds instead, that socket is left open in the same way (the overlapped case that
  `OrphansOverlapped` and `ReleasedUnlessOverlapped` must except), beside whatever
  connection takes the slot next.  No misbehaving client is needed for that: the relay's
  own authentication timer (10 s) may fire before the connect timeout (15 s).
  `docs/RELAY_HARDENING.md`, lines 44 and 46, promises limit and lifetime;
  `docs/ARCHITECTURE.md`, line 145, one authentication.
- **Over the Redis store the relay turns every client away and spends its token.**
  `resolveRelayToken` does not await `consumeToken`; the promise has no `hpc`, so the
  client is rejected while the script runs: `relay_over_redis`.  A rejected consume is
  an unhandled rejection, which ends the process (`relayUp`).  The store itself is not
  harmed: `token_callers` has the relay among its callers.
- **A relay token is spent before its connection is accepted**, with either store:
  `docs/TOKEN_LIFECYCLE.md` says it is consumed when authentication accepts the
  connection; the code consumes it first (relay.js:417), so a connection that is then
  refused (limit, expiry, failed TCP connect) has used it up.
- **Two launches share one slot.**  The background worker stores each launch under
  the key `pendingSlaifSession` and opens a window, whose page reads the key later.
  When a second launch comes first, both windows run the second session and the
  first is lost, although its launch was answered with its own `launchId`:
  `session_promises`.  `LaunchChain` shows the damage ends there: the second
  window finds the launch token spent.
- **Rollback protection knows only the latest policyId.**  A policy with another
  policyId replaces the record; a lower sequence of the first is then accepted
  again: `session_policy_switch`.  Within one policyId there is no rollback
  (`AcceptedMonotone`).
- **An expired job report token can end the reference stack.**  It is consumed in
  the request's `end` handler, outside the `try`; if it expired while the body was
  read, the exception is uncaught: `session_promises`.  The pilot stack has
  the call inside its `try`.
- **The page says "completed" before it reports.**  `startBrowserSshSession` sets the
  status when the SSH program exits with 0 (slaif_ssh_client.js:205); the report is sent
  afterwards.  `tests/browser/extension-observability.spec.mjs` waits for the status
  and then expects the report: `session_promises`.  The early value lasts only until
  `reportSchedulerJob` sets the next one, so a poll hardly sees it, but the attribute and
  the console log pass through it, also when the report then fails.  The status at the end
  of `main()` is right (`SettledIsReported`).
- **A production page runs fixed commands and takes expired policies.**  `validatePolicy`
  lets a signed policy with `development: true` and `pilot: true` carry a fixed command
  (slaif_policy.js:150, 263), which `docs/HPC_POLICY.md`, line 161, calls local only; and a
  signed payload of another type than `slaif.hpcPolicy` takes a branch that looks at no date
  (slaif_policy.js:153-171), although line 103 says that expired policy is rejected.
  `page_policy` finds both in one behaviour.

Met while modelling, and left to the reader:

- On the path for payloads of another type the development context also sends tokens in
  the clear to the name `localhost` (slaif_policy.js:164, 401), elsewhere only to 127.0.0.1.
  The proof of `PlaintextIsLocal` failed until the property said so; a pilot stack started
  with such a policy is among the model's.  Such a payload need not have a sequence either:
  then the rollback check compares with `undefined` and passes.  `SessionLaunch` has no such
  policies (its ASSUME says that sequences are positive numbers).
- `resolveSlurmProfile` returns the entry under a payload's name even if that entry is
  for another payload (its key being the profile id); the launcher does not.
  `ResolversAgree` is therefore about catalogs keyed by payload id, and about payloads that
  both sides resolve: each refuses files that the other takes.
- Intents are not checked alike by `session_intent.js` and the launcher: `Date.parse` takes
  dates that `fromisoformat` does not, `version: true` is 1 in Python only, Python's `$`
  admits a trailing newline, and timestamps without a zone are valid for the server and an
  uncaught `TypeError` (exit 1) in the launcher.  So far only tests call the server's check;
  nothing is claimed about an agreement.
- A job may exist although nothing is reported: sbatch accepted it in another wording
  (exit 4), or the connection broke.  The status `ssh_failed` is never sent.
- In the script and test modes of the launcher nothing ties the number to the session,
  so `ReportedJobIsTheSessions` is about intent mode only.
- An intent may expire between its validation and `sbatch`.
- A token value reissued for a job between the two calls of `consumeWorkloadToken` can
  be spent by a worker that named no job; `JobBindingHeld` is about values issued once.
- `validateDevelopmentRuntimeConfig` is not called by the session page.

## 5. Proofs

Every invariant and every action property of the runs, and the refinements of
`TokenContract`, are proved for all values of the constants that the modules' ASSUMEs
admit.  Each inductive invariant was checked by TLC on the run's instance before it was
proved.  The assumptions say what the code relies on: model values that stand for "none"
differ from the data, bounds are natural numbers, the scopes and keys the code names
exist, fingerprints are injective, the numbers the scheduler gives are not the test
job's.

`RedisTokenStoreProofs` proves for every finite or infinite set of tokens and
calls, every grace period, every clock and issue bound, from the ASSUMEs of
`TokenRecords` and `RedisTokenStore` only:

| Theorem | Statement |
|---|---|
| `TypeCorrect` | `Spec => []TypeOK` |
| `ReplayPrevented` | `Spec => []UsesWithinGrant` |
| `RevocationHolds` | `Spec => RevocationIsFinal` |
| `RedisRefinesContract` | `Spec => ImplementsContract` |
| `TombstonesLast` | `Spec => []TombstoneOutlivesToken` |
| `LiveRecordsKept` | `Spec => LiveRecordsSurvive` |

The inductive invariant.  None of these is inductive by itself, because a call in
flight carries decisions into the future:

- `Typed`: `TypeOK`, and a call that holds a record holds a real one;
- `Pending`: a record waiting for `SET NX` is unused and unrevoked, and a record
  waiting in `revokeSet` is marked revoked.  Without it a pending revocation could
  store an unrevoked record with an old, smaller `used` and give uses back;
- `Counted`: what was spent and what can still be spent stay within the grant, no
  more callers were told than were served, and a token revoked since its last
  issue has no uses left;
- `Lasting`: every record in the database or in flight has, or will get, a
  lifetime that reaches its expiry plus the grace;
- `Copies`: as long as a token value was issued once, every copy of its record in
  flight has the expiry of the stored one, and a pending DEL was decided on an
  expired record.

Each action has a lemma that states its effect on the state in terms the
invariants need; the invariants are then preserved action by action from those
lemmas.  The refinement maps storing steps to `Grant`, `Use` and `Withdraw` and
every other step to a stutter.

`SessionLaunchProofs` proves for every set of windows, sessions and policies and
any number of reloads and updates, from the ASSUMEs of `TokenRecords`,
`TokenRegistry` and `SessionLaunch` (in particular: two policies with the same
fingerprint are the same policy):

| Theorem | Statement |
|---|---|
| `LaunchTypeCorrect` | `Spec => []TypeOK` |
| `SessionRunsOnce` | `Spec => []LaunchChain` |
| `CompletionMeansReport` | `Spec => []SettledIsReported` |
| `PagesUsePolicyOfRecord` | `Spec => []PolicyOfRecord` |
| `PolicyNeverRollsBack` | `Spec => AcceptedMonotone` |

The inductive invariant: the three tokens of a session are single-use
(`SingleUse`) and every descriptor, run and report has spent one (`CountedUses`),
which bounds each count by 1.  The order needs `PageChain` and `UploadChain`: a
page, or an upload whose page may be gone, that is about to spend the next token
proves by its step that the previous one was spent.  For the policy, `PagePolicy`
says that every page between loading and storing holds the packaged policy, which
passed the check against a record that can only have become that same policy
since; the check and the write need no lock because an update leaves no page
behind.

`TokenCallersProofs` extends `RedisTokenStoreProofs` to its callers:

| Theorem | Statement |
|---|---|
| `CallersTypeCorrect` | `CallersSpec => []CallersTypeOK` |
| `CallersImplementStore` | `CallersSpec => Spec`, by which the store's theorems hold under its callers |
| `RegistrationsMatch` | `CallersSpec => []RegistrationMatchesRecord` |
| `JobBindingsHold` | `CallersSpec => []JobBindingHeld` |

A worker's registration takes two calls.  `Consuming` says that what the second call
expects is what the caller wanted, so the script's own checks settle session and payload.
The job id is not passed on when the worker names none; there `JobsAgree` is needed: all
copies of the record of a token value issued once, in Redis, in a revocation that will
write its copy back, or read by a preflight, carry the same job id.

`RelayProofs`, for any finite number of connections and messages, on `TokenRegistryProofs`
(the record's use counter counts the consumes since its issue; each step is one of
`TokenContract` or a stutter):

| Theorem | Statement |
|---|---|
| `RelayTypeCorrect` | `Spec => []TypeOK` |
| `TokenBoundsHold` | `Spec => []TokenBoundsConnections` |
| `RelayRefinesContract` | `Spec => ImplementsContract` |
| `SlotsAreExact` | `Spec => []SlotsExact` |
| `SessionLimitHolds` | `Spec => []LimitUnlessDisturbed` |
| `OnlyOverlapsOrphan` | `Spec => []OrphansOverlapped` |
| `SocketIsKept` | `Spec => SocketKept` |

All hold for every client, timer and HPC host.  The invariant of the first three counts the
handlers that got a session from a token (`TokensSpent`): a consume comes before every
socket.  That of the others, `RelayInv`, adds what is true of a connection that has not
overlapped: at most one handler of it connects, only while the WebSocket lives, and the slot
the connection holds is the one that handler took (`HandlerInOrder`); the socket and the slot
of an authenticated connection belong to the same handler (`ConnInOrder`).  A connection's
slot is always one of a session it presented a token for (`KeyTraced`), which confines the
damage: a step of an overlapped connection can change the count of a disturbed key only, so
the count of any other key stays exact and bounded.

`RelayClientsProofs`, for any number of chunks: `ClientsTypeCorrect`, `UpstreamHolds`,
`DownstreamHolds`, `NeverRefusedHolds`, `AbandonedIsSilent`.  Frames that wait anywhere
form a run of consecutive numbers that starts where the next place's ends (`UpInv`,
`DownInv`), the handshake's text being number 0; `ClientInv` says which combinations of
WebSocket, promise and listener each client can be in.

`PageAdmissionProofs`, for any policies, stacks, descriptors and senders:

| Theorem | Statement |
|---|---|
| `PageTypeCorrect` | `Spec => []TypeOK` |
| `PlaintextStaysLocal` | `Spec => []PlaintextIsLocal` |
| `RunsAreAuthorised` | `Spec => []RunIsAuthorised` |
| `AcceptedStaysProduction` | `Spec => []AcceptedIsProduction` |

The invariant is what a page knows at each step: a local context means a local sender or
a page opened by hand (`ContextOK`); a page of the production context has read only the
release's policy and roots (`FetchedOK`), whatever files exist; and from `VerifyPolicy` on
its policy was signed by a root it holds and was valid at some moment (`VerifiedOK`).  Not
at the present one: the policy may expire while the page works, and no property needs more.

`HpcJobProofs`, for any sessions, catalogs, commands and amounts of output:

| Theorem | Statement |
|---|---|
| `HpcTypeCorrect` | `Spec => []TypeOK` |
| `ReportedJobIsRight` | `Spec => []ReportedJobIsTheSessions` |
| `JobsRunApprovedPayload` | `Spec => []JobRunsApprovedPayload` |
| `ReportsAreAccepted` | `Spec => []ReportsNeverRefused` |
| `ResolversAlwaysAgree` | `Spec => []ResolversAgree` |

The invariant says what a launcher has established at each step (`StepOK`), that a session
has no job before its launcher exits, and that an intent run that exited with 0 has one
job, named by the last line of the output that can name a job (`OutputOK`).  `ParsedTail`
then shows that the parser, on any tail, finds that number or none: either the tail still
holds the line, and another number in front of it makes two, or it holds no number at all.

Only model-checked, as fairness is out of the prover's reach: the liveness properties
`ReleasedUnlessOverlapped`, `AuthTimeoutEnforced`, `LifetimeEnforced`, `OpenSettles`,
`AbandonedReleased` and `BridgeReleasesBoth`.  The properties of the runs that expect a
violation are refuted by TLC's counterexamples.

## 6. Not modelled

See `components` in `PROJECT.json` for each part and its reason.

- Out of reach or vendored: cryptography (token hashing, policy signatures), the SSH
  runtime and terminal, Docker and process start-up.
- Without state or order of events: the workload protocol's message validators and the
  server's intent check (no running part calls them), the deployment configuration, health probes, the rate
  limiter (only the readiness probe holds one), formatting of audit events and
  metrics, which no control flow reads back.
- Command-line tools run by hand: policy signing, host key collection, the
  maintainer's test kit.
- In the relay: `devMode` and `tokenResolver` sessions, which take no token from a
  store.  In the session API: the `/api/test` endpoints.
- Clock skew between Redis, the instances, the browser and the login node.

## 7. Plan

All components with an order of events of their own are modelled, and all safety
properties of the runs are proved.  What is left:

1. safety counterparts of the liveness properties that can be proved without fairness,
   such as: whenever a WebSocket is open and not authenticated its timer is pending;
2. `TokenContract`'s refinement for the registry under `SessionLaunch`, on
   `TokenRegistryProofs`.
