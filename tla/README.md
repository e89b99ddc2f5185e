# A verification project for `middle`

`middle` is a Go library of Gin middlewares shared by the services of a
multi-tenant shop platform: it binds a request to a merchant, verifies logins
and second factors, checks quotas, writes audit rows, meters usage and
authenticates calls between services. This directory holds TLA+ models of its
stateful parts, TLC configurations that check them on small instances, and
proofs that TLAPS checks for every value of the constants.

1. [Inventory](#1-inventory)
2. [Plan](#2-plan)
3. [Modules](#3-modules-and-the-code)
4. [Runs](#4-runs)
5. [Fairness, deadlock and bounds](#5-fairness-deadlock-and-bounds)
6. [Proofs](#6-proofs)
7. [Findings](#7-findings)
8. [What is not modelled](#8-what-is-not-modelled)

`PROJECT.json` lists components, runs, mutants, findings, hazards and theorems,
and maps every definition to the lines it models.

## 1. Inventory

A request passes the middlewares in the order in which a service mounts them.
Each leaves headers and context values to the next:

    CORS -> bind / JWT / bearer -> operate log -> guard -> handler
                                     |   ^                   |
                          quota check|   |                   |
                                     |   +--- outcome -------+
                                     +--> audit row   --> queue --> Kafka / MongoDB
                                     +--> usage event --> queue --> Kafka --> quota service

| component | source | state | operations | hard behaviour | correct when |
|---|---|---|---|---|---|
| audit path | `audit.go`, `audit_kafka.go`, end of `oplog.go` | the Once, the channel variable, the channel, the drop counter, the loop goroutine; Kafka and MongoDB | `StartAuditPublisher`, `EnqueueAudit`, `auditLoop`, `Publish`, `insertOperationSync` | unsynchronised reads of the channel variable, a full queue, failed and repeated publishes, crashes | a row is accounted for, in one place, in order; a request never blocks |
| usage metering | `usage.go`, `usage_kafka.go`, `oplog.go` | the usage channel; the topic | `EnqueueUsage`, `usageLoop`, `enqueueUsageFromLog`, `UsageFromOperation` | deltas are not idempotent; drops; whom a charge is about comes from headers, a body that may not have been captured, the namespace and a before-image | a charge is earned, by the owner where the request or the image tells it; without failures the meter is exact for merchants whose requests do |
| quota check | `usage_quota.go` | none of its own: the counted occupancy of the quota service | `allowQuotaOrAbort`, `checkQuotaRemote` | the count lags behind; failures let a request through | exact for a merchant with nothing in flight |
| tenant binding | `tenant.go`, `user.go`, `jwt.go`, `JWTAuthMiddleware.go`, `gateway.go`, `cors.go` | four headers, two context values, the super-admin mark | `writeIntoHeader` behind three middlewares, CORS | each middleware reads what another one rewrote; mounted twice or in another order | all readers agree on one merchant, and a verified login decides which |
| tenant guard | `tenantguard/tenant.go` | none: reads what the binding left | `Merchant`, `Require`, `Owns`, `Allow`, `SuperOnly` | reads a header, the repositories a context value | what a handler may touch is what its queries are filtered by |
| operate-log middleware | `oplog.go`, `oplog_db.go` | the request's own: its body, the captured payload, context keys | quota, body capture, handler, row, event | the body is a stream read once; a panic skips the row, an abort does not; a row is put together from things read at four moments | the handler and the row get the body; a row tells what an update did; no secret is stored |
| before-image snapshot | `oplog/snapshot.go` | the registry of collections | `Register`, `RegisterMap`, `Snapshot` | read before the handler runs, may fail, may be overtaken; registered in random order | a delete is charged to the owner, and with the size, of what it deleted |
| one-time passwords | `otp.go`, second factor in `jwt.go` | one Redis key per account, the resolver, the migration switch | `SaveOTPSecret`, `DeleteOTPSecret`, `SetOTPSecretResolver`, `SecondValidateMiddleware` | sessions share a key; expiry; Redis failures; a reset during a request | a request passes on its own account's secret only; a session keeps its secret |
| WeChat token | `wx_auth.go` | a Redis hash | four `HGet`s | read field by field while it is rewritten | the fields belong to one login |
| client registry | `client.go` | two maps, a Once, an RWMutex | `RegisterClient`, `ClientName`, `ClientOptions`, `ResolveClient`, lazy `initClients` | first use races with registration | behaves as an atomic directory |
| audit diff | `audit_compress.go` | none | normalisation, diff, envelope, summary, truncation | cut at a number of changes and at a byte limit; keys that normalise to one | a diff that can be read back and is not at the limit loses nothing |
| path classification | `oplog_classify.go` | none | path to service, module and resource; request to action | one module has many spellings | one module is one resource, in rows and events |
| RPC authentication | `rpcauth.go` | none: three configuration keys, read per call | `SetInternalToken`, `RPCAuthMiddleware` | services change the token one by one | nobody is rejected during a rollout |
| callback authentication | `callback_auth.go` | none | `CallbackAuth`, `VerifyUUMD5` | parses the body that the audit capture reads too, and the query with it; the signed text is joined without escaping | what passes is what was signed, as sent in form and query |
| client address | `clientip.go` | none | headers of the proxies, in order | an edge in the place of the visitor, forged headers | the row has the visitor's address |
| login log, device names, trace, Redis and MongoDB handles | `log.go`, `device.go`, `trace.go`, `todo.go`, `db.go` | none | one insert; formatting; calls into libraries | none | - |

The components interact by calls within one request, by the headers and the
context it carries, and through three pieces of shared state: the two queues
(written by requests, read by one goroutine each), the client registry and the
external stores (Redis, Kafka, MongoDB, the quota service).

## 2. Plan

In order of what a mistake would cost:

| step | modules | composes | state |
|---|---|---|---|
| 1 | `AuditPipeline`, `AuditLedger`, `AuditRefinement` | middleware tail, queue, loop and stores; implements the abstract ledger | done, checked, proved |
| 2 | `UsageMeter` | quota check, handler, middleware, queue, loop and consumer, closed into a loop | done, checked, proved but for liveness |
| 3 | `TenantBinding` | five middlewares, the guards and the handler, over chains | done, checked, proved |
| 4 | `SecondFactor` | logins, Redis, resolver and request | done, checked, proved |
| 5 | `ClientTables`, `ClientDirectory`, `ClientRegistry` | goroutines over Once and RWMutex; implements the abstract directory | done, checked, proved but for liveness |
| 6 | `RpcRollout` | callers, callees and the operator | done, checked, proved |
| 7 | `AuditDiff`, `PathClass`, `CallbackSign`, `ClientAddress` and `OperateLog` | the pure parts under the chain of one request, beside another writer of its document | done, checked, proved |
| 8 | proofs: `SecondFactor`, `ChargesAreEarned`, `DropsCounted` | | done |
| 9 | proofs: `MeterExact`, `SettledAdmission`, the last two of `TenantBinding`, `OperateLog` | | done |
| 10 | proofs: `SameResource` | | done |
| 11 | proofs: `RowTellsTheWrite` | | done |

The abstract specifications worth stating are the two that exist: a bounded
FIFO ledger for the audit path and an atomic directory for the registry. The
usage queue is built like the audit queue, so `UsageMeter` models its Once and
its loop in one step each and relies on step 1 for their detail. The pure parts
of step 7 are checked against what they are for (`Replay`, `Signed`, `Aliases`)
in the states of `OperateLog`, where their inputs are what a request can
really bring about. In the modules that proofs are about there is no
`RECURSIVE` operator.

## 3. Modules and the code

Slips: an operator whose name has an underscore (`OnceAllows_Always`) is a
mutated form of the operator before the underscore. No specification uses it; it
is there so that each property can be seen to fail when the code is wrong
(`mutants` in `PROJECT.json`).

### Audit path: `AuditPipeline`, `AuditLedger`, `AuditRefinement`

`saveOperationLog` (`oplog.go:182`) hands a row to `EnqueueAudit`; if that
declines and either the publisher is not ready or the row is critical, it is
inserted synchronously.

| model | code |
|---|---|
| `once`, `auditCh`, `chans` | `auditOnce`, `auditCh`, the channel's contents; `chans` is indexed by the caller that would make the channel, so that a second channel is representable |
| `callerPc`, `StartAuditPublisher` | `InitAuditFromViper` and `StartAuditPublisher`: the variable and the goroutine are two steps |
| `loopPc`, `loopCh`, `hold`, `AuditLoop` | the goroutine `auditLoop`, which evaluates `range auditCh` once |
| `LoadQueue`, `SendAccepted`, `SendDropped` | the read of `auditCh` and the `select` of `EnqueueAudit` |
| `ChooseFallback`, `InsertSync` | the second read of `auditCh` (`AuditAsyncReady`), `IsCriticalAudit`, `insertOperationSync` |
| `kafka`, `mongo` | external stores, which survive `Crash` |
| `lost` | history: the cause for which a row is in no store |

`AuditLedger` is what the path promises: an accepted row is published in order,
only a full queue turns a row away, a critical row is never given up.
`AuditRefinement` maps the queue and the row in the publisher's hands to the
ledger's FIFO. A row's fate is settled at the `select`, before the fallback acts.

`auditDropTotal` counts rejections by the queue, critical rows that are then
stored synchronously among them (`audit.go:34`), so `DropsCounted` is an
inequality: what was lost to a full queue does not exceed the counter.

### Metering and quota: `UsageMeter`

Each request is one create or delete of an object of a metered kind. `Arrive`,
`SkipQuota`/`CheckQuota`, `Snapshot`, `Handle` and `Save` are the steps of
`OperateLogMiddleware`; `UsageLoop` and `PublishUsage` the publishing goroutine;
`Consume` the quota service, whose `occupancy` answers the next check. The
handler (`live`, `Works`) and the consumer are external and modelled as the code
uses them. `Faults` names what may go wrong: a late publisher, failed and
duplicate publishes, an unreachable quota service, a panicking handler, a delete
answered with success for an object already gone, a resource without a
registered collection.

A request names a merchant in up to three places (`Namings`): the four headers,
the body, and the Namespace header, which `user.go:20-21` says may hold a
merchant's number. `CapturedMerchant` is the body as the middleware sees it: an
upload, a body declared or found longer than `maxAuditBody` and one that could
not be read name nobody there (`oplog.go:109-136`), although the handler reads
them whole (`Owner`). `RequestMerchant` is the order of `oplog.go:293-300`,
headers, captured body, namespace, and `ChargedMerchant` adds the before-image.
Events and `occupancy` are therefore kept per account (`Accounts`): a merchant,
or a namespace that is none.

So the code charges the wrong account without any fault, and the properties say
for whom it cannot. `NamesOwner` are the requests that tell the charge whose
object it is: by a merchant in the headers or, for a create, by a captured body
without headers. Any other create concerns the merchant it is stored under and
whomever its body and namespace name, and so does a delete of an object without
an owner; `Accounted` are the merchants that no such request concerns.

- `MeterExact`, `SettledAdmission` and `MeterCatchesUp` hold for each merchant
  that is accounted for, also while other requests are charged elsewhere.
- They do not hold for the others. A create whose merchant stands in a body that
  was not captured is charged to its namespace, or to nobody if that is blank:
  the object stays uncounted, and the delete, which has a before-image, is charged
  to the owner all the same. A create that names nobody is charged to its
  namespace, which owns no part of it. A create for `*` with a merchant in the
  body is stored for that merchant and charged to nobody, since the headers come
  first.
- `ChargesAreEarned` holds for all: a charge goes to the owner if the request or
  the before-image tells who that is, and otherwise to the merchant of the captured body or to the
  namespace.

The model restricts deletes to objects whose create was done, and to objects of
the caller's own merchant. (A delete that reads its before-image before the object
exists, without a merchant in its headers, is charged to its namespace or to
nobody; no client can send one, since the id is made by the create.) The shared
merchants `share` and `st` are charged to nobody like `*`, which stands for them.

### Tenant binding: `TenantBinding`

State is the four headers (`hdr`), the two context values (`ctx`) and the
super-admin mark, on one request's way through a chain of middlewares chosen
initially. `WriteIntoHeader` is `writeIntoHeader` of `user.go`, split along its
questions: who may switch (`AllowSwitch`), what is left of `X-Tenant-ID`
(`KeptTenant`), which merchant wins (`TenantOf`), and what is written back.
`BearerAuth` is `JWTAuthMiddleware`, which has its own, shorter rules. `Serve` is
the guard and the handler: `reach` is the set of owners it may touch.

The host, proxies and the gateway token are one bit each (`superHost`,
`trusted`). A request presents one credential. Surrounding blanks, which the code
trims, are not modelled. `Merchant` of the guard is also `""` for a login without
a merchant that is not super-admin: that is what `Require` is for, and
`GuardedScope` says that it works.

### Second factor: `SecondFactor`

`store` is Redis with one key per account, with `SET`'s three readings of an
expiry (positive, none, `KEEPTTL`). `SaveOTPSecret`, `Logout` and `ResetOTP` are
what an issuing service does around `SaveOTPSecret` and `DeleteOTPSecret`;
`Present`, `Lookup`, `Legacy` and `Validate` are the steps of
`SecondValidateMiddleware`, between which everything else may happen. A code is
the secret it was generated from. `seen` and `kept` are history: which sources
offered the code's secret while the request ran, and whose secret nobody deleted.

Things a reader of the code should know: a failing `GET` is reported as
`ErrOTPSecretNotFound` (`otp.go:23` describes the server without a secret), so with the migration
switch on the cookie's own secret also stands in after a Redis failure, which
`PassedOnOwnSecret` admits; the logout of one session deletes the key that all
sessions of the account share; and with different lifetimes per session a short
`ttl` would end a longer session's secret early (the model's `Ttl` is the
cookie's lifetime or none, as the comment on `SaveOTPSecret` asks). The
repository's `README.md:32` still describes the secret as part of the JWT.

### Client registry: `ClientTables`, `ClientRegistry`, `ClientDirectory`

`ClientTables` has the pure parts, `ClientRegistry` the goroutines: the Once,
the writer that announces itself and waits for the readers, readers that wait
for an announced writer, and a host lookup that takes the lock anew for each of
Origin, Referer and Host. `ClientDirectory` is the same interface with every call
at one moment. Until the Once is done the directory is what it will become,
`namesBar`, which is right because nothing else may touch the tables before.

The environment's pairs are visited in Go's random map order, so two spellings
of one code may give another table from start to start: the initial directory is
any of them.

### RPC rollout: `RpcRollout`

Each service's three keys are read anew per call. `Send` is `SetInternalToken`;
`Receive` and `ReadWindow` are the two moments at which `RPCAuthMiddleware`
looks at the callee's configuration, first the token (`rpcauth.go:72`) and, where it
does not match, the window (`rpcauth.go:76`). `OpenWindow`, `SetAuthToken`,
`CloseWindow` are the operator's, whose order is not in the repository and is an
assumption: open every window, set every token, close the windows after the
calls that were sent with another token, or are being judged, have ended. Without
the last part a call sent with the old token, or one whose callee read its old
token a moment ago, meets a closed window.

### Rows, bodies and documents: `OperateLog` over `AuditDiff`, `PathClass`, `CallbackSign`, `ClientAddress`

Requests on one document pass a chain of `CallbackAuth`, the two halves of
`OperateLogMiddleware` (`Capture`, `Save`), `Snapshot` and the handler, in the
order their service mounts them (`todo`). `ctx` is what a request's gin context
holds. A rejection, or the end of the chain, unwinds to `Save` if the request
is inside its `OperateLogMiddleware` (`Unwound`); a panic does not.

| model | code |
|---|---|
| `rest` | the body as a stream: units `from..upto` are still to be read; `declared` is whether `Content-Length` is known |
| `readRequestBody`, `ReadLimit` | the capture takes at most `maxAuditBody` and one byte and puts back what it took |
| `form` and `query` of a request | the pairs of an urlencoded body, one a unit, and of the URL |
| `Parsed`, `ReadsForm`, `FromBody`, `ctx.form` | `ParseForm` in `StaticUUMD5Verifier.Verify`: it reads an urlencoded body of a `POST`, `PUT` or `PATCH`, or what the capture left of it, keeps nothing of one that breaks off, adds the query, and does nothing the second time; its error is ignored |
| `VerifierParams`, `CanonicalSortedKV`, `UUMD5Sign` (`CallbackSign`) | the first value of each parameter, the text `k=v&k=v`, and the digest of that text with the key, in capitals |
| `pairs`, `collectionFor`, `loadBefore` | the registry's first match, in the order of `Register` and a random one for `RegisterMap`; `contains` names the substrings found in a path |
| `merchantID`, `usageBytes`, `usageEvent` | `parseOperationFields`, `usageBytes`, `enqueueUsageFromLog` |
| a value | a function from the paths of leaves to scalars; `AuditDiff` states the recursive walk over two objects by the paths it reports |
| `Only` (`Subsequence`) | loops that append what they keep: path segments, lifted keys, registered pairs |
| `Arrivals` | headers as Cloudflare, nginx and APISIX leave them, from the comment at `clientip.go:12` |

The handler is external: it creates, sets the fields an update names, or
deletes. `old`, `new`, `alone` and `verdict` are history. Lengths are units:
`Huge` and `Long` scalars exceed `maxSnapshotBytes` and `maxAuditHotBytes`.
In `CallbackSign` a string is a sequence of tokens, `&` and `=` among them, so
that different parameters share a text exactly as they do in the code: by
separators within a value, and by letters that differ in case only (`Capital`).
MD5 is the identity on the text, so that no two texts share a digest.

The model's limits: a chain has at most one capture (a middleware mounted twice
would save a row and an event for each mount; `AskTypeOK` excludes it); a form in
the body does not name a merchant (`oplog.go:394-403` would find `merchant_id`
there); a cut falls between two pairs of a form, so that no half of a pair
remains; and `ParseForm`'s own limit of 10 MB is not met.

What the properties had to leave out tells a reader what rows do not say:

- An update's row compares the *body* with the document before. Every field the
  body does not name is listed as `removed` although nothing was removed, and
  `RowTellsTheWrite` does not speak of such entries. A body that is not captured
  (declared longer than 4096, an upload) lists all fields so, and a form or a cut
  body is one entry for the whole document.
- A diff longer than `maxAuditHotBytes` is cut and no longer parses
  (`ParseAuditDiffAfter` says so); the 80th change is the last, silently.
- Two keys that normalise to one (`id` and `_id`, `status` and `_.status`)
  overwrite each other in Go's random map order. Here they are keys of leaves; where
  objects meet, the code keeps one of them whole, and `RowTellsTheWrite` leaves both
  cases out (`Colliding`, `Apart`).
- A body that says something else of `id`, `_id` or what is below `_` than the
  document does is listed as a change although no update sets these, and a document
  key that is redacted in a body but not skipped in a diff (`oldpassword`,
  `newpassword`) is listed by every update as changed or removed. `RowTellsTheWrite`
  is not stated for either.
- A body of unknown length beyond 4097 bytes reaches the handler cut; a form
  checked by `StaticUUMD5Verifier` reaches it parsed but already read, although
  `callback_auth.go:23-24` asks verifiers to restore the body.
- That a callback passes says nothing about a body that is no form.
  `Request.Form` always has the query, so a request whose query has signed parameters
  passes with a JSON body of any content, which nobody signed; and a JSON body's
  own parameters are never looked at, although the comment at
  `callback_auth.go:192` speaks of "form/json params".
- A form that the capture cut is verified by its prefix: it passes if that is what
  was signed, and is rejected if the whole was. The handler finds the same
  prefix in `Request.Form`. Of a form that breaks off nothing is parsed, and the query is verified alone.
- The text is signed, not the parameters: a value `9&order=o1` and two parameters
  `fee=9`, `order=o1` share a signature, so do `o1` and `O1`, and the second value of a
  name is never signed. `CallbackIsGenuine` is stated for the text (`Signed`);
  `operate_log` has requests of each of these kinds.
- Only JSON bodies are redacted. `SecretsStayOut` is about those.
- An image without a size is charged the request's length, one byte when that
  is not declared, while its delete gives back the size of the before-image.
- A delete is charged to the merchant at the top level or in the `meta` of the
  before-image before the one below `_` (`merchantFromBefore`): a document that
  names another merchant there is charged to that one (`NamesOne` excepts it).
- Where substrings given to `RegisterMap` overlap, the before-image may be of
  another collection (`OwnRuleFirst` excepts those paths).

## 4. Runs

"Every fault" means every member of the module's `Faults`.

| run | instance | shows |
|---|---|---|
| `audit_safety` | 4 rows, 2 critical; queue of 2; 2 initialisers; every fault; 1 crash; publisher started first | `RowAccounted`, `SinglePlace`, `NoStrandedQueue`, `DropsCounted` in every interleaving, and that the path implements the ledger |
| `audit_liveness` | 3 rows, queue of 1, late start, every fault, 1 crash | `QueueDrains` with a scheduled loop, `SaveNeverBlocks` without one |
| `audit_late_start` | requests before the publisher | violation: a row neither queued nor inserted |
| `usage_exact` | 2 merchants, 3 requests, limit 1, 7 ways to name a merchant, no fault | `MeterExact`, `SettledAdmission`, `MeterCatchesUp` for the merchants that are accounted for, beside requests that are charged elsewhere |
| `usage_faults` | 1 merchant, 3 requests, queue of 1, 5 ways to name a merchant, every fault, 1 crash | `ChargesAreEarned` whatever fails |
| `usage_unchecked` | merchant named by the body only | violation: charged without a quota check |
| `tenant_binding` | 2 merchants, 12 chains, every login and header | readers agree (`HeaderMatchesContext`), the token decides (`TokenDecides`), an untrusted header binds nothing, the super-admin mark is verified, guards and queries have one scope, attribution follows the binding, a second mount changes nothing |
| `tenant_unswitched` | console chain | violation: an unswitched super-admin keeps a header that arrived |
| `second_factor` | 2 accounts, 2 secrets, 2 sessions, 1 request, 1 reset, refused commands | `PassedOnOwnSecret`, `SessionKeepsSecret` |
| `client_registry` | 2 goroutines, 10 calls, 2 codes | `RaceFree`, `CallsReturn`, no deadlock, and that the registry implements the directory |
| `rpc_rollout` | 3 services, 2 calls | `NobodyRejected` |
| `operate_log` | 1 request of 75 kinds, 32 of them callbacks, beside 1 that changes the document; 6 documents; bodies of up to five units, `maxAuditBody` being two; 5 rules; failed reads, panics, rejections | a diff that parses replays (`DiffReplays`), an update's row tells what changed (`RowTellsTheWrite`), secrets stay out of rows, the handler gets the body, exactly the callbacks whose text was signed pass, the row has the visitor's address, spellings of a path agree (`SameResource`), and a delete gives back what the create took (`DeleteUndoesCreate`) |

Every run also has its module's type invariant where it is a passing run of that
module's widest instance.

## 5. Fairness, deadlock and bounds

*Fairness.* Go's scheduler runs every runnable goroutine, so a request that has
started its save is weakly fair, and so are the initialisers and the loops. In
`AuditPipeline` the loop is left out of `Spec`: `SaveNeverBlocks` holds although
`Publish` may hang, and `QueueDrains` assumes `PublisherFairness`, which is
justified by the 3 s context that bounds every `Publish`. `UsageMeter` assumes the
same of its loop, and that the consumer consumes; arrival of requests and crashes
are never fair. In `ClientRegistry` a goroutine that can go on does (weak
fairness), and one that waits for the mutex gets it if it is free again and
again (strong fairness), since Go's mutexes do not starve a waiter.
`TenantBinding`, `SecondFactor`, `RpcRollout` and `OperateLog` have safety properties only.

*Deadlock.* Requests are finitely many, so most systems stop when all have been
served, and deadlock is not checked there. `client_registry` calls for ever and checks it.

*Bounds.* `QueueCap` 1 or 2 instead of 4096: the code compares the length with
the capacity only, and with more rows than capacity plus one in the publisher's
hands (4 against 3) the queue fills in `audit_safety`, so both outcomes of the
`select` occur. Two initialisers are enough for a race on the Once; one crash
separates what survives from what does not. Three requests allow a create, its
delete and a racing second delete; a limit of 1 is reached by one create. In
`usage_exact` the queue holds all events, because a dropped event is one of the
faults that make the meter inexact. Two merchants suffice where a property compares two sources
of a merchant; `ManyNamings` has each source alone, a body that is not captured,
the other merchant as a namespace, and `*` with a body. `MaxTime` 1 and `Lifetime` 1 let a key and a cookie expire while
others are new; `MaxResets` 1 lets a secret change during a request. Three
services let one be before, one at and one after its change. In `operate_log`
`MaxBody` is 2 units, so that bodies of 1 to 5 are short of the limit, at it, at
the one unit beyond it and past that, where a form loses one or two parameters; `MaxChanges` 5 is met by bodies on the
stored document of 6 to 7 fields and missed by others; one other writer is enough to
overtake a before-image. Symmetry is used
for model values that no constant tells apart, and never with liveness.

## 6. Proofs

The eight modules `*Proofs` extend the module they are about. Each assumes the
named assumption on its constants, which TLC evaluates in every run; the
theorems that need more (`BootFirst`, `TtlIsLifetime`, `Faultless`, `Roomy`,
`CorsFirst`) say so in their statement.

- **`AuditPipelineProofs`**, for any rows, initialisers, capacity, faults and
  crashes. `RowAccounted` and `SinglePlace` are not inductive: they need to know
  that one initialiser made the channel and holds the Once (`OnceInv`), that only
  its loop runs, on that channel (`LoopInv`), and how a row's place, its request's
  position and the cause of its loss relate (`RowInv`). `IInv` is their conjunction.
  Results: `PipelineTyped`, `PipelineSinglePlace`, `PipelineNotStranded`, and, with
  `BootFirst`, `PipelineAccounted`. Without `BootFirst` the last is false (finding 1).
  `PipelineDropsCounted` has an invariant of its own: the counter covers the rows
  already given up and those counted that still look for their fallback (`Dropped`,
  finite and no larger than `auditDropTotal`).
- **`AuditRefinementProofs`**: `PipelineImplementsLedger`. Initial states map to
  initial states, and every step maps to a ledger step or a stutter, by cases on
  the actions, under `BootFirst` and `IInv`.
- **`TenantBindingProofs`**, for any merchants, super merchants and chains: all
  nine properties of `tenant_binding` (`BindingTyped` to `BindingIsAttributed`). The
  strengthening (`IInv`, `SettledInv`) says what the binders that ran have left:
  the header and the context agree, and a verified merchant stays bound whatever
  runs later. `BindingViewAll` assumes `CorsFirst`, that a chain mounts CORS
  only before the JWT (as `README.md:41-42` does): a CORS middleware behind the JWT would open
  every namespace again. `BindingIsAttributed` needs no hypothesis; its invariant
  says what the headers can still name after each binder, and whom a quota check
  that ran behind the verification was about.
- **`UsageMeterProofs`**, for any requests, merchants, namings (headers, bodies,
  captured or not, and namespaces), queue, plan and faults: `MeterTyped`,
  `MeterChargesAreEarned`, and without faults
  (`Faultless`) `MeterIsExactUnlessFull`, `MeterIsExact` and `MeterAdmitsSettled`. An event is right when it is made because
  a delete's target was created and never changes its owner, and the before-image
  names that owner or nobody (`AskInv`, `ChargeIsEarned`); it stays right because a finished request
  changes no more (`EarnInv`), however often its event is lost or delivered twice.
  The meter is exact for an accounted-for merchant (`Counted`, `CountInv`) because
  every step moves at most one request between the sets that are counted; the
  cardinalities change by one or not at all, so no induction over the set is
  needed. A request that has arrived never makes a merchant accounted for again
  (`AccountedBefore`), and one that does not name its owner moves no set of an accounted-for
  merchant and adds nothing to its account (`ChargeComes`, `EventFits`). `Roomy` says that no event meets a full
  queue, and holds when the queue has a place for every request (`RoomForAll`).
- **`SecondFactorProofs`**, for any accounts, secrets, sessions, requests and Redis
  failures. `TtlIsLifetime` says what the comment on `SaveOTPSecret` asks of its
  caller: a ttl is the cookie's lifetime or none. `FactorKeepsSecret` needs that
  cookies were issued by now (`Issued`), so that no later login's ttl can end
  before an earlier cookie, and that a kept session's key is set for as long as
  its cookie (`KeptInv`). `FactorOwnSecret` needs that the history
  of a running request holds what is offered to it in every state (`ReqInv`).
- **`RpcRolloutProofs`**, for any services and calls: `RolloutRejectsNobody`. The
  strengthening `Settled` says that unless every window is open all services, and
  all calls under way, use one token, and no call waits for a window to be read.
- **`ClientRegistryProofs`**, for any goroutines, calls, codes and environment:
  `RegistryTyped`, `RegistryRaceFree` and `RegistryImplementsDirectory`. `IInv` says which positions hold the
  mutex (`LockInv`), that nobody is served before the Once is done (`OnceInv`),
  how far the tables are filled (`FillInv`), that a lookup left only unknown
  hosts behind (`CallInv`), and that answers appear with the return (`AnswerInv`).
  The type of the names needs that a nonempty set of positions of the
  environment has a last one (`GreatestElement`), from the well-foundedness of `<`.
  In the refinement every step that brings a goroutine to its return is
  `TakeEffect`, every other step of a call stutters, the end of the Once included.
- **`OperateLogProofs`**, for any requests, chains (each middleware anywhere, verifiers
  and snapshots as often as one likes, one capture), bodies, documents, rules, keys and limits. `IInv` says for a
  request how far it has come (`Waiting`, `Arrived`), that what is missing of its
  body could not be had or is in the parsed form (`RestInv`), that the form, once
  parsed, has all that was sent unless the body broke off or was cut (`FormInv`,
  from `ParsedSent`), that a rejection ended its chain and a pass means that the text
  of the form was signed (`VerdictInv`; the proof needs nothing of how that text is made), and that its row
  is what `Save` makes of the request as it still stands (`RowInv`). From it follow
  `HandlerHasBody`, `VerdictIsRight`, `OperateLogTypes`, `RowsHaveVisitor`,
  `RowsHideSecrets` (a path below a sensitive key ends as `***`, and neither the
  summary, the cut nor the diff brings anything back) and `DiffsReplay` (`DiffIsComplete`:
  at a path where the diff reports nothing on the way both sides agree). A second
  invariant, `ImageInv`, says that the before-image of a request nobody overtook is
  that of the document, as it is and, once the handler has worked, as it was
  (`ImagesHold`); it needs that the path's own rule is found first whatever order
  `RegisterMap` took (`OwnRuleIsFound`). `DeletesGiveBack` follows from both, and so
  does `RowsTellTheWrite`. There the image, the body and the document after are
  redacted and normalised each by itself, and the proof goes by the key at the top of
  a path. If the update sets it, the document now has below it what the body says
  (`SaidIsNow`: the stars fall on the same paths, and by `Apart` nothing else ends
  there). If not, the document has below it what it had, wherever a reader may look
  (`KeptIsOld`: a redacted key is one the diff skips, and so is the stamp). So
  where the document changed, the body differs from the image, and the diff says so
  (`SameWhereUnreported`, shared with `DiffIsComplete`); and what the diff lists under
  a key that was not set is `removed` (`ChangeOfUpdate`). That two keys do not end as
  one gives `normalizeAuditValue` a single result (`NormalExact`, `OneNormal`), and
  what it does to a path is told by the places of the kept keys (`OnlyKeeps`).
  `SpellingsAgree` rests on what `ClassifyPath` makes of a path once version,
  namespace and ids are gone (`ClassOfSpelling`, `PlatformAside`, `ServiceLeftOut`).
  The assumptions: `RequestAssumption` types the constants and says that a request
  that is logged passes the middleware that logs it; `SecretsAssumption` says that
  the secrets of a body stand below sensitive keys; `LiteralsAssumption` that the
  literals of the module are strings, which the provers do not know.

Only model-checked: the liveness properties (`QueueDrains`, `SaveNeverBlocks`,
`MeterCatchesUp`, `CallsReturn`), since liveness under fairness and `ENABLED` are out of
this prover's reach. Every other property that a passing run checks is a theorem.

## 7. Findings

1. `audit_late_start`: `EnqueueAudit` (`audit.go:101`) and `AuditAsyncReady`
   (`oplog.go:186`) read the channel variable at two moments. If the publisher
   starts in between, a non-critical row is neither queued nor inserted, although
   `oplog.go:182` says it is one or the other. It needs requests served before
   `InitAuditFromViper` returned.
2. `usage_unchecked`: the quota is checked for the merchant of the headers
   (`usage_quota.go:74`), the charge may go to the merchant of the body
   (`oplog.go:293-300`). A create that names its merchant in the body only is
   charged without a check, against `README.md:11` and `usage_quota.go:52`.
3. `tenant_unswitched`: `writeIntoHeader` (`user.go:160`) restores the token's
   merchant for a login that may not switch; a super-admin on the console's host who
   does not switch keeps the `X-Tenant-ID` that arrived, against `tenant.go:142`.

Two remarks that no run is about: `wx_auth.go:45-49` logs a failed read but
returns a nil error for an empty field; overlapping substrings of the snapshot
registry are matched in an order that `RegisterMap` takes from a random map.

## 8. What is not modelled

- Descriptive fields of a row (target, summary, device, URI, trace, client) and
  the Chinese labels of paths: wording, and nothing is decided by them.
- The WeChat token: four reads of one hash whose writer is not in this
  repository, so nothing says what a reader may rely on.
- The location of an address: external data behind one function call.
- Custom callback verifiers and how a rejection is worded.
- The login log, device names, trace and the handles of Redis and MongoDB: one
  call or formatting, without state.
- Token parsing and signatures: a login is valid or not.
- Image bytes beyond the event: they travel with the count in `UsageMeter`.
- The version string of the client registry.
- Handlers, Kafka, MongoDB, Redis, the quota service and operators: external,
  modelled from how the code uses them.
