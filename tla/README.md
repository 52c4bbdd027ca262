# AuthZEN in TLA+

This directory models the stateful and decision-carrying parts of this Go
implementation of the OpenID AuthZEN Authorization API (`src/`), checks them with
TLC on small instances, and proves the central safety properties with TLAPS for
every value of the constants. Modelled are the human-approval store with its
janitor, its callbacks and its poll endpoint; the path of a decision from a policy
enforcement point (PEP) over the HTTPS+JSON or the gRPC binding to the policy
decision point (PDP) and back, with batches, searches, metadata and the command
line; the MCP Enforcer with its challenges; and the access-request profile.

## 1. The system

| Part | State | Operations | Interacts with |
|---|---|---|---|
| `approval.Store` (`approval/store.go`) | a map id -> record (pointer to an `Approval`, creation instant) under one mutex; a cap; an `OnResolve` hook | `Create`, `Get`, `Approve`, `Deny`, `Cancel`, `Delete`, `Sweep`, lazy expiry | any number of goroutines; the caller's `*Approval` objects; the hook |
| janitor and `Close` (`approval/store.go`) | stop and done channels, a `sync.Once`, a ticker | the select loop; `Close` | sweeps the Store, runs hooks on its own goroutine |
| `approval.Notifier` (`approval/notify.go`) | none | `Notify`: one POST of a ping or push, no retry | is installed as the hook; the client's callback endpoint |
| `approval.Handler` (`approval/handler.go`) | none | the poll endpoint | `Store.Get`; the polling client |
| core types (`types.go`, `evaluation.go`, `evaluations.go`, `search.go`, ...) | none | validation; `Resolved` (defaults into batch members); the two shapes of a batch response | `server`, `client`, `grpc` |
| `server` (`server/server.go`) | none shared; per request, how much of the response is written | the request pipeline, panic recovery, `EvaluateBatch` under three semantics, searches, metadata | the PDP implementation, which may fail, panic or outlive the context |
| `client` (`client/client.go`) | none | request and response mapping | a server |
| `mcp` (`mcp/middleware.go`, `mcp.go`, `challenge.go`) | none shared; per call, what was written | the fail-closed `Enforcer` | an evaluator, a subject resolver, the wrapped handler, any of which may panic |
| `accessrequest` | none | validators of submissions, tasks and results | documents of the access-request profile |
| `grpc` | none | conversions to and from protobuf, the service and its client | the core types |
| `cmd/authzen`, `interop`, `grpc/gen` | none | the command line, test scenarios, generated code | |

What is hard here:

* **The Store** is the only long-lived shared state. Five operations can resolve
  an approval (three decisions, a poll that observes an expiry, a sweep), on any
  goroutine; each must do so once, and must hand one clone to a hook that runs
  after the mutex is released, when the record may already be gone. `Create`
  works on the caller's object before it takes the lock, and keeps the caller's
  pointer afterwards.
* **The janitor** runs the hooks of its sweeps itself, while `Close` waits for it
  and other callers of `Close` wait for the first.
* **Delivery** composes an at-most-once hook, one unreliable POST, a poll endpoint
  and a sweeper that forgets resolved records.
* **Batches** combine member failures, a context that may be cancelled midway,
  short-circuiting semantics, defaults shared between members and two response
  shapes.
* **Two bindings** carry the same calls with different shapes: JSON drops empty maps
  and knows two batch shapes, protobuf knows one and narrows integers to 32 bits.
* **Pipelines** (`server`, `mcp`) recover from panics when part of the response may
  have been written, and must fail closed.

What makes each part correct:

| Part | Properties |
|---|---|
| Store | one verdict for everybody who learns one; terminal states immutable; the hook at most once, and (unless the process stops) at least once; decisions only within the lifetime and expiry only after it; records found under their own id; the cap; reclamation never silent |
| janitor and `Close` | quiet once `Close` has returned; `Close` always returns; the hook learns of the expiry of approvals nobody polls |
| Notifier and poll endpoint | a client that missed the callback can learn the verdict by polling; a pushed verdict equals the polled one |
| batches | as many results as members actually evaluated, in request order; a short-circuit only for its reason; a failed member is a deny, a cancelled context a failure of the call; members do not share mutable maps |
| server | exactly one response per request; a panic never turns into a success |
| mcp | the wrapped handler runs only after an allow; every other path denies; a 401 goes to those it can help and to no other |
| accessrequest | a submission is accepted exactly when every item is bound to a denial; what a re-evaluation carries for an item is that item's approval |
| grpc | conversions lose nothing but what clamping loses; the clamp is monotone |

`PROJECT.json` lists every component with its status and the hazards of the code,
each at its line.

## 2. Modules

| Module | Models | Composes |
|---|---|---|
| `ApprovalStore` | the Store | |
| `ApprovalLifecycle` | what the Store promises of one approval (abstract specification) | |
| `ApprovalJanitor` | the background sweeper and `Close` | extends `ApprovalStore` |
| `ApprovalDelivery` | Notifier, poll endpoint, lossy network, what the client has been told | extends `ApprovalStore` |
| `AuthzenCore` | validation, `Resolved`, the JSON binding (operators only) | |
| `BatchEvaluation` | `EvaluateBatch` and the PDP it calls | extends `AuthzenCore` |
| `GrpcConversion` | the conversions to and from protobuf (operators only) | extends `AuthzenCore` |
| `Discovery` | the issuer comparison of the client (operators only) | |
| `DecisionService` | PEP, client, command line, both bindings, both servers, PDP | extends `BatchEvaluation`, `GrpcConversion`, `Discovery` |
| `McpChallenge` | rendering, parsing and transport of challenges (operators only) | |
| `McpEnforcer` | the MCP middleware and its collaborators | extends `McpChallenge` |
| `AccessRequest` | the access-request flow and its validators | extends `AuthzenCore` |

Each `MC...` module gives the constants of one of them values that a configuration
cannot express; each `...Proofs` module holds the theorems about the module it is
named after.

Not done yet, in the order of their worth: the client's redirect and transport policy; the
callback and client fields of a submission.

## 3. The Store: `ApprovalStore`

### State

| Variable | Code |
|---|---|
| `heap` | the `Approval` objects callers allocate, by reference; a record names its cell because `Create` stores the pointer it is given |
| `items` | `Store.items`: a partial function from ids to `[ref, createdAt]` |
| `now` | `Store.now()`, in whole seconds |
| `creating[t]` | the `Create` call of goroutine `t` between `newID` and `mu.Lock`; empty or one call |
| `firing[t]` | the clones goroutine `t` took under the lock and has not handed to the hook yet |
| `minted` | the ids `newID` has returned: it never returns one twice (high entropy) |
| `born`, `observed`, `announced` | history: instant and lifetime of each stored id, the terminal statuses callers were told, the clones the hook was invoked with |

### Actions

A critical section is one action, since the mutex admits no other method in
between. What happens outside it is an action of its own.

| Action | Code |
|---|---|
| `Mint` | `Create` up to `mu.Lock`: the id is minted and the caller's object reset. An entropy failure returns before anything is written and is a stuttering step |
| `Insert`, `Refuse` | `Create` under the lock: the record is stored, or `ErrStoreFull` |
| `Get` | lazy expiry, or the status as it is |
| `Approve`, `Deny`, `Cancel` (`Decide`) | `mutableLocked`: a late call expires the approval and returns `ErrExpired` with a clone for the hook; a pending one is decided; `ErrExpired` on an expired one tells the caller its status; `ErrAlreadyResolved` and `ErrNotFound` change nothing |
| `Delete`, `Sweep` | reclamation; `Sweep` expires what is due, removes every terminal record and takes the clones of those it expired |
| `FireResolve` | one hook invocation after the unlock. A panic of the hook is recovered and counts as an invocation |
| `Tick` | time passes |

Points where the model takes care to admit what the code can do:

* **The clock inside a critical section.** `Approve` reads it for the deadline and
  again for `DecidedAt`, `Sweep` once per record. The clock may therefore pass to the
  next second within an action (`Instants`): a decision may carry a `DecidedAt` that is
  later than its check, and a sweep may or may not include what becomes due while
  it runs (`MayLapse`).
* **Map iteration order** is open in Go: the hooks of a sweep run in any order, and
  of two records that share an object one may or may not be removed by the same
  sweep (`Aliases`).
* **A hook that calls back** into the Store does what another goroutine may do at
  that moment, as no lock is held; only `Close` is different, see section 4.
* **Overflow.** `Seconds` wraps like `time.Duration(n) * time.Second`.
* **Callers.** `Free` states the discipline under which `Create` is safe: an object is
  handed to it only while neither the Store nor another call has hold of it.
  `ReuseRequests` lifts it, for the run that shows what happens then. Two goroutines
  that pass one object at the same time race on its fields; that misuse is not
  modelled beyond whole-object writes.

Left out: `Len`, which only reads; `Interval`, `Grant`, `ReasonUser`, the
descriptive fields and the values of ids, on which no transition depends.

### Properties

`OneVerdict`, `HookAtMostOnce`, `FoundUnderOwnId` and `CapRespected` are invariants;
`TerminalImmutable`, `ResolvedOnTime` and `SweptOnlyWhenResolved` say what no step does;
each is stated in words above its definition. `ApprovalLifecycle` is the abstract
specification: per approval, absent, then pending, resolved once, announced once, and
perhaps forgotten. `LifeOf` maps a Store state to it. A record that is no longer held
is remembered by its announcement, so the refinement also shows that reclamation
loses no resolution. `EveryResolutionAnnounced` is the abstract liveness.

## 4. The janitor: `ApprovalJanitor`

Extends `ApprovalStore`; one of the goroutines is the janitor, which takes only the
steps of its loop: `Wake` on a tick, `JanitorSweep`, `JanitorDelivers` for each hook of that
sweep, `Rest` back to the select, `Exit` when the stop channel is closed. `Ring` is the
runtime's ticker with its one-element buffer. `Close` (`EnterClose`, `Joined`, `Dequeued`)
models the `sync.Once`: the first caller waits for the done channel, callers that
come meanwhile wait for the first, later ones return at once. `HookThatCloses` is a hook
that calls `Close`; `ClosesOn` says on which verdicts it may. A Store without a
janitor has no stop channel and its `Close` does nothing, so it needs no model.

Clients go on calling the Store during and after `Close`, as the code allows: `ClientStep` is
one of its methods, `Delivers` a hook invocation after the unlock, `ClientDeletes` a `Delete`,
which the history variable `deleted` remembers.

`ExpiredUnpolled` follows a due approval to its announcement: the hook is told in the end that
it expired, whoever finds it first. That the record is gone is not enough. Two things
excuse the silence: `Close`, after which nobody sweeps, and a client that deletes the
record, since `Delete` "does NOT fire OnResolve" (`store.go:369-371`).

## 5. Delivery: `ApprovalDelivery`

Extends `ApprovalStore` with `HookSet = TRUE`: the hook is `Notifier.Notify`, and the
client reads the poll endpoint.

| Variable | Code |
|---|---|
| `terms[i]` | the delivery modes and `callback_url` of the approval with id `i`, fixed for its life |
| `validator` | whether `Notifier.Validate` is set |
| `posting[t]` | the POST goroutine `t` waits for in `client.Do`; empty or one |
| `wire` | POSTs under way, independently of whether anybody still waits for them |
| `answering[t]` | the reply `servePoll` on goroutine `t` owes |
| `received[i]` | everything the client has been told of approval `i` |
| `posted[i]` | history: POSTs sent |

`Notify` is one `FireResolve` of the Store together with what the hook does: nothing for
a client that only polls, an error before any I/O without a validator or with a
refused or malformed URL, else one POST that blocks the goroutine. `PostReturns` ends
it, whether or not the callback has arrived, and nothing is sent again. `Poll` is `Get`
under the lock; the reply goes out (`ReplyArrives`, `ReplyLost`) only when the hooks of an
expiry that `Get` observed have returned (`Answered`), because `Get` runs them before it
returns. Callbacks and replies are lost and overtake one another. The list of
delivery modes is a set, since `deliveryMode` looks for membership only; URLs are
their scheme and host, which is what the allow-list reads. `Retry-After` is left out.

`ClientsAgree` (one outcome, whatever the channel), `AtMostOnePost`, `CallbackThenPoll`
(a poll after a callback is never told "pending"), `PollingLearns` and `PollsAnswered`
are stated in words above their definitions.

## 6. Decisions: `AuthzenCore`, `BatchEvaluation`, `GrpcConversion`, `Discovery`, `DecisionService`

**Data.** A string is empty or a name; a `map[string]any` is one of a few kinds (`Maps`),
since the code only asks whether it is nil or empty, and the encoders whether they can
encode it: "opaque" is a map they refuse, "bomb" one whose `MarshalJSON` panics.
`JsonMap` and `mapToStruct` are the lossy parts of the bindings: an empty map is dropped.
Message texts are left out, except whether they hold the detail of a backend error.

**The loop** (`BatchEvaluation`). One member at a time: `MemberDecided`, `MemberErred` (fails
the batch when the context is done, else closes this member and logs its correlation
id; `PdpFails` tells an error of the PDP's own, "error", from that of the ended context,
"cancelled"), `MemberPanicked` (also a nil response, and `http.ErrAbortHandler`). `Collect`
applies the semantic. Meanwhile `Cancel` ends the context, and `PdpWrites` lets a PDP
write to the maps it was handed, also after it has answered. Maps have cells, so that
two members that inherited the same default could share one; the clone functions
give each its own (`Cell`). References nested inside a map, which the code documents as
shared, are left out.

**The call** (`DecisionService`).

| Variable | Code |
|---|---|
| `call` | what the PEP asks: client (Go client, command line, raw), binding, operation, body, how the request is formed, exit code of a deny, whose `http.Client` sends it (`own`) and the configured `Timeout` |
| `client`, `result` | the call of `client.go` or `grpc/client.go`, and what it returned |
| `exit`, `printed` | the command line tool's exit code and summary lines |
| `wire` | the encoded request |
| `server`, `handed`, `verdict` | the handler, the request it gave the PDP, the PDP's answer |
| `reply` | status lines in the order written, and the body; `None` if the stream broke |
| `log` | correlation ids logged by the handler |

| Action | Code |
|---|---|
| `MakeCall` | the command line up to the call (`CommandLineStops`), local validation, encoding and authentication of the client (`ClientRefuses`), or sending (`Sends`) |
| `HttpReceives` | routes, `requirePost`, `decodeJSON`, validation, batch size (`Refusal`), stripping the searched entity's id, metadata |
| `HttpAnswered`, `InLoop`, `LoopEnded` | the PDP's answer, by itself or through the batch loop: `writeJSON`, `writeServerError`, `recoverMiddleware`, the encoder that fails or panics after the status line |
| `GrpcReceives`, `GrpcAnswered` | the RPC methods; nothing recovers a panic there |
| `Receives`, `GivesUp` | decoding of the response by status and shape; timeout, broken connection, body too long. `Deadline` is the part of `GivesUp` that a positive `httpTimeout` makes certain |
| `Disconnected`, `RequestLost` | the server learns that the PEP is gone, or never learns of the call |

A handler's work between two calls of the PDP is one step: it shares nothing with
other goroutines. One call at a time is modelled, because neither side keeps anything
between calls. The identity of a random correlation id is "fresh" (or the member's
number in a batch), which assumes that random ids do not collide. A raw client may
send any request; over gRPC it is not validated before it arrives. `normalizeIssuer`
compares scheme, host, path and port; letter case and a final slash are folded.

The Go types are sets of records in `AuthzenCore` (`EvaluationRequests`, `SearchResponses`,
...), messages in `GrpcConversion` and the values of the service in `DecisionService`
(`Bodies`, `ResponseValues`, `Results`); a pointer, map or slice may be nil, which is
`None` and no value of any type. `ServiceAssumption` says of the constants what the types
say, with two exceptions that the code's comments impose on a PDP or an operator: a batch
response holds a decision or a list, not both (`evaluations.go:289-302`; `conv.go:402-426` and
`evaluations.go:323-374` treat one with both differently), and the maximal batch size is
positive (`NewHandler` replaces one that is not). `Batches` must hold what JSON makes of its
members, since those are what a handler begins the loop with.

## 7. MCP: `McpChallenge`, `McpEnforcer`

A header is a sequence of characters of which the special ones (quote, backslash,
comma, space, equals, control) are told apart, every other element is a word: that is
what `quoteString`, `stripControl` and the scanner in `parseAuthParams` look at. `Dropped`
is the filter of `stripControl` and `sanitizeScheme`; `Unquoted` and `ParamsFrom` are the inner and
the outer loop of `parseAuthParams`, as functions of the position a round begins at.
`AnyChallenge` is the type `Challenge` of the code: any texts and any status. The Enforcer is one request through `Receive`, `Extracted` (or `ExtractorFails`), `Authorized`
(or `AuthorizerPanics`), the wrapped handler (`NextWrites`, `NextReturns`, `NextPanics`) or
the responder (`Respond`). A panic anywhere is recovered once (`Panicked`), the deferred
function answers through the responder, and a panic of the responder escapes. The
response follows `http.ResponseWriter`: the first status and the headers set by then are
sent, everything later is appended to the body.

`OnlyUnauthenticatedGet401` says which refusals are a 401, in terms of the request alone: those
of a request without a token, and of a well-formed one whose token names nobody. An
unknown method or a missing target is found before the principal is looked at
(`mcp.go:311-342`), so that such a request is a 403 whoever makes it. Arguments, transport and the resource
indicator of an MCP request are copied by the code and left out.

## 8. Access requests: `AccessRequest`

The package gives types, `HintFromContext`, `DenialFromHint`, `IsTerminal` and validators.
The flow around them is what its documentation asks of its users and is marked
external in the map: a PEP gathers denials (`Deny`), submits anything it can build from
them (`Submit`), polls (`Poll`), and re-evaluates with the approvals of a valid terminal
response (`Reevaluate`). The items of a response are the service's own: fewer or more than
were submitted, for other targets, each with its own status and result; nothing in the
package compares them with the submission. They correspond to its entries by position
(`task.go:87-90`, `Entries`), and only an outcome that is approved with the mode "reevaluate"
is used (`Enforceable`, `task.go:134-138`). What users build need not be valid; the validators
have to tell.
Validation of callback, client and actor, three field checks without a connection
to the rest, and the problem types are left out.

## 9. What TLC checks

| Run | Instance | Shows |
|---|---|---|
| `store_safety` | 2 goroutines, 2 objects, 3 ids, lifetimes 0 (default 2) and 1, clock to 2; symmetric; 430 thousand states | the safety properties of the state machine |
| `store_fair` | 2 goroutines, 2 objects, 2 ids, cap 1, fair; 110 thousand states | the cap, the refinement of `ApprovalLifecycle`, every resolution announced |
| `store_reuse` | 1 goroutine, 1 object, re-submission allowed | *violation* of `TerminalImmutable` |
| `store_overflow` | 1 goroutine, a lifetime that wraps | *violation* of `ResolvedOnTime` |
| `janitor` | 2 clients and the janitor, 1 object, 2 ids, hook closes on human verdicts, fair; 118 thousand states | quiescence after `Close`, `Close` returns, the hook is told of unpolled expiries |
| `janitor_hook_closes` | the same, hook closes on an expiry | *violation* of `CloseReturns` |
| `delivery` | 2 goroutines, 1 approval of every delivery mode and URL, with and without a validator, fair; 88 thousand states | one outcome per client, one POST, polls answered, polling learns |
| `delivery_recover` | the same instance | *violation* of `PollingRecovers` |
| `service` | every operation from every client over both bindings, batches of 0 to 4 members, every PDP behaviour, clients with and without an `http.Client` of their own and with negative, zero and positive timeouts, fair; 43 thousand states | fail closed end to end, decisions arrive, batches, cancellations, errors, calls and handlers end |
| `service_empty_batch` | the same instance | *violation* of `EmptyBatchAnsweredSingly` |
| `mcp` | tokens with and without subject, client and actor; targets missing or not and unknown methods, for callers that are named or not; 84 challenges whose texts combine the special characters; statuses around both ends of the error range; 62 thousand states | the Enforcer fails closed, its denies are errors, challenges reach the client |
| `access` | two denials, hints that lack each part, bundles of two, responses of up to two items of mixed outcomes; 261 thousand states | submissions are bound, re-evaluations carry approvals |

Why the bounds are enough.

* Store: two goroutines are what any race on it needs, since a critical section involves
  one record at a time, except for a sweep, which two records exercise. Two objects and
  three ids allow one object to be stored, removed and stored again while the other is in
  flight. Lifetimes 1 and 2 and a clock to 2 put calls before, at and after a deadline,
  with a second one pending. Lifetime 0 exercises the default. The janitor needs one
  approval at a time (two ids let an object be created again after the first is gone) and
  two clients for two racing callers of `Close` beside the janitor.
* Delivery: the properties are about one approval and no message is about two. One
  goroutine can wait for a POST while the other polls, sweeps or decides; a poll that
  expires the approval and another that overtakes its callback are both possible.
* Service: a batch of two shows defaulting, sharing and every short-circuit position, a
  batch of three is at the size limit (3) and one of four above it. `MaxInt32 = 3` puts a page
  limit of 5 beyond the clamp. The issuer documents are one of each way to be refused and
  one that only differs in case and default port.
* MCP: the texts contain each special character at the start, at the end and next to
  another. Two writes of the wrapped handler suffice to write before and after a status.
* Access: a bundle of two is the smallest in which one item may lean on the other's
  denial or on the common one. A response holds up to `MaxItems = 2` items, so that the
  second may be missing, or be approved when the first is not, with an approval of its own.
  A third item would stand for no entry, and no validator relates one item to another.

No run switches off the check for deadlock: the clock and the ids run out, but reads,
sweeps, ticks or the next call stay possible.

Fairness. In `FairSpec` a goroutine that has entered `Create` or holds clones to
deliver runs on: the mutex is never held across a call out and hooks return.
Nobody is obliged to call anything, and the clock need not advance. In
`JanitorFairness` the ticker keeps ticking, the janitor goroutine is scheduled, a client that
holds a clone delivers it, and `Exit` is strongly fair: the select has two ready cases when ticks keep coming, and
Go chooses among ready cases uniformly at random, so that the stop case is taken
with probability one. Under weak fairness of `Exit` the property `CloseReturns` fails
on a behaviour in which the tick wins every time. In `DeliveryFairness` goroutines run on
and a POST ends, by the timeout of its client or context; a client keeps polling and not
every reply is lost (strong fairness of `Polled` and `Fetched`: polls come and go); nothing
obliges the network to deliver a callback. `FairServiceSpec` only assumes that an
`http.Client` with a positive `Timeout` gives up when it has passed. Whether there is one
is the code's doing (`httpTimeout`): the fallback client replaces a timeout that is zero or
negative (`client.go:575-582`), and `CallsReturn` is that it therefore always returns. For a
caller's own `http.Client`, whose `Timeout` may be zero, and for gRPC nothing is assumed and
nothing claimed. `HandlersEnd` states its assumption itself: that the PDP
answers every call it is made.

### Disagreements between the code and its comments

* `store_reuse`. The Store "treats every terminal state as immutable"
  (`store.go:50`), but a caller that re-submits an object whose approval has been
  resolved resets the stored record to pending, under an id of its own, because
  `Create` keeps and rewrites the caller's object.
* `store_overflow`. "when its lifetime has elapsed" (`store.go:447`): a positive
  `ExpiresIn` above about 9.2e9 seconds wraps, and the approval is expired at once.
* `janitor_hook_closes`. `Close` "waits for it to exit" (`store.go:181`) and
  `fireResolve` runs without the lock "so a blocking callback cannot deadlock the
  Store" (`store.go:466`): a hook invoked by the janitor's own sweep that calls
  `Close` waits for the goroutine it runs on.
* `delivery_recover`. A client must "be able to recover the decision by polling even if
  no callback ever arrives" (`notify.go:81-82`): a sweep removes a record as soon as it is
  terminal (`store.go:402-404`), so that the poll after it is told 404. `PollingLearns`
  states what does hold.
* `service_empty_batch`. An empty `evaluations` array "MUST be answered with the single
  Access Evaluation response shape" (`evaluations.go:278-281`): the default `EvaluateBatch`
  answers with an array (`server.go:143-176`).

Met while modelling and visible in the models, without a run of their own: `authzen
evaluations` prints no line for a response of the single shape and exits 0 (`runEvaluations`),
although it "prints one decision per line" (`cmd/authzen/evaluations.go:15-16`); an
explicit empty context of a batch member is dropped by both bindings and therefore
inherits the default at the server, which a PDP called in process would not see
(`JsonMap`, `mapToStruct`); after a panic of a wrapped MCP handler that has written, the deny
body is appended behind the status already sent, contrary to `middleware.go:180-183`
(`Written`, hence the exception in `DeniesAreErrors`); an MCP list operation without a
server URI yields a resource without id, which core validation refuses (`Target`).

## 10. What TLAPS proves

All for any values of the constants (goroutines, objects, ids, lifetimes, cap, hosts,
requests, PDP decisions, challenges, denials, ...), from the constants' assumptions alone.
The theorems marked * also assume `~ReuseRequests`, those marked ** in addition
`LifetimesFit`, that no lifetime overflows a `time.Duration`, those marked + in addition
`HookSet` (for delivery this is part of `DeliveryAssumption`). The run `store_reuse` shows
that the first cannot be dropped from `TerminalIsImmutable`, `store_overflow` that the
second cannot from `ResolutionsOnTime`; without a hook nothing is ever announced, and the
lifecycle, which has announcements, is not what the Store implements.

| Theorem | Statement |
|---|---|
| `TypeCorrect` | `Spec => []TypeOK` |
| `CapNeverExceeded` | `Spec => []CapRespected` |
| `RecordsFoundUnderOwnId` * | `Spec => []FoundUnderOwnId` |
| `TerminalIsImmutable` * | `Spec => TerminalImmutable` |
| `OneVerdictForAll` * | `Spec => []OneVerdict` |
| `HookRunsAtMostOnce` * | `Spec => []HookAtMostOnce` |
| `StoreImplementsLifecycle` *+ | `Spec => ImplementsLifecycle` |
| `ResolutionsOnTime` ** | `Spec => ResolvedOnTime` |
| `SweepsAreAnnounced` ** | `Spec => SweptOnlyWhenResolved` |
| `JanitorImplementsStore` | `JanitorSpec => Spec` |
| `JanitorWellTyped` | `JanitorSpec => []JanitorTypeOK` |
| `CloseJoinsJanitor` | `JanitorSpec => []QuietAfterClose` |
| `DeliveryImplementsStore` | `DeliverySpec => Spec` |
| `PostsAtMostOnce` * | `DeliverySpec => []AtMostOnePost` |
| `OneOutcomePerClient` * | `DeliverySpec => []ClientsAgree` |
| `CallbacksNeverRunAhead` * | `DeliverySpec => CallbackThenPoll` |
| `BatchesAreExact` | `BatchSpec => []ExactPrefix` |
| `BatchMembersAreIsolated` | `BatchSpec => []MembersIsolated` |
| `BatchFailuresDeny` | `BatchSpec => []FailedMembersDeny` (own failures deny, cancellations fail the call) |
| `ServiceRunsBatches` | `ServiceSpec => BatchSpec` |
| `ServedBatchesAreExact` | the three batch properties under `ServiceSpec` |
| `StatusesTellOutcomes` | `ServiceSpec => []StatusTellsOutcome` |
| `ServiceTypesHold` | `ServiceSpec => []ServiceTypeOK` |
| `PermitsWereDecided` | `ServiceSpec => []PermitsAreDecided` |
| `DecisionsDelivered` | `ServiceSpec => []DecisionsArrive` |
| `PdpSeesValidRequests` | `ServiceSpec => []OnlyValidRequestsReachPdp` |
| `ErrorsAreLogged` | `ServiceSpec => []ErrorsTraceable` |
| `PageLimitsCross` | `ServiceSpec => []PageLimitKeepsSign` |
| `DocumentsNameTheIssuer` | `ServiceSpec => []MetadataNamesIssuer` |
| `ToolIsScriptable` | `ServiceSpec => []ToolTellsDecisions` |
| `EnforcerFailsClosed` | `EnforcerSpec => []PassesOnlyPermitted` |
| `EnforcerDeniesAreErrors` | `EnforcerSpec => []DeniesAreErrors` |
| `DecisionsAreAboutTheCall` | `EnforcerSpec => []DecisionIsAboutTheCall` |
| `RoundTrip` | `Parsed(Rendered(c))` is `c`, control characters aside, for every `c` in `AnyChallenge` |
| `RenderingIsAFixpoint` | `Rendered(Parsed(Rendered(c))) = Rendered(c)` for every `c` in `AnyChallenge` |
| `ChallengesReachClients` | `EnforcerSpec => []ChallengeReachesClient` |
| `DiscoveryStartsWhereItShould` | `EnforcerSpec => []UnauthenticatedStartDiscovery` |
| `AcceptedSubmissionsAreBound` | `AccessSpec => []AcceptedIsBound` |
| `OnlyApprovalsAreCarried` | `AccessSpec => []ReevaluationsCarryApprovals` |

The argument.

* `SettleOrReport` and `SweepEffect` reduce the five paths to a terminal state to two
  forms: one terminal approval written over a pending one together with its clone,
  or a sweep that expires pending records and drops them. `NextCases` takes the steps
  together accordingly.
* The cap: `CapInv` adds that the map is finite, without which its cardinality says
  nothing. The insertion tests and inserts in one critical section.
* Ownership: `FoundUnderOwnId` is not inductive, as a `Create` in flight could write an
  object that is held. `Owned` adds that an object in flight carries an id never
  stored and still pending, and that no two calls share an id. Object identity need
  not be mentioned: a held object carries its record's id, so two records, or a
  record and a call, cannot share an object. From it every step keeps terminal
  records (`KeepsTerminalStep`).
* Announcement: `Notified` follows a resolution outside the critical section. Its
  clone is in one goroutine's hands, then announced, never both; it equals what the
  Store holds if that is still held; and every status told to a caller is that of
  the clone. A pending approval was never heard of (`PendingUnheard`), so that
  resolving it cannot contradict anybody. `OneVerdict` and `HookAtMostOnce` follow.
* The refinement: `LifeOf` remembers a reclaimed record by its announcement, so a step must
  be shown to keep announcements. `Accounted` adds that a held terminal record has
  one; `StoreInv` joins it with the invariants above. For each
  kind of step one lemma says what it does to the announcements of the id it is about
  and that it spares the others (`SettleAnnouncements`, `SweepLives`, `FireAnnouncements`),
  one what that is for the lifecycle (`SettledLife`, `SweptLife`, `AnnouncedLife`,
  `ForgottenLife`, `SameLife`), and `LifecycleStep` puts them together. A sweep ends several lives
  at once, which the lifecycle's `Next` allows.
* The clock: the deadline is computed from the record and
  from an object that outlives it. `Timed` ties both to the birth of the approval,
  the lifetime as long as it is pending; with `LifetimesFit`, a pending record is due
  exactly from the end of its lifetime on (`DueFromEnd`). What is left is that each path
  tests the clock before it writes, and that a sweep drops no pending record but those
  it expires, for which `Owned` is needed: no other record shares their object.
* The janitor: its steps are steps of the Store or leave it alone, so everything
  proved of the Store holds with the janitor too. `JoinedBeforeReturn` strengthens
  `QuietAfterClose`: hooks of a sweep are pending only while the loop delivers them, the
  done channel is closed only by the exit, and `Do` finishes only after that.
* Delivery: likewise a Store (`DeliveryStepIsStoreStep`). `PostsFollowHooks` bounds the POSTs of
  an approval by its hook invocations, of which `Notified` allows one. `Truthful` says of every
  message, received or under way, that it tells nothing, that it tells of a pending approval,
  or that it tells an announcement; announcements are never taken back
  (`AnnouncementsKept`), and there is only one per approval.
* Batches: the invariant keeps decisions, answers and questions at the same length, no
  decision but the last one stops the semantic while the loop runs, and no written cell
  belongs to a map that has still to be handed out. The last answer may be without a
  decision only when the batch failed, and a cancelled one is the last: nothing is asked after it.
* The service's steps are the loop's, or leave it alone, once `OnTheWire` has shown that
  what a handler begins a batch with is a request of the model. `ServiceInv` adds that nothing
  is left between calls, that only operations with a body reach a PDP over HTTP, and that every response of an
  HTTP handler is one status line with an error body exactly when it is not 200: recovery
  writes only when nothing was written.
* From call to result: that a permit was decided says nothing of how it came, so it is not
  inductive. `CallInv` follows the call through the pipeline, one named part for each
  stretch: while a request is handed, it is what the binding made of the call, searched
  ids stripped (`AskedAsReceived`), and the loop runs on that request and no other
  (`LoopAsReceived`); the verdict is of a form the operation allows (`VerdictGiven`); a reply
  is the verdict's or the loop's encoding, an error, or nothing (`Replied`, one form per
  status and binding); the result is what the client decodes from that reply, or a failure
  (`Resulted`); the tool's exit code and lines are computed from the result (`ToolTold`).
  Each action changes one stretch and must keep the others. What a value becomes on a
  stretch is in lemmas about the operators, proved once for all values: requests, batches and
  searches keep their names, members and limits over both bindings (`BatchCrosses`,
  `SearchCrosses`, `PageCrosses`, `ReceivedNames`), `Resolved` of a batch that names
  the same entities does so again (`SameBatchResolved`), and responses keep their decisions and
  types on the way back (`BatchResponseCrosses`, `SearchResponseCrosses`). `Delivered` puts them
  together: decisions read are decisions made, of which `PermitsTraced` and the other
  theorems are read off, with the invariant of the batch loop for what the loop decided.
* The Enforcer's invariant is `EnforcerInv` of `McpEnforcerProofs`: what each phase implies about
  the answer, the denies and the response so far. `AskedAbout` adds that the question is the
  assembly of the request in hand; that assembly separates calls (`AssemblySeparates`)
  rests on `SubjectsSeparate`: agent, client and user cannot be confused, as the claims of
  the token are among the properties. For what a client gets, `FirstDeny` says that as
  long as nothing panicked there is one deny, by the extractor, the assembly or the answer,
  and that what is sent is its status and its challenge. Without "nothing panicked" it is
  false: after a panic the deferred function denies once more. `StatusCrosses` and
  `ChallengeCrosses` read the status, for every integer, and the fields back from the context of
  the deny, over either binding: each field is in the context as it was, or, the scheme and
  the description, only in the header that was rendered into it. Hence the challenge that
  is rendered for the client has been through one round trip, and the client's parser
  makes the second.
* The round trip (`McpChallengeProofs`) is an induction over texts of any length. The library's
  induction rules take an operator, which the provers cannot instantiate; instead, an
  induction is stated about a set of numbers (`Upwards`, `Downwards`, from the least
  counterexample, `Least`), and that a function defined by recursion exists and satisfies its
  equation is proved once (`Recursion`) and used for the parser's two loops (`ScanSteps`,
  `FromSteps`) and for `FlattenSeq` (`FlattenSteps`). The renderer is then a matter of positions:
  `Stands(w, s, i)` says that `w` is found in `s` from `i` on, `Places` and `HeaderPlaces` where the
  pieces of a concatenation are found, `SuffixStands` that cutting off the scheme moves
  them. A quoted value found at a position is read to its closing quote, and to no other, as
  every quote inside follows a backslash (`QuotedIsUnquoted`); from where one parameter ends the
  next is found (`ParameterStands`), so that, from the last one backwards, what is read
  is what `Parameters` lists (`BodyIsRead`, `HeaderIsRead`). Keys are words and distinct, so no
  later parameter overrides an earlier one. `RenderingIsAFixpoint` is the claim of the comments
  of `String` (`challenge.go:75-79`, 87-91).
* The 401: `challengeForError` looks at the error alone. `UnnamedCallers` says of the assembly that
  `SubjectFromToken` fails exactly for the tokens that name nobody, and the order of its tests
  that only a well-formed request comes to that.
* Access requests: a valid binding has an expiry and a reference, and `DenialFromHint`
  invents neither, so that the deny it was made from was requestable (`EntryIsBound`, for
  each entry). What is carried for an entry is read from its own item, which the validators
  have seen: an approved one has a result, and one of mode "reevaluate" an approval that can be
  used (`ReevaluationCarriesApprovals`).

Only model-checked: everything that depends on fairness, which the prover does not handle:
`EveryResolutionAnnounced`, `CloseReturns`, `ExpiredUnpolled`, `PollingLearns`, `PollsAnswered`,
`CallsReturn`, `HandlersEnd`. Every safety property of a run that holds is stated by a theorem.

## 11. Not modelled

`client`: redirects (`stripSensitiveOnRedirect`) and `checkTransportSecurity`, which decide over
headers and URLs no other part of the models has. `server.NewServer`, which fills in
timeouts. Generated protobuf code. `interop`, which holds test scenarios. Of `accessrequest`:
callback, client and actor of a submission, problem types. Of `approval`: `ToContext` and
`FromContext`, a JSON round trip taken to return what it was given, and `Retry-After`. Of
`mcp`: the extra properties a user may give a resource. Nested reference values inside a
map of a batch member. Message texts, log formats, and the layout of printed output.

What users of the packages supply (PDP, hooks, extractors, Authorizers, wrapped handlers,
PEPs and services of the access-request profile) is modelled by what the code in `src/`
expects or must survive of it, and marked external in the map of `PROJECT.json`.

## 12. Running

    tlc -config StoreSafety.cfg MCApprovalStore
    tlapm ApprovalStoreProofs.tla

| Module | Configurations |
|---|---|
| `MCApprovalStore` | `StoreSafety`, `StoreFair`, `StoreReuse`, `StoreOverflow` |
| `ApprovalJanitor` | `Janitor`, `JanitorHookCloses` |
| `ApprovalDelivery` | `Delivery`, `DeliveryRecover` |
| `MCDecisionService` | `Service`, `ServiceEmptyBatch` |
| `MCMcpEnforcer` | `Mcp` |
| `MCAccessRequest` | `Access` |

Proof modules: `ApprovalStoreProofs`, `ApprovalJanitorProofs`, `ApprovalDeliveryProofs`,
`BatchEvaluationProofs`, `DecisionServiceProofs`, `McpChallengeProofs`, `McpEnforcerProofs`,
`AccessRequestProofs`.

Operators whose comment begins with "Mutant of" are faulty variants of the definition they
name, each breaking one of the properties; no specification uses them.
