# heresy in TLA+

Specifications of the heresy runtime (`src/`): the part of it that decides who
runs when, who owns a pooled object and who answers a request. TLC checks small
instances; TLAPS proves the safety properties of every component, and three
refinements, for any number of requests, pooled objects and calls. The modules
are written from the code; a comment of each names the functions it
models, and `PROJECT.json` maps every definition to its lines.

## The system

One `Runtime` (`runtime.go`) has a fixed number of shards. A shard is an atomic
pointer to a `runtimeInstance`: an event loop, on which one thread runs all
JavaScript of the shard, and a script. `LoadScript` builds an instance per shard,
swaps it in and stops the old one; `Stop` swaps nil in. `Middleware` routes each
HTTP request round-robin to a shard and calls `handleAsExpress` or
`handleAsEvent` in the request's goroutine, which takes an `IOContext` and a
`RequestContext` or `FetchEvent` from pools, posts the handler to the loop and
blocks on a channel. Fetches, body copies and the ends of a request run in
goroutines of their own and talk to the loop by `RunOnLoop`. After the handler
has returned, two goroutines of the `IOContext` wait for extensions
(`waitUntil`) and fetches before everything goes back to its pool.

| Component | State | Operations | What makes it correct |
|---|---|---|---|
| Runtime, shards | `shards`, `nextShard`, loops | `LoadScript`, `Stop`, `shardRun` | a shard never points to a dead loop; every loop is stopped exactly once; round-robin; reloads lose nothing they need not lose |
| runtimeInstance | options, handler, type, `vm` | registration, `loadProgram`, `stop` | a request finds the handler its type promises, and no older options |
| IOContext, pool | `extenderGroup`, `fetchGroup`, limiter, two contexts, cleanups | `Get`, `Put`, `ExtendContext`, `ConcludeExtend`, tokens, `wait`, `release` | released only when unused, exclusive, clean, always comes back |
| FetchEvent, pool | flags, `requestDone`, `responseDone` | `respondWith`, `waitUntil`, `Exception`, four resolvers | one answer, complete before return; every request returns; events are pooled clean |
| Express RequestContext | flags, `responseProxy`, cached request properties, `requestDone` | `status`, `send`, `json`, `end`, `next`, `Exception`, resolver, rejector | the same; no property of another request |
| Fetch extension | pool of fetchers | `doFetch` | its promise settles; it never uses a released context |
| Streams, headers, x.Pool | pools, lazily built references, cleanups | `Get`, `Put`, `WithResponse`, getters, resets | every object in use has one cleanup, is pooled clean, stays with its request |
| Readable stream | a body, views, one pull | `readInto`, `pull`, `cancel` | no byte lost or written elsewhere; the stream ends with the body; reads are answered |
| KV | bindings of a mapper, the store | `get`, `put`, `del`, `WithIOContext`, `Reset` | an operation runs under its own request; settled writes are seen |
| Promise resolver | - | `NewPromiseFuncWithArg` | a synchronous throw is an error, a settled promise calls one callback |

What is hard: the loop, one goroutine per request, up to three more per event
and one per fetch share objects that are recycled; flags are read and written
without locks and only the order of channel operations keeps them apart; loops
can be stopped at any moment; user code decides when promises settle.
`PROJECT.json` lists each hazard at its line with the properties that cover it.

## The modules

| Module | Models | Role |
|---|---|---|
| `Lease` | what an `IOContext` promises | abstract |
| `HttpExchange` | what `net/http` expects of a handler | abstract |
| `IOContext` | `io_context.go`, `io_context_pool.go`, `request_wrapper.go`, `waitUntil` | implements `Lease` |
| `FetchEvent` | `handleAsEvent`, `fetch_event.go`, `fetch_event_pool.go` | composes `Lease`, implements `HttpExchange` |
| `Express` | `handleAsExpress`, `request_context*.go` | composes `Lease`, implements `HttpExchange` |
| `Resources` | `x/pool.go`, `RegisterCleanup`, `release`, what `fetch`, `stream`, `shared` and `fetch_event_request.go` take from pools | composes `Lease` |
| `KV` | `extensions/kv`, the memory store | composes `Lease` |
| `Runtime` | `runtime.go`, dispatch, start and stop of instances | |
| `Registration` | the register functions of `runtime_instance.go` against the loads of `runtime_handler.go` | |
| `ReadableStream` | `readInto`, `stream/wrapper.ts`, what it needs of the polyfill | |
| `IOContext_proofs`, `FetchEvent_proofs`, `Express_proofs`, `Resources_proofs`, `KV_proofs`, `Runtime_proofs`, `Registration_proofs`, `ReadableStream_proofs` | theorems about the module before the underscore | proofs |
| `MC*` | symmetry for TLC | |

`FetchEvent`, `Express`, `Resources` and `KV` use the `IOContext` only through
`Lease` (its actions `Grant`, `Return`, `Reclaim`, and `Hold` and `Drop` for
extensions and fetches), which is why it matters that `IOContext` is shown, and
proved, to implement `Lease`. `Lease` takes late holds (a fetch or a `waitUntil`
after the handler has returned) only under another hold; that is how JavaScript
that awaits what it starts behaves, and each module that uses it says which of
its steps rely on that.

Operators whose comment begins with "Faulty" are not part of any specification.
They are variants of an action with a mistake that could have been made in the
code; replacing the action by its variant must break the property named for it
in `PROJECT.json`.

### IOContext

State: the goroutine of each request (`reqState`), the fields and counters of
each context, where the goroutines of `wait` (`waiter`) and `release`
(`ctxState`) stand, each extension and each fetch with its promise and the
position of its goroutine (`phase`). One action is one step between two points
where another process may interleave: `AcquireFetchToken` is `CallAcquire`
(evaluate `Context()`), `Grant` or `AcquireFails`, and `CountFetch`; the deferred
release is `FetchGroupDone`, then `LimiterRelease`. The loop is one thread:
`JsFree` guards every action that runs on it while an async function given to
`waitUntil` is in its synchronous part.

Abstractions: `ioContext[r]` stands for the `ioContext` of the event and of its
fetcher, which are set and dropped together for one request; a fetcher recycled
to a later request shows as `None`. The semaphore's fast path ignores the
context, so `Grant` does too. `Abandon = FALSE` says that JavaScript awaits what
it starts: neither a handler nor the promise of a `waitUntil` settles while a
fetch it began is pending. With `Abandon = TRUE` it may (`Promise.race`, a
dropped promise), and the process can panic. Only one extension at a time is in
its synchronous part.

### FetchEvent

`req[r]` is a record of the processes of a request: the HTTP goroutine (`http`),
the handler (`js`), the promise helper of `respondWith` (`helper`), the writer
goroutine and the finisher goroutine, all sharing the pooled `evt[e]`; `target`
is the request whose `ResponseWriter` the writer captured. The two channels are
counters of tokens. The client of a request in `Leavers` may go away at any
time. A response may be rejected with undefined, which leaves its helper `lost`.
`ThrowAfterRespond` switches on handlers that throw synchronously after
`respondWith`.

### Express

`req[r]` has the HTTP goroutine and the handler with the settling of its
promise; `lines` counts calls of `WriteHeader`, `status` is the first line.
`ctx[e]` has the flags, and `cached`, the request that the properties in the
cache of `ctx.req` were read from (one for all properties: they are cached and
reset together). `responseProxy` is never dropped by `reset`. `Habits` is what
the handlers of `Careless` requests may do: throw after an answer, call `next`
after an answer, set a status without an answer, never look at `ctx.res`.
`ctx.next` is one step here; `Runtime` looks into it.

### Runtime

Requests, `LoadScript` calls and one `Stop` call interleave at each atomic
operation on a shard. A loop takes the jobs that were posted in batches
(`TakeJobs`) and runs them one by one; told to stop, it finishes the batch it is
in, or takes one last batch; a stopped loop accepts jobs and never runs them.
`stop(interrupt)` is two steps, `Interrupt` (the flag of the VM) and `StopOld`
(`StopNoWait`), between which the loop goes on. The flag is one-shot, as it is in
goja: the job that finds it ends with an error (`Abort`), which clears it, so that
the jobs behind it run on. The call of a handler reports the error to
`Exception`; the error of a continuation (`resumed`) is dropped and with it the
promise reactions of the job: the request is `lost`. So is an event that was
answered before. The next handler of a
request may call the runtime again, with a request of `Chained`: from an Express
handler it does so on the loop (`InvokeNext`), which is then occupied until the
chained request is answered. `Stuck(r)` says that `r` is lost, or in a set of
requests that wait only for a stopped loop, for a job that does not end, for what
was lost, or for each other.

### Registration

`options`, `handler` and `type` hold the number of the call that stored them. A
call of a register function is up to three stores in the order of the code; its
options may be missing or fail to convert, its handler may be no function. A
request loads type, handler and options, each in a step of its own, and remembers
them. The script's calls may come from a timer or a handler, so they interleave
with requests. What kind a handler is, Express or event, plays no part: a script
that registers both kinds can have a handler called as the other kind, because
type and handler are two loads.

### Resources

`obj[o]` says of each pooled object whether it is pooled, in use or not built,
which request it is bound to, and which objects it refers to (a lazily built
fetcher, headers, body). `cleanup[r]` is the list `cleanupFuncs` of the
`IOContext` of r, run by `Release` from the last to the first, one step each,
while other requests take what was put back. A fetch takes its response proxy in
`DoFetch`, before the response is known, and `WithResponse` later adds a stream
and a cleanup that resets the proxy. A pool that holds `Capacity` objects drops
the next one. The bodies of reads are left to `ReadableStream`; here a reader
goroutine is only a process that finds the reader in its wrapper.

### KV

A carrier is a pooled event or RequestContext with its mapper; `bound[c]` is the
request whose `IOContext` its proxies have. `op` is the sequence of all calls;
each is a goroutine with one step on the store and one job that settles it. `value`
names the put whose value was found. An operation that its task does not await
(at most `MaxOdd`, together with those that fail) can find the mapper reset,
which ends the process, or bound to the next request.

### ReadableStream

`readInto` is given the buffer, the offset and the length of the rest of the
view and reads into `buffer[offset:length]`, with the length in the place of an
end (`Cut`). `Read` is the goroutine; a body gives any number of bytes from one
to the size of the cut, none at its end, or an error. `Settle` is the job that
continues `pull`. The byte stream controller of the polyfill is modelled as
far as `pull` depends on it: the queue of pull-into descriptors, elements of one
or two bytes, the byte left over, and the next pull. `plain` remembers whether
every view so far was one for which the cut cannot become empty
(`offset + 2 * (elem - 1) < length`). The condition is exact: the properties fail
with `<=`.

## The runs

| Run | Bounds | What it shows |
|---|---|---|
| `IOContext_safety` | 2 requests, contexts, extensions, fetches; limiter 1 | the inductive invariant, safety of release and reuse |
| `IOContext_live` | 2 requests on 1 context, 1 extension, 2 fetches | wait-group rule (`WaitGroupRule`); liveness (`ContextComesBack`, `FetchSettles`); refinement of `Lease` (`ImplementsLease`) |
| `IOContext_waitgroup` | 1 request, JavaScript that awaits nothing | counterexample to `WaitGroupRule`, see below |
| `FetchEvent_safety` | 2 requests, one whose client may leave, 2 events, 1 extension | clean pool, the loop never blocks, no panic, nobody wakes another request; every request returns (`RequestReturns`); refinement of `HttpExchange` (`ImplementsExchange`) |
| `FetchEvent_throw` | 1 request | counterexample |
| `Express_safety` | 2 requests, one careless, 2 contexts | clean pool, cached properties of the right request, the loop never blocks, no panic; every request returns (`RequestReturns`); the careful one refines `HttpExchange` (`ImplementsExchange`) |
| `Runtime_safety` | 2 shards, 2 loads with interrupt, 1 stop without | shards point to live loops; one owner per loop; never empty between the first load and the stop (`StaysReady`) |
| `Runtime_live` | 3 requests, one of them made by a next handler, one that never ends its job, one that may await, 2 shards, 1 load, 1 stop with interrupt, counter of 4 values | `RoundRobin` over the wrap; answered unless stuck (`AnsweredOrStuck`); the endless job leaves the loop if it runs when `stop` begins (`InterruptFrees`) |
| `Registration_safety` | 3 registrations, 2 requests | type, handler and options fit |
| `Resources_safety` | 2 requests, 2 events, 1 fetcher, response, stream, headers and extension, pools of 1 | one holder, clean pools, own objects while code runs (`OwnObjects`), everything is given back (`GivesBack`) |
| `KV_safety` | 2 requests on 1 carrier, 1 extension, 3 operations, one of them odd | own context, no mapper left bound, no lost update (`ReadsCurrent`) |
| `ReadableStream_safety` | body of 6 bytes, views of offset up to 4 and length up to 6, elements of 1 and 2 bytes, 2 reads at once | where bytes go, how many, when the stream ends (`EndsRight`), every read is answered (`NoStall`) |

Each module has one type invariant, `TypeOK`. The runs check it with the
inductive invariant that the proofs rest on: `IInv` of `IOContext`, and of the
others together with what follows from it, `EventsInv` (clean events),
`ContextsInv` (clean contexts, own properties), `LoopsInv` (one owner of each
loop), `HoldersInv` (one holder of each object) and `BytesInv` (where bytes are
written); `BindingsInv` and `ReadsCurrent` of `KV` are inductive themselves.
Each is a conjunction of named parts that are commented in the module.
`Registration` has its invariant with its proofs.

Why the bounds are enough to be interesting: two requests on one pooled object
exercise reuse, two on two exercise sharing; two fetches on a limiter of one
exercise queueing, cancellation while queueing and a unit held over into the
next request; two extensions exercise a `waitUntil` after the handler has
returned; two `LoadScript` calls over two shards, with `Instances` one per load
and shard, exercise every interleaving of swaps (requests change none of what this
run checks and are left to `Runtime_live`). There, two of three requests share a
shard, so that they are jobs of one batch, one behind the other while an interrupt
hits, or one keeps the loop that the other needs. A circle over two loops takes a
chain of three requests; that chain next to an independent request, a fourth, has
too many states for a run. `CounterSize` stands for 2^32, which 2 shards divide
as they divide 4. Three registrations are needed for a request to see two of them change
between its loads after a first one let it in. In `Resources` a pool of one is
full as soon as both requests put an event back, and a single fetcher, response, stream and
headers object must be handed from one request to the other to be used twice; two
streams, without an extension, give no other result. In `KV` three operations are a put, one that overwrites
it and a get. In `ReadableStream` a body of 6 bytes needs at least two full
views of the smaller lengths and has short reads in each; every offset at which
a view of length up to 6 can be cut to nothing is there. Runs that use `CHECK_DEADLOCK FALSE` stop where the program
hangs; the others end in the explicit self-loop `Terminated` (`Ended` in
`ReadableStream`).

### Fairness

Goroutines and running loops are scheduled (weak fairness per process). In
addition: synchronous JavaScript ends, `net/http` cancels the context of a
request that has returned, and `Client.Do` ends because the client has a
timeout of 10 s. Nothing is assumed about asynchronous user code: whether a
handler or the promise of a `waitUntil` settles is left open, and the liveness
properties start from the moment it has. In `Runtime` the goroutine of a loop is
scheduled (`LoopGoesOn`); the jobs of a request that is not in `Cooperative` need
not end, except the one that finds the flag of an interrupt, and no interrupt ends
the wait of a job for a next handler in Go.
`ReadableStream` assumes that a body answers or fails, which holds for request
and response bodies once their context is done, and that the loop runs the jobs
posted to it. `Resources` assumes no more than that releasing goroutines are
scheduled. `KV` and `Registration` have no liveness properties and no fairness.

## What the counterexamples show

* `IOContext_waitgroup`: `fetchGroup.Add` can start from zero after `Wait`, which
  the comment in `io_context.go:39-46` forbids; the goroutine may then use a nil
  `ioContext`.
* `FetchEvent_throw`: a handler that is not async calls `respondWith` and throws.
  `Exception` ends the request while the response is pending; the event is reset
  and the response resolver finds a nil `ResponseWriter`. goja runs the reactions
  of settled promises before `Exception` sees the error, so the response is still
  pending only if what the helper awaits needs a later job: a script must have
  overridden `text()` of its `Response`. With the `Response` of the polyfill the
  resolver has run by then, and if the writer has set `responseSent`, `Exception`
  returns without waking and the request hangs.

What the models show besides, without a run of their own:

* The first fetch of the README's `waitUntil` example can be bound to the
  request's context and be cut off with it: `CallAcquire` and `BuildRequest`
  of `IOContext` evaluate `Context()` at a moment of their own.
* A response rejected with undefined (`RespondRejected` of `FetchEvent`) never
  signals its end, and the request never returns.
* A handler that never looks at `ctx.res` ends the process if no earlier one on
  its pooled `RequestContext` has. `Exception` answers a request a second time,
  and `res.status(403)` without a body is answered with 200. `ctx.req.res` is
  never built, since `Get` finds the name among the request's properties first.
* An interrupt ends one job. If two jobs of one batch never end, `stop(true)` ends
  the first and its flag is used up: the second keeps the loop, and the instance
  that was swapped out runs for ever, although `runtime.go:76-78` offers interrupt
  for scripts that misbehave. `InterruptFrees` claims no more than the code does;
  `Runtime_live` has states in which such a job runs on after an `Abort`, in a loop
  that was told to stop.
* A reload without interrupt strands queued and awaiting requests (`Stuck`). A
  next handler that calls the runtime again can stop its own loop for good, or two
  loops each other (with `Chained = {r2, r3}` in `Runtime_live.cfg`). Concurrent
  `LoadScript` calls can both succeed and leave different scripts on different shards; with 3 shards the wrap of the counter sends two
  requests in a row to shard 0.
* `fetch` takes `header` from a result that calls it `headers`
  (`fetch/wrapper.ts:46`, `stream/response_proxy.go`), so a fetched `Response` has
  no headers; `Resources` has the proxy for those who read it themselves.
* A KV operation that nobody awaits can end the process or run under the
  `IOContext` of another request.
* A view whose offset reaches its length panics in `readInto`, outside any
  handler's reach; a smaller offset shortens the reads, and when the cut is empty
  the stream is closed as if the body had ended.
* A body is cut or a read panics only for views that user code chooses: the
  default reader's views have offset zero.
* A script that registers handlers of both kinds can have one called as the
  other kind by requests that are between two loads.

## What is proved

The bounds of the runs are gone in the theorems: they hold for any sets of
requests, pooled objects and extensions and any number of calls, under the
assumptions on the constants that the modules state and the hypotheses named
here. Where a property is checked by a run and proved, `PROJECT.json` names both.

| Proofs | Theorems | Hypothesis |
|---|---|---|
| `IOContext_proofs` | `IInv`, `TypeOK`, `NoPanic`, `ExclusiveContext`, `CleanPool`, `SafeRelease`, `LimiterBound`, `ExtendedStaysLive`, `WaitGroupRule`; implements `Lease` | `~Abandon`; extensions and fetches finite, a limiter above zero |
| `FetchEvent_proofs` | `EventsInv`, `LoopNeverBlocks`, `NoForeignWake`, `NoPanic`; implements `HttpExchange` | `~ThrowAfterRespond` |
| `Express_proofs` | `ContextsInv`, `LoopNeverBlocks`, `NoPanic`; implements `HttpExchange` for careful handlers | none |
| `Resources_proofs` | `HoldersInv`, `PooledClean`, `OwnObjects` | objects of different kinds are different |
| `KV_proofs` | `BindingsInv`, `ReadsCurrent` | none |
| `Runtime_proofs` | `LoopsInv`, `InstalledRuns`, `StaysReady`, `RoundRobin` | for `RoundRobin`, `NumShards` divides `CounterSize` |
| `Registration_proofs` | `HandlerStored`, `OptionsStored` | none |
| `ReadableStream_proofs` | `BytesInv`, `NoPanic`, `EndsRight` | none (the last two speak of plain views) |

The two hypotheses on user code are those without which the code goes wrong: the
runs `IOContext_waitgroup` and `FetchEvent_throw` show how.
Each file is laid out alike: lemmas about the data, one lemma per action with
one step per conjunct the action can disturb, the inductive invariant, and then
the theorems.

**IOContext.** None of the safety properties is inductive. `IInv` adds four facts:
the counters equal the number of those they count (`Counters`); a request and its
context point to each other from `Get` to `Cleanup` (`Ownership`); what the
releaser has waited for stays true (`Released`); an extension that runs, and a
fetch whose goroutine or awaiter needs it, still have their context (`Extending`,
`Fetching`). The key argument: a fetch pending in an extension keeps the
extension open, an open extension keeps `extenderGroup` above zero, so `wait`
has not cancelled the extended context, so `release` has not passed its first
line, so the cleanup has not run. The cardinality lemmas at the top turn `Add` and
`Done` into sets growing and shrinking by one. `Refinement` then reads the
abstract lease off the goroutine of the request, and its holds off the open
extensions and the fetches in flight; `Cleanup` is the step that must find no
holds, and a late `ExtendContext` or `DoFetch` the one that must find another.

**FetchEvent.** The flags and channels of an event are a function of where the
processes of its request stand (`OwnEvent`), the processes know of each other
only what they learnt by a channel (`Processes`), and an event that is not in use
is as good as new (`OwnedOrClean`). That is why `reset` need not drain the
channels: a finisher takes the token of the response before it wakes the
request, and the goroutine of the request takes that one before it returns. The
status line is written by whoever answered and by nobody else (`OneLine`).
`LoopNeverBlocks` follows: whoever is about to send has not sent yet, and so the
channel is empty. For `Refinement` a lemma per action says which step of
`HttpExchange` it is, and `ImplementsExchange` is about all requests at once, as
an action of one leaves the others where they are.

**Express.** The same plan with fewer processes. What is particular to it: the
conversions cached for one request are dropped by `reset`, the response proxy is
not (`OwnContext` says it was built unless the handler never looks at it, and no
more), so `NoPanic` names exactly the handler that ends the process. Careless
handlers may write a second status line; `OneLine` is claimed for the others.

**Resources.** That each object in use awaits one cleanup is stated twice, with
numbers (`OneHolder`) and without (`HeldOnce`), and the second is inductive. The
order of the list is what makes the cleanups right: a response proxy is reset by a
cleanup registered behind the one that puts it back, and so run before it
(`ResetBeforePut`); it is put back before the fetcher that took it
(`ProxyBeforeFetcher`); and while a fetch or a reader is under way code of the
request runs, so no cleanup does (`Awaited`, from the holds of `Lease`). So what
`WithResponse` finds is still its own. The capacity plays no part: an
object that finds no room has left its request all the same.

**KV.** A mapper is bound while its carrier serves a request and unbound when it is
free; an awaited operation keeps its task from ending, so it finds its own
request (`BindingsInv`). For `ReadsCurrent` what is stored is no older than any
write that is over, and neither is what a get has found since its call: a get
takes its value when its goroutine reads the store, however late it settles.

**Runtime.** A loop runs as long as a shard or a call of `LoadScript` or `Stop`
holds it (`HeldRuns`), no two of them hold the same one (`HeldApart`), and both are
kept because `Swap` hands the old instance to the caller in one step. `OneOwner`
is their form with a cardinality. An interrupt is only sent to what was swapped
out (`InterruptedOut`), and requests do no more to an instance than run its jobs,
use up its interrupt and end a loop that was told to stop (`Runs`). `StaysReady` needs that a `LoadScript` has left an
instance on every shard it has passed, whatever other calls do (`PassedReady`).
`RoundRobinHolds` relates the hits of each shard to the counter: those up to its
residue are one request ahead of the others. It needs that the number of shards divides the width of
the counter, as it does when it is a power of two: otherwise the wrap sends two
requests in a row to shard 0.

**Registration.** What a request has loaded says nothing of what is stored later,
so `RInv` adds that the cells are filled in the order of the calls, the type never
ahead of the handler and the options never behind those any handler found in
force (`CellsInv`), and that what a request has loaded is no newer than what is
stored (`RequestsInv`).

**ReadableStream.** Only the first pending view has begun to be filled
(`FirstFilled`), so that the bytes held back are those of one view or the queue
(`BytesAccounted`) and no sum over the pending views is needed. A pull is under
way for the first view, in the cut made for it, exactly when a read is pending
(`PullsFirst`), which places its bytes (`WritesInView`). For plain views the cut is
never empty, so `Read` gives nothing only at the end of the body (`EmptyAtEnd`),
and the stream ends with it (`EndsRight`).

Only model-checked, because the prover has no `ENABLED` and so no rule for
fairness: `ContextComesBack`, `FetchSettles`, both `RequestReturns`,
`AnsweredOrStuck`, `InterruptFrees`, `GivesBack` and `NoStall`. The three
counterexamples are TLC's too. Nothing is claimed of an `IOContext` under
JavaScript that does not await what it starts, or of a `FetchEvent` whose handler
throws after `respondWith`, but what their counterexamples show.

## Not modelled

Header and body contents, the conversions of the request proxies' getters,
byte buffers (`shared.GetBuffer`, `go-buffer-pool`), `KVManager.Configure` with
its registry, console, polyfills and the example program. These are sequential
data conversions or configuration that happens before anything runs
concurrently. `stream.Reset` drains a body when it is given back; that the drain
ends is what `net/http` promises for a context that is done. The panic of a
negative index on 32-bit platforms (`runtime.go:127`) is outside the model, whose
integers are unbounded below the named counter width. Event loops, semaphores,
wait groups, channels, goja's interrupt and `net/http` are modelled from how the
code uses them; of the web-streams polyfill, which the repository vendors in
minified form, `ReadableStream` has the queues of the byte stream controller.

## Plan

Done, in this order: `Lease`, `IOContext` with its proofs, `HttpExchange`,
`FetchEvent`, `Runtime`, `Express`, `Registration` with its proofs, `KV`,
`Resources`, `ReadableStream`; then the proofs
of `FetchEvent`, `Express`, `KV`, `Runtime`, `Resources` and `ReadableStream`.

Left:

1. What `IOContext` promises without `~Abandon`: `ExclusiveContext` and
   `LimiterBound`. They need an invariant of their own, since `Extending` and
   `Fetching` fail there.
2. `FetchEvent` with `ThrowAfterRespond`: that only a response that is pending
   when the handler throws ends the process.
