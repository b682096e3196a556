----------------------------- MODULE IOContext -----------------------------
(***************************************************************************)
(* The lifetime of an IOContext (extensions/common/io_context.go and       *)
(* io_context_pool.go) together with everything that keeps one alive: the  *)
(* HTTP handler that got it, the extensions JavaScript registers with      *)
(* waitUntil, and the fetches of extensions/fetch/request_wrapper.go.      *)
(*                                                                         *)
(* Four kinds of process interleave: one goroutine per HTTP request        *)
(* (handleAsEvent), the single event loop thread that runs all JavaScript, *)
(* one goroutine per fetch, and the two goroutines that Put starts, here   *)
(* the waiter (wait) and the releaser (release).                           *)
(***************************************************************************)
EXTENDS Naturals, FiniteSets

CONSTANTS
    Requests,   \* HTTP requests, each served once
    Contexts,   \* the IOContexts that can exist, pooled or not yet built
    Extensions, \* promises passed to evt.waitUntil
    Fetches,    \* calls of evt.fetch
    None,       \* nil
    Concurrent, \* weight of a context's fetch limiter
    Abandon     \* may JavaScript finish while a fetch it began is pending?

ASSUME ConcurrentAssumption == Concurrent \in Nat \ {0}
ASSUME AbandonAssumption == Abandon \in BOOLEAN
ASSUME FiniteAssumption ==
    IsFiniteSet(Extensions) /\ IsFiniteSet(Fetches)
ASSUME NoneAssumption == None \notin Requests \cup Contexts \cup Extensions
ASSUME DisjointAssumption == Extensions \cap Fetches = {}

VARIABLES
    \* the HTTP goroutine of each request
    reqState,     \* "new", "running" inside handleAsEvent, "returned"
    reqDone,      \* is r.Context() done?
    ioContext,    \* evt.ioContext and the fetcher's ioContext
    \* the fields of each context
    ctxState,     \* in the pool, leased, or where the releaser stands
    waiter,       \* where the goroutine running wait() stands
    reqCtx,       \* the request whose context reqCtx is
    extCtx,       \* extendedCtx: "nil", "live" or "cancelled"
    shouldExtend, \* the atomic flag
    extenders,    \* counter of extenderGroup
    fetchGroup,   \* counter of fetchGroup
    limiter,      \* weight held in the semaphore
    \* JavaScript
    extState,     \* the async function behind each waitUntil
    extReq,       \* the request it belongs to
    promise,      \* the promise doFetch returned
    opReq,        \* the request a fetch belongs to
    opTask,       \* the extension that awaits it, None for the handler
    \* the goroutine of each fetch
    phase,        \* where it stands
    token,        \* the context whose AcquireFetchToken it called
    bound         \* the context.Context it waits or runs under

httpVars == <<reqState, reqDone, ioContext>>
poolVars == <<ctxState, waiter>>
fieldVars == <<reqCtx, extCtx, shouldExtend>>
countVars == <<extenders, fetchGroup, limiter>>
extVars == <<extState, extReq>>
opVars == <<promise, opReq, opTask>>
goVars == <<phase, token, bound>>
vars == <<httpVars, poolVars, fieldVars, countVars, extVars, opVars, goVars>>

CtxState == {"fresh", "pooled", "leased", "ctxWait", "fetchWait", "cleanup",
             "recycle"}
WaiterState == {"idle", "started", "extWait", "reqWait"}
ExtState == {"none", "iife", "open", "done"}
PromiseState == {"none", "pending", "resolving", "rejecting", "settled"}
Phase == {"none", "spawned", "acquiring", "granted", "counted", "doing",
          "posted", "uncounted", "ended", "panicked"}

\* Types of every variable.
TypeOK ==
    /\ reqState \in [Requests -> {"new", "running", "returned"}]
    /\ reqDone \in [Requests -> BOOLEAN]
    /\ ioContext \in [Requests -> Contexts \cup {None}]
    /\ ctxState \in [Contexts -> CtxState]
    /\ waiter \in [Contexts -> WaiterState]
    /\ reqCtx \in [Contexts -> Requests \cup {None}]
    /\ extCtx \in [Contexts -> {"nil", "live", "cancelled"}]
    /\ shouldExtend \in [Contexts -> BOOLEAN]
    /\ extenders \in [Contexts -> Nat]
    /\ fetchGroup \in [Contexts -> Nat]
    /\ limiter \in [Contexts -> Nat]
    /\ extState \in [Extensions -> ExtState]
    /\ extReq \in [Extensions -> Requests \cup {None}]
    /\ promise \in [Fetches -> PromiseState]
    /\ opReq \in [Fetches -> Requests \cup {None}]
    /\ opTask \in [Fetches -> Extensions \cup {None}]
    /\ phase \in [Fetches -> Phase]
    /\ token \in [Fetches -> Contexts \cup {None}]
    /\ bound \in [Fetches -> {"none", "req", "ext"}]

Init ==
    /\ reqState = [r \in Requests |-> "new"]
    /\ reqDone = [r \in Requests |-> FALSE]
    /\ ioContext = [r \in Requests |-> None]
    /\ ctxState = [c \in Contexts |-> "fresh"]
    /\ waiter = [c \in Contexts |-> "idle"]
    /\ reqCtx = [c \in Contexts |-> None]
    /\ extCtx = [c \in Contexts |-> "nil"]
    /\ shouldExtend = [c \in Contexts |-> FALSE]
    /\ extenders = [c \in Contexts |-> 0]
    /\ fetchGroup = [c \in Contexts |-> 0]
    /\ limiter = [c \in Contexts |-> 0]
    /\ extState = [x \in Extensions |-> "none"]
    /\ extReq = [x \in Extensions |-> None]
    /\ promise = [f \in Fetches |-> "none"]
    /\ opReq = [f \in Fetches |-> None]
    /\ opTask = [f \in Fetches |-> None]
    /\ phase = [f \in Fetches |-> "none"]
    /\ token = [f \in Fetches |-> None]
    /\ bound = [f \in Fetches |-> "none"]

-----------------------------------------------------------------------------
(* Helpers. *)

\* The extensions of r whose promise has been handed to waitUntil and has not
\* settled: each of them holds one unit of extenderGroup.
OpenExt(r) == {x \in Extensions : extState[x] = "open" /\ extReq[x] = r}

\* The event loop is not inside the synchronous part of an async function.
JsFree == \A x \in Extensions : extState[x] # "iife"

\* The fetches the code of task t (None: the handler) of r has not seen settle.
Awaited(r, t) ==
    {f \in Fetches : /\ opReq[f] = r
                     /\ opTask[f] = t
                     /\ promise[f] \in {"pending", "resolving", "rejecting"}}

\* Task t of request r may run JavaScript now.
MayRun(r, t) ==
    IF t = None
    THEN reqState[r] = "running" /\ JsFree
    ELSE /\ extReq[t] = r
         /\ \/ extState[t] = "iife"
            \/ extState[t] = "open" /\ JsFree

\* t.Context(): the extended context once waitUntil was called, else the
\* context of the HTTP request.
Context(c) == IF shouldExtend[c] THEN "ext" ELSE "req"

\* The context.Context k of IOContext c is done.
Done(c, k) ==
    IF k = "ext" THEN extCtx[c] = "cancelled"
                 ELSE reqCtx[c] # None /\ reqDone[reqCtx[c]]

-----------------------------------------------------------------------------
(* The HTTP goroutine: handleAsEvent and net/http. *)

\* IOContextPool.Get: the context comes out of the pool, or out of the factory
\* when the pool is empty.
Get(r, c) ==
    /\ reqState[r] = "new"
    /\ \/ ctxState[c] = "pooled"
       \/ /\ ctxState[c] = "fresh"
          /\ \A d \in Contexts : ctxState[d] # "pooled"
    /\ reqState' = [reqState EXCEPT ![r] = "running"]
    /\ ioContext' = [ioContext EXCEPT ![r] = c]
    /\ ctxState' = [ctxState EXCEPT ![c] = "leased"]
    /\ extCtx' = [extCtx EXCEPT ![c] = "live"]
    /\ reqCtx' = [reqCtx EXCEPT ![c] = r]
    /\ shouldExtend' = [shouldExtend EXCEPT ![c] = FALSE]
    /\ UNCHANGED <<reqDone, waiter, countVars, extVars, opVars, goVars>>

\* The handler's promise has settled, evt.Wait returns and the deferred Put
\* starts the two goroutines.  Unless Abandon, the handler awaited its fetches.
Put(r) ==
    LET c == ioContext[r]
    IN  /\ reqState[r] = "running"
        /\ JsFree
        /\ Abandon \/ Awaited(r, None) = {}
        /\ reqState' = [reqState EXCEPT ![r] = "returned"]
        /\ ctxState' = [ctxState EXCEPT ![c] = "ctxWait"]
        /\ waiter' = [waiter EXCEPT ![c] = "started"]
        /\ UNCHANGED <<reqDone, ioContext, fieldVars, countVars, extVars,
                       opVars, goVars>>

\* net/http cancels r.Context() when the client goes away, and in any case
\* after ServeHTTP has returned.
EndRequest(r) ==
    /\ reqState[r] # "new"
    /\ ~reqDone[r]
    /\ reqDone' = [reqDone EXCEPT ![r] = TRUE]
    /\ UNCHANGED <<reqState, ioContext, poolVars, fieldVars, countVars,
                   extVars, opVars, goVars>>

-----------------------------------------------------------------------------
(* JavaScript, on the event loop. *)

\* evt.waitUntil((async () => { ... })()): JavaScript evaluates the argument
\* first, so the async function runs up to its first await before waitUntil.
EnterExtension(x, r) ==
    /\ extState[x] = "none"
    /\ JsFree
    /\ reqState[r] = "running" \/ OpenExt(r) # {}
    /\ extState' = [extState EXCEPT ![x] = "iife"]
    /\ extReq' = [extReq EXCEPT ![x] = r]
    /\ UNCHANGED <<httpVars, poolVars, fieldVars, countVars, opVars, goVars>>

\* waitUntil: ExtendContext, then the resolver that will conclude it.
ExtendContext(x) ==
    LET c == ioContext[extReq[x]]
    IN  /\ extState[x] = "iife"
        /\ extState' = [extState EXCEPT ![x] = "open"]
        /\ shouldExtend' = [shouldExtend EXCEPT ![c] = TRUE]
        /\ extenders' = [extenders EXCEPT ![c] = @ + 1]
        /\ UNCHANGED <<httpVars, poolVars, reqCtx, extCtx, fetchGroup,
                       limiter, extReq, opVars, goVars>>

\* Faulty: waitUntil registers nativeConclude for the fulfilled promise only.
ConcludeFulfilledOnly(x) ==
    LET c == ioContext[extReq[x]]
    IN  /\ extState[x] = "open"
        /\ JsFree
        /\ Abandon \/ Awaited(extReq[x], x) = {}
        /\ extState' = [extState EXCEPT ![x] = "done"]
        /\ \E n \in {0, 1} : extenders' = [extenders EXCEPT ![c] = @ - n]
        /\ UNCHANGED <<httpVars, poolVars, fieldVars, fetchGroup, limiter,
                       extReq, opVars, goVars>>

\* The promise of x settles: nativeConclude calls ConcludeExtend.
ConcludeExtend(x) ==
    LET c == ioContext[extReq[x]]
    IN  /\ extState[x] = "open"
        /\ JsFree
        /\ Abandon \/ Awaited(extReq[x], x) = {}
        /\ extState' = [extState EXCEPT ![x] = "done"]
        /\ extenders' = [extenders EXCEPT ![c] = @ - 1]
        /\ UNCHANGED <<httpVars, poolVars, fieldVars, fetchGroup, limiter,
                       extReq, opVars, goVars>>

\* doFetch: a promise for JavaScript, a goroutine for the request.  A body that is
\* neither a string nor a stream of the runtime is rejected without one.
DoFetch(f, r, t) ==
    /\ phase[f] = "none"
    /\ MayRun(r, t)
    /\ \/ /\ phase' = [phase EXCEPT ![f] = "spawned"]
          /\ promise' = [promise EXCEPT ![f] = "pending"]
       \/ /\ phase' = [phase EXCEPT ![f] = "ended"]
          /\ promise' = [promise EXCEPT ![f] = "rejecting"]
    /\ opReq' = [opReq EXCEPT ![f] = r]
    /\ opTask' = [opTask EXCEPT ![f] = t]
    /\ UNCHANGED <<httpVars, poolVars, fieldVars, countVars, extVars, token,
                   bound>>

\* The job that doFetch's goroutine queued with RunOnLoop runs: reject, or
\* WithResponse on the context and resolve.
Settle(f) ==
    /\ JsFree
    /\ \/ promise[f] = "rejecting"
       \/ promise[f] = "resolving" /\ ioContext[opReq[f]] # None
    /\ promise' = [promise EXCEPT ![f] = "settled"]
    /\ UNCHANGED <<httpVars, poolVars, fieldVars, countVars, extVars, opReq,
                   opTask, goVars>>

-----------------------------------------------------------------------------
(* The goroutine of fetch f.  It reads f.ioContext anew at each step. *)

\* AcquireFetchToken evaluates t.Context() and waits on the limiter under it.
CallAcquire(f) ==
    LET c == ioContext[opReq[f]]
    IN  /\ phase[f] = "spawned"
        /\ c # None
        /\ phase' = [phase EXCEPT ![f] = "acquiring"]
        /\ token' = [token EXCEPT ![f] = c]
        /\ bound' = [bound EXCEPT ![f] = Context(c)]
        /\ UNCHANGED <<httpVars, poolVars, fieldVars, countVars, extVars,
                       opVars>>

\* The semaphore has room: it does not look at the context.
Grant(f) ==
    /\ phase[f] = "acquiring"
    /\ limiter[token[f]] < Concurrent
    /\ phase' = [phase EXCEPT ![f] = "granted"]
    /\ limiter' = [limiter EXCEPT ![token[f]] = @ + 1]
    /\ UNCHANGED <<httpVars, poolVars, fieldVars, extenders, fetchGroup,
                   extVars, opVars, token, bound>>

\* Faulty: the goroutine returns on the error without rejecting the promise.
AcquireFailsSilently(f) ==
    /\ phase[f] = "acquiring"
    /\ limiter[token[f]] >= Concurrent
    /\ Done(token[f], bound[f])
    /\ phase' = [phase EXCEPT ![f] = "ended"]
    /\ UNCHANGED <<httpVars, poolVars, fieldVars, countVars, extVars, opVars,
                   token, bound>>

\* The context ends while the fetch queues: the error is posted to the loop
\* and the goroutine ends without a token.
AcquireFails(f) ==
    /\ phase[f] = "acquiring"
    /\ limiter[token[f]] >= Concurrent
    /\ Done(token[f], bound[f])
    /\ phase' = [phase EXCEPT ![f] = "ended"]
    /\ promise' = [promise EXCEPT ![f] = "rejecting"]
    /\ UNCHANGED <<httpVars, poolVars, fieldVars, countVars, extVars, opReq,
                   opTask, token, bound>>

\* t.fetchGroup.Add(1), the last step of AcquireFetchToken.
CountFetch(f) ==
    /\ phase[f] = "granted"
    /\ phase' = [phase EXCEPT ![f] = "counted"]
    /\ fetchGroup' = [fetchGroup EXCEPT ![token[f]] = @ + 1]
    /\ UNCHANGED <<httpVars, poolVars, fieldVars, extenders, limiter, extVars,
                   opVars, token, bound>>

\* http.NewRequestWithContext(f.ioContext.Context(), ...).
BuildRequest(f) ==
    LET c == ioContext[opReq[f]]
    IN  /\ phase[f] = "counted"
        /\ c # None
        /\ phase' = [phase EXCEPT ![f] = "doing"]
        /\ bound' = [bound EXCEPT ![f] = Context(c)]
        /\ UNCHANGED <<httpVars, poolVars, fieldVars, countVars, extVars,
                       opVars, token>>

\* The request cannot be built, or Client.Do returns an error or a response:
\* the outcome is posted to the loop.
Post(f) ==
    /\ \/ /\ phase[f] = "counted"
          /\ ioContext[opReq[f]] # None
          /\ promise' = [promise EXCEPT ![f] = "rejecting"]
       \/ /\ phase[f] = "doing"
          /\ \E p \in {"resolving", "rejecting"} :
                promise' = [promise EXCEPT ![f] = p]
    /\ phase' = [phase EXCEPT ![f] = "posted"]
    /\ UNCHANGED <<httpVars, poolVars, fieldVars, countVars, extVars, opReq,
                   opTask, token, bound>>

\* Faulty: the limiter is released with the fetchGroup as well.
FetchGroupDoneReleasing(f) ==
    /\ phase[f] = "posted"
    /\ phase' = [phase EXCEPT ![f] = "uncounted"]
    /\ fetchGroup' = [fetchGroup EXCEPT ![token[f]] = @ - 1]
    /\ limiter' = [limiter EXCEPT ![token[f]] = @ - 1]
    /\ UNCHANGED <<httpVars, poolVars, fieldVars, extenders, extVars, opVars,
                   token, bound>>

\* The deferred ReleaseFetchToken: fetchGroup.Done ...
FetchGroupDone(f) ==
    /\ phase[f] = "posted"
    /\ phase' = [phase EXCEPT ![f] = "uncounted"]
    /\ fetchGroup' = [fetchGroup EXCEPT ![token[f]] = @ - 1]
    /\ UNCHANGED <<httpVars, poolVars, fieldVars, extenders, limiter, extVars,
                   opVars, token, bound>>

\* ... then limiter.Release.
LimiterRelease(f) ==
    /\ phase[f] = "uncounted"
    /\ phase' = [phase EXCEPT ![f] = "ended"]
    /\ limiter' = [limiter EXCEPT ![token[f]] = @ - 1]
    /\ UNCHANGED <<httpVars, poolVars, fieldVars, extenders, fetchGroup,
                   extVars, opVars, token, bound>>

\* f.ioContext is nil where the goroutine or its job on the loop uses it: the
\* nil dereference ends the process.
Panic(f) ==
    /\ \/ phase[f] \in {"spawned", "counted"}
       \/ promise[f] = "resolving" /\ JsFree
    /\ ioContext[opReq[f]] = None
    /\ phase' = [phase EXCEPT ![f] = "panicked"]
    /\ UNCHANGED <<httpVars, poolVars, fieldVars, countVars, extVars, opVars,
                   token, bound>>

-----------------------------------------------------------------------------
(* The two goroutines of Put. *)

\* Faulty: wait() always waits for the HTTP request.
WaitForRequest(c) ==
    /\ waiter[c] = "started"
    /\ waiter' = [waiter EXCEPT ![c] = "reqWait"]
    /\ UNCHANGED <<httpVars, ctxState, fieldVars, countVars, extVars, opVars,
                   goVars>>

\* wait() reads shouldExtend and chooses what to wait for.
WaitStart(c) ==
    /\ waiter[c] = "started"
    /\ waiter' = [waiter EXCEPT ![c] =
                     IF shouldExtend[c] THEN "extWait" ELSE "reqWait"]
    /\ UNCHANGED <<httpVars, ctxState, fieldVars, countVars, extVars, opVars,
                   goVars>>

\* extenderGroup.Wait or <-reqCtx.Done() returns: extendedCtxCancel().
WaitEnd(c) ==
    /\ \/ waiter[c] = "extWait" /\ extenders[c] = 0
       \/ waiter[c] = "reqWait" /\ Done(c, "req")
    /\ waiter' = [waiter EXCEPT ![c] = "idle"]
    /\ extCtx' = [extCtx EXCEPT ![c] = "cancelled"]
    /\ UNCHANGED <<httpVars, ctxState, reqCtx, shouldExtend, countVars,
                   extVars, opVars, goVars>>

\* Faulty: release() does not wait for the extended context.
ReleaseAtOnce(c) ==
    /\ ctxState[c] = "ctxWait"
    /\ ctxState' = [ctxState EXCEPT ![c] = "fetchWait"]
    /\ UNCHANGED <<httpVars, waiter, fieldVars, countVars, extVars, opVars,
                   goVars>>

\* release(): <-extendedCtx.Done() returns.
ReleaseCtxDone(c) ==
    /\ ctxState[c] = "ctxWait"
    /\ Done(c, "ext")
    /\ ctxState' = [ctxState EXCEPT ![c] = "fetchWait"]
    /\ UNCHANGED <<httpVars, waiter, fieldVars, countVars, extVars, opVars,
                   goVars>>

\* Faulty: release() does not wait for the fetches.
ReleaseUnderFetch(c) ==
    /\ ctxState[c] = "fetchWait"
    /\ ctxState' = [ctxState EXCEPT ![c] = "cleanup"]
    /\ UNCHANGED <<httpVars, waiter, fieldVars, countVars, extVars, opVars,
                   goVars>>

\* release(): fetchGroup.Wait returns.
ReleaseFetchDone(c) ==
    /\ ctxState[c] = "fetchWait"
    /\ fetchGroup[c] = 0
    /\ ctxState' = [ctxState EXCEPT ![c] = "cleanup"]
    /\ UNCHANGED <<httpVars, waiter, fieldVars, countVars, extVars, opVars,
                   goVars>>

\* Faulty: the event keeps its ioContext when it is cleaned up.
CleanupKeepingContext(c) ==
    /\ ctxState[c] = "cleanup"
    /\ ctxState' = [ctxState EXCEPT ![c] = "recycle"]
    /\ UNCHANGED <<httpVars, waiter, fieldVars, countVars, extVars, opVars,
                   goVars>>

\* release(): the cleanup functions run; the event and the fetcher drop their
\* ioContext on the way back to their pools.
Cleanup(c) ==
    /\ ctxState[c] = "cleanup"
    /\ ctxState' = [ctxState EXCEPT ![c] = "recycle"]
    /\ ioContext' = [ioContext EXCEPT ![reqCtx[c]] = None]
    /\ UNCHANGED <<reqState, reqDone, waiter, fieldVars, countVars, extVars,
                   opVars, goVars>>

\* The fields are cleared and the context goes back to the pool.
Recycle(c) ==
    /\ ctxState[c] = "recycle"
    /\ ctxState' = [ctxState EXCEPT ![c] = "pooled"]
    /\ reqCtx' = [reqCtx EXCEPT ![c] = None]
    /\ extCtx' = [extCtx EXCEPT ![c] = "nil"]
    /\ UNCHANGED <<httpVars, waiter, shouldExtend, countVars, extVars, opVars,
                   goVars>>

-----------------------------------------------------------------------------
\* A fetch used a nil ioContext somewhere: the process is gone.
Panicked == \E f \in Fetches : phase[f] = "panicked"

HttpStep(r) ==
    \/ \E c \in Contexts : Get(r, c)
    \/ Put(r)
    \/ EndRequest(r)

JsStep ==
    \/ \E x \in Extensions :
          \/ \E r \in Requests : EnterExtension(x, r)
          \/ ExtendContext(x)
          \/ ConcludeExtend(x)
    \/ \E f \in Fetches :
          \/ \E r \in Requests, t \in Extensions \cup {None} : DoFetch(f, r, t)
          \/ Settle(f)

FetchStep(f) ==
    \/ CallAcquire(f)
    \/ Grant(f)
    \/ AcquireFails(f)
    \/ CountFetch(f)
    \/ BuildRequest(f)
    \/ Post(f)
    \/ FetchGroupDone(f)
    \/ LimiterRelease(f)

WaiterStep(c) ==
    \/ WaitStart(c)
    \/ WaitEnd(c)

ReleaserStep(c) ==
    \/ ReleaseCtxDone(c)
    \/ ReleaseFetchDone(c)
    \/ Cleanup(c)
    \/ Recycle(c)

Step ==
    \/ \E r \in Requests : HttpStep(r)
    \/ JsStep
    \/ \E f \in Fetches : FetchStep(f) \/ Panic(f)
    \/ \E c \in Contexts : WaiterStep(c) \/ ReleaserStep(c)

\* Nothing is left to do: every request is over and every context is back.
Terminated ==
    \/ Panicked
    \/ /\ \A r \in Requests : reqState[r] = "returned" /\ reqDone[r]
       /\ \A c \in Contexts : ctxState[c] \in {"fresh", "pooled"}

Next ==
    \/ ~Panicked /\ Step
    \/ Terminated /\ UNCHANGED vars

\* The goroutines and the loop are scheduled, net/http cancels the context of
\* a request that has returned, synchronous JavaScript ends, and Client.Do
\* returns (it has a 10 s timeout).  When a handler or the promise of a
\* waitUntil settles is up to the user's code: no fairness is assumed for it.
Fairness ==
    /\ \A r \in Requests : WF_vars(reqState[r] = "returned" /\ EndRequest(r))
    /\ \A x \in Extensions : WF_vars(ExtendContext(x))
    /\ \A f \in Fetches : WF_vars(FetchStep(f)) /\ WF_vars(Settle(f))
    /\ \A c \in Contexts : WF_vars(WaiterStep(c)) /\ WF_vars(ReleaserStep(c))

Spec == Init /\ [][Next]_vars /\ Fairness

-----------------------------------------------------------------------------
(* Properties. *)

\* Fetch f is counted in the fetchGroup, or holds the limiter, of its context.
Counted == {"counted", "doing", "posted"}
Holding == Counted \cup {"granted", "uncounted"}

Pending == {"pending", "resolving", "rejecting"}

\* The fetches of r that still use, or whose job will use, r's resources.
InFlight(r) ==
    {f \in Fetches : /\ opReq[f] = r
                     /\ promise[f] \in Pending \/ phase[f] \in Counted}

\* No goroutine and no job on the loop ever finds its ioContext gone, as long
\* as JavaScript awaits what it starts: release waits long enough.
NoPanic == ~Panicked

\* A context serves one request at a time, and no request still points to a
\* context that has been handed back or to one that serves somebody else.
ExclusiveContext ==
    \A r \in Requests :
        LET c == ioContext[r]
        IN  c # None => /\ reqCtx[c] = r
                        /\ ctxState[c] \notin {"fresh", "recycle", "pooled"}
                        /\ \A q \in Requests \ {r} : ioContext[q] # c

\* A context in the pool carries nothing over to its next request: both wait
\* groups are at zero, wait() has ended, nothing of it can be cancelled.
CleanPool ==
    \A c \in Contexts :
        ctxState[c] = "pooled" =>
            /\ extenders[c] = 0
            /\ fetchGroup[c] = 0
            /\ waiter[c] = "idle"
            /\ extCtx[c] = "nil"

\* When the cleanup functions run, no extension, no fetch and no JavaScript of
\* the request is left that could use what they take away.
SafeRelease ==
    \A c \in Contexts :
        ctxState[c] = "cleanup" =>
            LET r == reqCtx[c]
            IN  /\ reqState[r] = "returned"
                /\ InFlight(r) = {}
                /\ \A x \in Extensions :
                      extReq[x] = r => extState[x] = "done"

\* The limiter travels with the context from request to request, and a fetch
\* of the previous request may still hold it (LimiterRelease comes after
\* fetchGroup.Done): even so at most Concurrent fetches hold it.
LimiterBound ==
    \A c \in Contexts :
        Cardinality({f \in Fetches : token[f] = c /\ phase[f] \in Holding})
            <= Concurrent

\* The extended context is not cancelled before every extension has ended,
\* whatever the client and the HTTP handler did in the meantime.
ExtendedStaysLive ==
    \A x \in Extensions :
        extState[x] = "open" =>
            LET c == ioContext[extReq[x]]
            IN  c # None /\ extCtx[c] = "live"

\* The rule of sync.WaitGroup that ExtendContext's comment quotes, for both
\* groups: a positive delta from zero happens before the Wait.
WaitGroupRule ==
    [][\A c \in Contexts :
          /\ extenders[c] = 0 /\ extenders'[c] > 0 => ctxState[c] = "leased"
          /\ fetchGroup[c] = 0 /\ fetchGroup'[c] > 0 =>
                ctxState[c] \in {"leased", "ctxWait"}]_vars

\* Once a handler has returned and its extensions have ended, its context is
\* on its way to the pool and gets there.
ContextComesBack ==
    \A c \in Contexts :
        (ctxState[c] = "ctxWait" /\ OpenExt(reqCtx[c]) = {})
            ~> (ctxState[c] = "pooled")

\* No fetch is starved by the limiter or lost between its goroutine and the
\* loop: its promise settles.
FetchSettles ==
    \A f \in Fetches : promise[f] = "pending" ~> promise[f] = "settled"

-----------------------------------------------------------------------------
(* IOContext implements Lease: a request's holds are its open extensions and *)
(* its fetches in flight.                                                    *)

lease ==
    [r \in Requests |->
        CASE reqState[r] = "new" -> "none"
          [] reqState[r] = "running" -> "held"
          [] reqState[r] = "returned" ->
                IF ioContext[r] # None THEN "returned" ELSE "reclaimed"]

holds == [r \in Requests |-> OpenExt(r) \cup InFlight(r)]

L == INSTANCE Lease WITH Holds <- Extensions \cup Fetches

ImplementsLease == L!Spec

-----------------------------------------------------------------------------
(* The inductive invariant, for JavaScript that awaits what it starts.       *)

Active == {"leased", "ctxWait", "fetchWait", "cleanup"}

OpenOn(c) ==
    {x \in Extensions : extState[x] = "open" /\ ioContext[extReq[x]] = c}
CountedOn(c) == {f \in Fetches : token[f] = c /\ phase[f] \in Counted}
HoldingOn(c) == {f \in Fetches : token[f] = c /\ phase[f] \in Holding}

\* The three counters count what they are meant to count.
Counters ==
    \A c \in Contexts :
        /\ extenders[c] = Cardinality(OpenOn(c))
        /\ fetchGroup[c] = Cardinality(CountedOn(c))
        /\ limiter[c] = Cardinality(HoldingOn(c))
        /\ limiter[c] <= Concurrent

\* A request and its context point to each other from Get to Cleanup.
Ownership ==
    /\ \A r \in Requests :
          LET c == ioContext[r]
          IN  /\ reqState[r] = "new" => c = None
              /\ reqState[r] = "running" =>
                    c # None /\ ctxState[c] = "leased"
              /\ c # None => reqCtx[c] = r /\ ctxState[c] \in Active
    /\ \A c \in Contexts :
          LET r == reqCtx[c]
          IN  ctxState[c] \in Active =>
                  /\ r # None
                  /\ ioContext[r] = c
                  /\ reqState[r] =
                        IF ctxState[c] = "leased" THEN "running" ELSE "returned"

\* What the releaser has waited for so far still holds.
Released ==
    \A c \in Contexts :
        /\ ctxState[c] = "leased" => extCtx[c] = "live"
        /\ ctxState[c] = "ctxWait" /\ waiter[c] = "idle" =>
              extCtx[c] = "cancelled"
        /\ ctxState[c] \in {"fetchWait", "cleanup", "recycle"} =>
              extCtx[c] = "cancelled"
        /\ ctxState[c] \in {"fresh", "pooled"} => extCtx[c] = "nil"
        /\ waiter[c] # "idle" => ctxState[c] = "ctxWait" /\ extCtx[c] = "live"
        /\ waiter[c] = "reqWait" => ~shouldExtend[c]
        /\ ctxState[c] \in {"fresh", "cleanup", "recycle", "pooled"} =>
              CountedOn(c) = {}

\* An extension that runs has a context, live and extended once it is open.
Extending ==
    \A x \in Extensions :
        LET r == extReq[x]
            c == ioContext[r]
        IN  /\ r # None <=> extState[x] # "none"
            /\ extState[x] \in {"iife", "open"} => c # None
            /\ extState[x] = "open" => extCtx[c] = "live" /\ shouldExtend[c]
            /\ extState[x] = "iife" =>
                  reqState[r] = "running" \/ OpenExt(r) # {}

\* A fetch has a context while its goroutine or its awaiter needs one.
Fetching ==
    \A f \in Fetches :
        LET r == opReq[f]
            t == opTask[f]
        IN  /\ r = None <=> phase[f] = "none"
            /\ phase[f] = "none" => promise[f] = "none"
            /\ phase[f] \in {"spawned", "acquiring", "granted", "counted",
                             "doing"} => promise[f] = "pending"
            /\ phase[f] \in {"acquiring", "granted"} \cup Counted =>
                  token[f] # None /\ token[f] = ioContext[r]
            /\ phase[f] \in Holding => token[f] # None
            /\ promise[f] \in Pending /\ t = None => reqState[r] = "running"
            /\ promise[f] \in Pending /\ t # None =>
                  extState[t] \in {"iife", "open"} /\ extReq[t] = r

IInv ==
    TypeOK /\ Counters /\ Ownership /\ Released /\ Extending /\ Fetching
    /\ NoPanic
=============================================================================
