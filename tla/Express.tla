------------------------------ MODULE Express ------------------------------
(***************************************************************************)
(* The life of an HTTP request handled by an Express.js style handler:     *)
(* runtime_handler.go (handleAsExpress) and express/request_context.go,    *)
(* request_context_pool.go, request_context_response.go and                *)
(* request_context_request.go.                                             *)
(*                                                                         *)
(* A request shares one pooled RequestContext between two processes: the   *)
(* HTTP goroutine and its JavaScript on the event loop, which answers by   *)
(* itself (ctx.res), hands over to the next http.Handler (ctx.next), or    *)
(* leaves the answer to the resolver, the rejector or Exception.  Which of *)
(* them answers is decided by three flags of the RequestContext; a channel *)
(* of capacity one ends the request.                                       *)
(***************************************************************************)
EXTENDS Naturals

CONSTANTS
    Requests,        \* HTTP requests, each served once
    RequestContexts, \* the RequestContexts that can exist
    None,            \* nil
    Careless,        \* the requests whose handlers have bad habits
    Habits           \* what those handlers may do, see HabitNames

\* A handler that is not an async function throws after it has answered; it
\* calls next after it has answered; it calls res.status and then answers
\* nothing; it never looks at ctx.res.
HabitNames == {"throwAfterSend", "nextAfterSend", "statusOnly", "ignoreRes"}

Has(r, habit) == r \in Careless /\ habit \in Habits

ASSUME HabitsAssumption ==
    Careless \subseteq Requests /\ Habits \subseteq HabitNames
ASSUME NoneAssumption == None \notin Requests \cup RequestContexts

VARIABLES
    req,      \* per request, see RequestType
    ctx,      \* per RequestContext, see ContextType
    panicked, \* a nil dereference on the loop ended the process
    lease, holds \* the IOContext of each request

\* No process of this handler type holds on to its IOContext.
L == INSTANCE Lease WITH Holds <- {}

leaseVars == <<lease, holds>>
vars == <<req, ctx, panicked, leaseVars>>

Code == {"noContent", "chosen", "ok", "error", "next", "implicit"}

\* http: the goroutine in handleAsExpress; ctx: the RequestContext it took;
\* js: the handler and the settling of its promise; lines: calls of
\* WriteHeader; status: the first status line; gone: r.Context() is done.
RequestType ==
    [http : {"new", "call", "except", "wait", "returned"},
     ctx : RequestContexts \cup {None},
     js : {"idle", "queued", "sync", "pending", "threw", "fulfilled",
           "rejected", "wake", "done"},
     lines : Nat,
     status : Code \cup {"none"},
     gone : BOOLEAN]

\* pooled: "fresh" if it is not built yet; http: the request httpResp, httpReq
\* and httpNext are of; cached: the request that the cached properties of the
\* request proxy were read from; responseProxy: is it built?  It is never
\* dropped; requestDone: tokens in the channel of capacity one.
ContextType ==
    [pooled : {"fresh", "pooled", "used"},
     http : Requests \cup {None},
     cached : Requests \cup {None},
     nextInvoked : BOOLEAN,
     responseSent : BOOLEAN,
     statusSet : BOOLEAN,
     statusCode : {"noContent", "chosen"},
     responseProxy : BOOLEAN,
     requestDone : 0 .. 1]

\* Types of every variable.
TypeOK ==
    /\ req \in [Requests -> RequestType]
    /\ ctx \in [RequestContexts -> ContextType]
    /\ panicked \in BOOLEAN
    /\ L!TypeOK

Init ==
    /\ req = [r \in Requests |->
                 [http |-> "new", ctx |-> None, js |-> "idle", lines |-> 0,
                  status |-> "none", gone |-> FALSE]]
    /\ ctx = [e \in RequestContexts |->
                 [pooled |-> "fresh", http |-> None, cached |-> None,
                  nextInvoked |-> FALSE, responseSent |-> FALSE,
                  statusSet |-> FALSE, statusCode |-> "noContent",
                  responseProxy |-> FALSE, requestDone |-> 0]]
    /\ panicked = FALSE
    /\ L!Init

-----------------------------------------------------------------------------
\* The RequestContext of r.
Ctx(r) == ctx[req[r].ctx]

\* The loop runs one piece of JavaScript at a time: the synchronous part of a
\* handler, or a resolver, which may block it sending on requestDone.
LoopFree == \A r \in Requests : req[r].js \notin {"sync", "wake"}

\* Code of the handler of r may run: its first job, or the continuation of an
\* await.
HandlerRuns(r) ==
    \/ req[r].js = "sync"
    \/ req[r].js = "pending" /\ LoopFree

\* The requests after w.WriteHeader(code) on the ResponseWriter of w; only the
\* first one reaches the client, a body may still be added.
Written(w, code) ==
    [req EXCEPT ![w].lines = @ + 1,
                ![w].status = IF @ = "none" THEN code ELSE @]

\* RequestContextPool.Get: a context from the queue, else one that the factory
\* builds on the loop.
PoolGet(e) ==
    \/ ctx[e].pooled = "pooled"
    \/ /\ ctx[e].pooled = "fresh"
       /\ \A d \in RequestContexts : ctx[d].pooled # "pooled"
       /\ LoopFree

-----------------------------------------------------------------------------
(* The HTTP goroutine. *)

\* handleAsExpress up to RunOnLoop: the IOContext, the RequestContext, WithHttp.
Begin(r, e) ==
    /\ req[r].http = "new"
    /\ PoolGet(e)
    /\ L!Grant(r)
    /\ req' = [req EXCEPT ![r].http = "call", ![r].ctx = e, ![r].js = "queued"]
    /\ ctx' = [ctx EXCEPT ![e].pooled = "used", ![e].http = r]
    /\ UNCHANGED panicked

\* NewPromiseFuncWithArg returns: an error if the handler threw synchronously.
CallReturns(r) ==
    /\ req[r].http = "call"
    /\ req[r].js \notin {"queued", "sync"}
    /\ req' = [req EXCEPT ![r].http =
                  IF req[r].js = "threw" THEN "except" ELSE "wait"]
    /\ UNCHANGED <<ctx, panicked, leaseVars>>

\* Exception answers 500 unless the client has gone, whatever has been sent.
Exception(r) ==
    /\ req[r].http = "except"
    /\ Ctx(r).requestDone = 0
    /\ req' = [(IF req[r].gone THEN req ELSE Written(r, "error"))
                  EXCEPT ![r].http = "wait"]
    /\ ctx' = [ctx EXCEPT ![req[r].ctx].responseSent = TRUE,
                          ![req[r].ctx].requestDone = 1]
    /\ UNCHANGED <<panicked, leaseVars>>

\* ctx.Wait receives a token and the deferred Put starts the end of the lease;
\* net/http adds a 200 to a response without a status line.
Return(r) ==
    /\ req[r].http = "wait"
    /\ Ctx(r).requestDone = 1
    /\ req' = [req EXCEPT ![r].http = "returned",
                          ![r].status = IF @ = "none" THEN "implicit" ELSE @]
    /\ ctx' = [ctx EXCEPT ![req[r].ctx].requestDone = @ - 1]
    /\ L!Return(r)
    /\ UNCHANGED panicked

Disconnect(r) ==
    /\ req[r].http \notin {"new", "returned"}
    /\ ~req[r].gone
    /\ req' = [req EXCEPT ![r].gone = TRUE]
    /\ UNCHANGED <<ctx, panicked, leaseVars>>

\* Faulty: the request proxy is not reset.
ResetKeepingCache(r) ==
    /\ L!Reclaim(r)
    /\ LET e == req[r].ctx
       IN ctx' = [ctx EXCEPT ![e].pooled = "pooled", ![e].http = None,
                             ![e].nextInvoked = FALSE,
                             ![e].responseSent = FALSE, ![e].statusSet = FALSE,
                             ![e].statusCode = "noContent"]
    /\ UNCHANGED <<req, panicked>>

\* The cleanup registered by RequestContextPool.Get: reset of the context and
\* of its proxies, which stay, then back to the pool.  The channel is not
\* drained.
ResetContext(r) ==
    /\ L!Reclaim(r)
    /\ LET e == req[r].ctx
       IN ctx' = [ctx EXCEPT ![e].pooled = "pooled", ![e].http = None,
                             ![e].cached = None, ![e].nextInvoked = FALSE,
                             ![e].responseSent = FALSE, ![e].statusSet = FALSE,
                             ![e].statusCode = "noContent"]
    /\ UNCHANGED <<req, panicked>>

-----------------------------------------------------------------------------
(* JavaScript, on the event loop. *)

\* The job of NewPromiseFuncWithArg calls the handler, which looks at ctx.res
\* unless it has the habit not to.
StartHandler(r) ==
    /\ req[r].js = "queued"
    /\ LoopFree
    /\ req' = [req EXCEPT ![r].js = "sync"]
    /\ ctx' = [ctx EXCEPT ![req[r].ctx].responseProxy =
                  @ \/ ~Has(r, "ignoreRes")]
    /\ UNCHANGED <<panicked, leaseVars>>

\* ctx.req.method, path and the like, which the request proxy caches.
ReadProperty(r) ==
    /\ HandlerRuns(r)
    /\ Ctx(r).cached = None
    /\ ctx' = [ctx EXCEPT ![req[r].ctx].cached = Ctx(r).http]
    /\ UNCHANGED <<req, panicked, leaseVars>>

\* ctx.res.status(code); once a response is sent it throws a TypeError.
SetStatus(r) ==
    /\ HandlerRuns(r)
    /\ ~Ctx(r).responseSent
    /\ ctx' = [ctx EXCEPT ![req[r].ctx].statusSet = TRUE,
                          ![req[r].ctx].statusCode = "chosen",
                          ![req[r].ctx].responseProxy = TRUE]
    /\ UNCHANGED <<req, panicked, leaseVars>>

\* ctx.res.send, json or end with something to send: sendHeaders and the body;
\* once a response is sent they throw a TypeError.
Send(r) ==
    /\ HandlerRuns(r)
    /\ ~Ctx(r).responseSent
    /\ req' = Written(Ctx(r).http,
                      IF Ctx(r).statusSet THEN Ctx(r).statusCode ELSE "ok")
    /\ ctx' = [ctx EXCEPT ![req[r].ctx].statusSet = TRUE,
                          ![req[r].ctx].responseSent = TRUE,
                          ![req[r].ctx].responseProxy = TRUE]
    /\ UNCHANGED <<panicked, leaseVars>>

\* ctx.next: the next handler serves the request; a second call does nothing.
\* (That it serves on the loop is modelled in Runtime.)
InvokeNext(r) ==
    /\ HandlerRuns(r)
    /\ ~Ctx(r).nextInvoked
    /\ Has(r, "nextAfterSend") \/ ~Ctx(r).responseSent
    /\ req' = Written(Ctx(r).http, "next")
    /\ ctx' = [ctx EXCEPT ![req[r].ctx].nextInvoked = TRUE,
                          ![req[r].ctx].responseSent = TRUE]
    /\ UNCHANGED <<panicked, leaseVars>>

\* The handler leaves its first job, or its promise settles.
Js(r, to) ==
    /\ req' = [req EXCEPT ![r].js = to]
    /\ UNCHANGED <<ctx, panicked, leaseVars>>

HandlerAwaits(r) == req[r].js = "sync" /\ Js(r, "pending")

MayThrow(r) ==
    /\ req[r].js = "sync"
    /\ Has(r, "throwAfterSend") \/ ~Ctx(r).responseSent

\* Faulty: the wrapper calls the handler inside its try block and throws the
\* error again, so that the rejector and Exception both end the request.
HandlerThrowsTwice(r) ==
    /\ MayThrow(r)
    /\ req[r].http = "call"
    /\ req' = [req EXCEPT ![r].js = "rejected", ![r].http = "except"]
    /\ UNCHANGED <<ctx, panicked, leaseVars>>

\* A handler that is not an async function throws: no resolver is installed.
HandlerThrows(r) == MayThrow(r) /\ Js(r, "threw")

\* Faulty: nativeContextWrapper wakes the request before it answers.
SettlesWakingFirst(r) ==
    /\ HandlerRuns(r)
    /\ \E p \in {"fulfilled", "rejected"} : req' = [req EXCEPT ![r].js = p]
    /\ ctx' = [ctx EXCEPT ![req[r].ctx].requestDone = 1]
    /\ UNCHANGED <<panicked, leaseVars>>

\* The handler returns or its promise settles.
HandlerSettles(r) ==
    /\ HandlerRuns(r)
    /\ \/ /\ Has(r, "statusOnly") \/ Ctx(r).responseSent \/ ~Ctx(r).statusSet
          /\ Js(r, "fulfilled")
       \/ Js(r, "rejected")

-----------------------------------------------------------------------------
(* The resolver and the rejector, on the event loop (nativeContextWrapper).  *)

\* Is an answer still due from them?
Unanswered(e) == ~ctx[e].nextInvoked /\ ~ctx[e].responseSent

\* They leave a client that has gone alone.
Due(r) == Unanswered(req[r].ctx) /\ ~req[Ctx(r).http].gone

\* The resolver reads the status code of a responseProxy nobody has built, or
\* either of them runs on a context that was reset: the process ends.
Panics(r) ==
    /\ Unanswered(req[r].ctx)
    /\ \/ Ctx(r).http = None
       \/ /\ req[r].js = "fulfilled"
          /\ Due(r)
          /\ ~Ctx(r).statusSet
          /\ ~Ctx(r).responseProxy

\* The wrapper: the answer, in newReq, then on to the wake.
Settle(r, newReq, to) ==
    /\ LoopFree
    /\ ~Panics(r)
    /\ req' = [newReq EXCEPT ![r].js = to]
    /\ ctx' = [ctx EXCEPT ![req[r].ctx].responseSent = TRUE]
    /\ UNCHANGED <<panicked, leaseVars>>

\* What the resolver does to the request: it answers with the status code of
\* the proxy, except when the handler has set one: then it writes nothing.
Resolved(r) ==
    IF Due(r) /\ ~Ctx(r).statusSet THEN Written(Ctx(r).http, Ctx(r).statusCode)
                                   ELSE req

\* Faulty: a request whose client has gone is not woken.
ResolveUnlessGone(r) ==
    /\ req[r].js = "fulfilled"
    /\ Settle(r, Resolved(r),
              IF Unanswered(req[r].ctx) /\ ~Due(r) THEN "done" ELSE "wake")

\* Faulty: the resolver does not look at what has been sent.
ResolveAgain(r) ==
    /\ req[r].js = "fulfilled"
    /\ Settle(r, Written(Ctx(r).http, Ctx(r).statusCode), "wake")

Resolve(r) ==
    /\ req[r].js = "fulfilled"
    /\ Settle(r, Resolved(r), "wake")

Reject(r) ==
    /\ req[r].js = "rejected"
    /\ Settle(r, IF Due(r) THEN Written(Ctx(r).http, "error") ELSE req, "wake")

\* wake on the loop: it would block all JavaScript if a token were left.
Wake(r) ==
    /\ req[r].js = "wake"
    /\ Ctx(r).requestDone = 0
    /\ req' = [req EXCEPT ![r].js = "done"]
    /\ ctx' = [ctx EXCEPT ![req[r].ctx].requestDone = 1]
    /\ UNCHANGED <<panicked, leaseVars>>

Panic(r) ==
    /\ req[r].js \in {"fulfilled", "rejected"}
    /\ LoopFree
    /\ Panics(r)
    /\ panicked' = TRUE
    /\ UNCHANGED <<req, ctx, leaseVars>>

-----------------------------------------------------------------------------
HttpStep(r) == CallReturns(r) \/ Exception(r) \/ Return(r)

SettleStep(r) == Resolve(r) \/ Reject(r) \/ Wake(r) \/ Panic(r)

Step(r) ==
    \/ \E e \in RequestContexts : Begin(r, e)
    \/ HttpStep(r)
    \/ Disconnect(r)
    \/ ResetContext(r)
    \/ StartHandler(r)
    \/ ReadProperty(r)
    \/ SetStatus(r)
    \/ Send(r)
    \/ InvokeNext(r)
    \/ HandlerAwaits(r)
    \/ HandlerThrows(r)
    \/ HandlerSettles(r)
    \/ SettleStep(r)

\* Every request is over and its context is back in the pool.
Terminated == panicked \/ \A r \in Requests : lease[r] = "reclaimed"

Next ==
    \/ ~panicked /\ \E r \in Requests : Step(r)
    \/ Terminated /\ UNCHANGED vars

\* Goroutines and the loop are scheduled, and the synchronous part of a handler
\* ends, the next handler included.  Whether an asynchronous handler settles
\* or answers is up to the user's code, and nothing is assumed of it.
Fairness ==
    \A r \in Requests :
        /\ WF_vars(HttpStep(r))
        /\ WF_vars(ResetContext(r))
        /\ WF_vars(StartHandler(r))
        /\ WF_vars(req[r].js = "sync" /\ (HandlerAwaits(r) \/ HandlerSettles(r)))
        /\ WF_vars(SettleStep(r))

Spec == Init /\ [][Next]_vars /\ Fairness

-----------------------------------------------------------------------------
(* Properties. *)

\* A context waits in the pool with its channel empty, although reset does not
\* drain it, with the flags that choose who answers cleared, and with nothing
\* of an earlier request left that could act on it.
CleanContexts ==
    \A e \in RequestContexts :
        ctx[e].pooled = "pooled" =>
            /\ ctx[e].requestDone = 0
            /\ Unanswered(e)
            /\ ~ctx[e].statusSet /\ ctx[e].statusCode = "noContent"
            /\ \A r \in Requests :
                  req[r].ctx = e => req[r].js \in {"threw", "done"}

\* The properties a handler reads from ctx.req are those of its own request,
\* although the proxy and its cache outlive the request.
OwnProperties ==
    \A r \in Requests :
        req[r].js \in {"sync", "pending"} => Ctx(r).cached \in {None, r}

\* r has a context: it was granted one that is not reset yet.
Serving(r) == lease[r] \in {"held", "returned"}

\* A request is in handleAsExpress while it holds its lease; the goroutine
\* knows how the call of the handler ended, and leaves last.
InStep(r) ==
    /\ lease[r] = "none" <=> req[r].http = "new"
    /\ lease[r] = "held" <=> req[r].http \in {"call", "except", "wait"}
    /\ req[r].ctx = None <=> req[r].http = "new"
    /\ req[r].js = "idle" <=> req[r].http = "new"
    /\ req[r].http = "except" => req[r].js = "threw"
    /\ req[r].http = "wait" => req[r].js \notin {"queued", "sync"}
    /\ req[r].http = "returned" => req[r].js \in {"threw", "done"}

\* Exception has ended r.
Excepted(r) == req[r].js = "threw" /\ req[r].http \in {"wait", "returned"}

\* The context of r is its own; its channel says whether r may return, and its
\* response proxy was built unless the handler never looks at it.
OwnContext(r) ==
    Serving(r) =>
        /\ Ctx(r).pooled = "used" /\ Ctx(r).http = r
        /\ Ctx(r).cached \in {None, r}
        /\ Ctx(r).requestDone = 1 <=>
              \/ req[r].js = "done" /\ req[r].http \in {"call", "wait"}
              \/ Excepted(r) /\ req[r].http = "wait"
        /\ req[r].js # "queued" /\ ~Has(r, "ignoreRes") => Ctx(r).responseProxy

\* For a careful handler responseSent tells whether there is a status line,
\* until something else than the handler has ended the request: then there is
\* one, unless the client has gone.
OneLine(r) ==
    /\ req[r].lines \in {0, 1}
    /\ req[r].js = "idle" => req[r].lines = 0
    /\ req[r].js \in {"wake", "done"} \/ Excepted(r) =>
          req[r].lines = 1 \/ req[r].gone
    /\ Serving(r) /\ req[r].js \notin {"wake", "done"} /\ ~Excepted(r) =>
          /\ req[r].lines = 1 <=> Ctx(r).responseSent
          /\ Ctx(r).nextInvoked => Ctx(r).responseSent
          /\ req[r].js = "threw" => ~Ctx(r).responseSent
          /\ req[r].js = "fulfilled" => Ctx(r).responseSent \/ ~Ctx(r).statusSet

\* A context in use serves a request, any other one is as good as new but for
\* its proxies.
OwnedOrClean(e) ==
    IF ctx[e].pooled = "used"
    THEN ctx[e].http # None /\ Serving(ctx[e].http) /\ req[ctx[e].http].ctx = e
    ELSE /\ ctx[e].http = None /\ ctx[e].cached = None
         /\ Unanswered(e)
         /\ ~ctx[e].statusSet /\ ctx[e].statusCode = "noContent"
         /\ ctx[e].requestDone = 0

\* The inductive invariant, as long as the process is up.
IInv ==
    /\ TypeOK
    /\ \A r \in Requests : InStep(r) /\ OwnContext(r)
    /\ \A r \in Requests \ Careless : OneLine(r)
    /\ \A e \in RequestContexts : OwnedOrClean(e)

\* Type correctness, clean contexts, and properties of the right request:
\* nothing passes from one request to the next through the pool.  With them
\* the inductive invariant they follow from.
ContextsInv == IInv /\ CleanContexts /\ OwnProperties

\* The resolver and the rejector send on requestDone from the loop, the thread
\* that runs all JavaScript: they never find the channel full.
LoopNeverBlocks ==
    \A r \in Requests : req[r].js = "wake" => Ctx(r).requestDone = 0

\* No resolver runs on a context that was reset, and only a handler that never
\* looked at ctx.res, on a context where no earlier one did, ends the process.
NoPanic ==
    panicked => \E r \in Requests :
                    /\ Has(r, "ignoreRes")
                    /\ req[r].js = "fulfilled"
                    /\ Ctx(r).http = r
                    /\ ~Ctx(r).responseProxy

\* Once the handler has settled or thrown, the HTTP request returns, whichever
\* of the resolver, the rejector and Exception has to wake it.
RequestReturns ==
    \A r \in Requests :
        req[r].js \in {"threw", "fulfilled", "rejected"}
            ~> req[r].http = "returned" \/ panicked

\* What ServeHTTP's caller sees of r.  "garbled", which is no state of
\* HttpExchange: two status lines.
Careful == Requests \ Careless

exchange ==
    [r \in Careful |->
        IF req[r].lines > 1 THEN "garbled"
        ELSE CASE req[r].http = "new" -> "idle"
               [] req[r].http = "returned" -> "closed"
               [] OTHER -> IF req[r].lines = 0 THEN "open" ELSE "answered"]

E == INSTANCE HttpExchange
        WITH Requests <- Careful, gone <- [r \in Careful |-> req[r].gone]

\* A request whose handler is careful has one status line, and none only if its
\* client has gone, whatever an earlier request has done to its RequestContext.
ImplementsExchange == E!Spec
=============================================================================
