----------------------------- MODULE FetchEvent -----------------------------
(***************************************************************************)
(* The life of an HTTP request handled by an event handler:                *)
(* runtime_handler.go (handleAsEvent), event/fetch_event.go and            *)
(* fetch_event_pool.go.                                                    *)
(*                                                                         *)
(* For each request four processes share one pooled FetchEvent: the HTTP   *)
(* goroutine, the JavaScript handler and the respondWith helper (both run  *)
(* on the event loop), the writer goroutine of the response resolver and   *)
(* the finisher goroutine of the request resolver or rejector.  They       *)
(* synchronise over two channels of capacity one, requestDone and          *)
(* responseDone, which live as long as the event and are never drained.    *)
(*                                                                         *)
(* The IOContext that decides when the event is reset is used through what *)
(* it promises: module Lease.                                              *)
(***************************************************************************)
EXTENDS Naturals

CONSTANTS
    Requests,         \* HTTP requests, each served once
    Events,           \* the FetchEvents that can exist
    Extensions,       \* promises passed to evt.waitUntil
    None,             \* nil
    Leavers,          \* the requests whose client may go away
    ThrowAfterRespond \* may a handler throw synchronously after respondWith?

ASSUME LeaversAssumption == Leavers \subseteq Requests
ASSUME ThrowAssumption == ThrowAfterRespond \in BOOLEAN
ASSUME NoneAssumption == None \notin Requests \cup Events

VARIABLES
    req,      \* per request, see RequestType
    evt,      \* per event, see EventType
    panicked, \* a nil dereference on the loop ended the process
    lease, holds \* the IOContext of each request

L == INSTANCE Lease WITH Holds <- Extensions

leaseVars == <<lease, holds>>
vars == <<req, evt, panicked, leaseVars>>

\* http: the goroutine in handleAsEvent; evt: the FetchEvent it took, which the
\* closures keep; js: the handler; helper: the promise of the respondWith
\* helper, "lost" if nobody will signal the end of its response; writer: the
\* goroutine of the response resolver, and the request whose ResponseWriter it
\* captured; finisher: the goroutine of the request resolver or rejector;
\* lines: calls of WriteHeader; gone: r.Context() is done.
RequestType ==
    [http : {"new", "call", "except", "write", "wait", "returned"},
     evt : Events \cup {None},
     js : {"idle", "queued", "sync", "pending", "threw", "settled"},
     helper : {"none", "pending", "send", "done", "lost"},
     writer : {"none", "start", "copy", "signal", "done"},
     target : Requests \cup {None},
     finisher : {"none", "resolve", "reject", "awaitOk", "awaitErr", "check",
                 "next", "wake", "done"},
     lines : Nat,
     gone : BOOLEAN]

\* pooled: "fresh" if it is not built yet; http: the request httpResp, httpReq
\* and httpNext are of; skipNext: skipNext and useRespondWith, always equal;
\* requestDone, responseDone: tokens in a channel of capacity one.
EventType ==
    [pooled : {"fresh", "pooled", "used"},
     http : Requests \cup {None},
     skipNext : BOOLEAN,
     responseSent : BOOLEAN,
     requestDone : 0 .. 1,
     responseDone : 0 .. 1]

\* Types of every variable; a channel of capacity one holds one token at most.
TypeOK ==
    /\ req \in [Requests -> RequestType]
    /\ evt \in [Events -> EventType]
    /\ panicked \in BOOLEAN
    /\ L!TypeOK

Init ==
    /\ req = [r \in Requests |->
                 [http |-> "new", evt |-> None, js |-> "idle",
                  helper |-> "none", writer |-> "none", target |-> None,
                  finisher |-> "none", lines |-> 0, gone |-> FALSE]]
    /\ evt = [e \in Events |->
                 [pooled |-> "fresh", http |-> None, skipNext |-> FALSE,
                  responseSent |-> FALSE, requestDone |-> 0,
                  responseDone |-> 0]]
    /\ panicked = FALSE
    /\ L!Init

-----------------------------------------------------------------------------
\* The event of r.
Evt(r) == evt[req[r].evt]

\* The loop runs one piece of JavaScript at a time: the synchronous part of a
\* handler, or a resolver, which may block it sending on responseDone.
LoopFree == \A r \in Requests : req[r].js # "sync" /\ req[r].helper # "send"

\* Code of the handler of r may run: its first job, or the continuation of an
\* await.
HandlerRuns(r) ==
    \/ req[r].js = "sync"
    \/ req[r].js = "pending" /\ LoopFree

\* The requests after w.WriteHeader on the ResponseWriter of w.
Written(w) == [req EXCEPT ![w].lines = @ + 1]

\* Process p of r goes on to its next step and does nothing else.
Move(r, p, to) ==
    /\ req' = [req EXCEPT ![r][p] = to]
    /\ UNCHANGED <<evt, panicked, leaseVars>>

\* Process p of r sends on, or receives from, channel c of its event, which
\* has room for one token.
Send(r, p, c, to) ==
    /\ Evt(r)[c] = 0
    /\ req' = [req EXCEPT ![r][p] = to]
    /\ evt' = [evt EXCEPT ![req[r].evt][c] = 1]
    /\ UNCHANGED <<panicked, leaseVars>>

Take(r, p, c, to) ==
    /\ req' = [req EXCEPT ![r][p] = to]
    /\ evt' = [evt EXCEPT ![req[r].evt][c] = @ - 1]
    /\ UNCHANGED panicked

\* responseSent is set with whatever newReq says of the requests.
Sent(r, newReq) ==
    /\ req' = newReq
    /\ evt' = [evt EXCEPT ![req[r].evt].responseSent = TRUE]
    /\ UNCHANGED <<panicked, leaseVars>>

\* FetchEventPool.Get: an event from the queue, else one that the factory builds
\* on the loop.
PoolGet(e) ==
    \/ evt[e].pooled = "pooled"
    \/ /\ evt[e].pooled = "fresh"
       /\ \A d \in Events : evt[d].pooled # "pooled"
       /\ LoopFree

-----------------------------------------------------------------------------
(* The HTTP goroutine. *)

\* handleAsEvent up to RunOnLoop: the context, the event, WithHttp.
Begin(r, e) ==
    /\ req[r].http = "new"
    /\ PoolGet(e)
    /\ L!Grant(r)
    /\ req' = [req EXCEPT ![r].http = "call", ![r].evt = e, ![r].js = "queued"]
    /\ evt' = [evt EXCEPT ![e].pooled = "used", ![e].http = r]
    /\ UNCHANGED panicked

\* NewPromiseFuncWithArg returns: an error if the handler threw synchronously.
CallReturns(r) ==
    /\ req[r].http = "call"
    /\ req[r].js \notin {"queued", "sync"}
    /\ Move(r, "http", IF req[r].js = "threw" THEN "except" ELSE "wait")

\* Exception looks at responseSent, which nobody protects.
ExceptionChecks(r) ==
    /\ req[r].http = "except"
    /\ Move(r, "http", IF Evt(r).responseSent THEN "wait" ELSE "write")

\* Exception answers 500 unless the client has gone, and wakes the request.
ExceptionWrites(r) ==
    /\ req[r].http = "write"
    /\ Evt(r).requestDone = 0
    /\ req' = [(IF req[r].gone THEN req ELSE Written(r))
                  EXCEPT ![r].http = "wait"]
    /\ evt' = [evt EXCEPT ![req[r].evt].responseSent = TRUE,
                          ![req[r].evt].requestDone = 1]
    /\ UNCHANGED <<panicked, leaseVars>>

\* evt.Wait returns, the deferred Put starts the end of the lease.
Return(r) ==
    /\ req[r].http = "wait"
    /\ Evt(r).requestDone = 1
    /\ Take(r, "http", "requestDone", "returned")
    /\ L!Return(r)

Disconnect(r) ==
    /\ r \in Leavers
    /\ req[r].http \notin {"new", "returned"}
    /\ ~req[r].gone
    /\ Move(r, "gone", TRUE)

\* The cleanup registered by FetchEventPool.Get: reset, which does not drain
\* the channels, then back to the pool.
ResetEvent(r) ==
    /\ L!Reclaim(r)
    /\ evt' = [evt EXCEPT ![req[r].evt] =
                  [@ EXCEPT !.pooled = "pooled", !.http = None,
                            !.skipNext = FALSE, !.responseSent = FALSE]]
    /\ UNCHANGED <<req, panicked>>

-----------------------------------------------------------------------------
(* JavaScript, on the event loop. *)

\* The job of NewPromiseFuncWithArg calls the handler.
StartHandler(r) ==
    /\ req[r].js = "queued"
    /\ LoopFree
    /\ Move(r, "js", "sync")

Respond(r) ==
    /\ HandlerRuns(r)
    /\ req' = [req EXCEPT ![r].helper = "pending"]
    /\ evt' = [evt EXCEPT ![req[r].evt].skipNext = TRUE]
    /\ UNCHANGED <<panicked, leaseVars>>

\* Faulty: useRespondWith is not looked at, respondWith works again.
RespondWithAgain(r) == req[r].helper \in {"none", "done"} /\ Respond(r)

\* evt.respondWith; a second call throws a TypeError and changes nothing.
RespondWith(r) == Respond(r) /\ ~Evt(r).skipNext

\* evt.waitUntil, by the handler or by an extension of the request.
WaitUntil(r, x) ==
    /\ HandlerRuns(r) \/ (holds[r] # {} /\ LoopFree)
    /\ L!Hold(r, x)
    /\ UNCHANGED <<req, evt, panicked>>

\* The promise passed to waitUntil settles.
Conclude(r, x) ==
    /\ LoopFree
    /\ L!Drop(r, x)
    /\ UNCHANGED <<req, evt, panicked>>

\* The handler awaits something: its first job is over.
HandlerAwaits(r) == req[r].js = "sync" /\ Move(r, "js", "pending")

Settled(r, ends) ==
    /\ \E p \in ends : req' = [req EXCEPT ![r].js = "settled", ![r].finisher = p]
    /\ UNCHANGED <<evt, panicked, leaseVars>>

\* A handler that throws after respondWith leaves a response that is pending only
\* if what the helper awaits needs a later job.
MayThrow(r) ==
    /\ req[r].js = "sync"
    /\ ThrowAfterRespond \/ ~Evt(r).skipNext

\* Faulty: the wrapper reports the error and rejects as well.
HandlerThrowsTwice(r) ==
    /\ MayThrow(r)
    /\ req' = [req EXCEPT ![r].js = "threw", ![r].finisher = "reject"]
    /\ UNCHANGED <<evt, panicked, leaseVars>>

\* A handler that is not an async function throws: no resolver is installed.
HandlerThrows(r) == MayThrow(r) /\ Move(r, "js", "threw")

\* The handler's promise settles: the request resolver or rejector starts the
\* finisher.
HandlerSettles(r) == HandlerRuns(r) /\ Settled(r, {"resolve", "reject"})

\* The helper's promise is settled by the loop, between jobs.
HelperRuns(r) == req[r].helper = "pending" /\ LoopFree

\* The resolver and the rejector find the ResponseWriter of the event.
Responds(r) == HelperRuns(r) /\ Evt(r).http # None

\* Response resolver, the value is no Response: 204, and a token.
RespondNoContent(r) ==
    /\ Responds(r)
    /\ Sent(r, [Written(Evt(r).http) EXCEPT ![r].helper = "send"])

\* Response resolver, a Response: the writer takes over.
RespondWithBody(r) ==
    /\ Responds(r)
    /\ req' = [req EXCEPT ![r].writer = "start", ![r].target = Evt(r).http,
                          ![r].helper = "done"]
    /\ UNCHANGED <<evt, panicked, leaseVars>>

\* Response rejector (the Response cannot be read, or the resolver threw over
\* an unsupported stream): 500 and a token, unless the reason is undefined:
\* then it leaves before it has set responseSent and sent the token.
RespondRejected(r) ==
    /\ Responds(r)
    /\ \/ Sent(r, [Written(Evt(r).http) EXCEPT ![r].helper = "send"])
       \/ /\ req' = [Written(Evt(r).http) EXCEPT ![r].helper = "lost"]
          /\ UNCHANGED <<evt, panicked, leaseVars>>

\* evt.responseDone <- struct{}{} on the loop: blocks it while a token is left.
LoopSends(r) ==
    /\ req[r].helper = "send"
    /\ Send(r, "helper", "responseDone", "done")

\* The event was reset under the helper: the nil ResponseWriter ends the
\* process.
Panic(r) ==
    /\ HelperRuns(r)
    /\ Evt(r).http = None
    /\ panicked' = TRUE
    /\ UNCHANGED <<req, evt, leaseVars>>

-----------------------------------------------------------------------------
(* The writer goroutine. *)

WriterStarts(r) ==
    /\ req[r].writer = "start"
    /\ Sent(r, [Written(req[r].target) EXCEPT ![r].writer = "copy"])

\* Faulty: the goroutine returns when copying fails.
WriterCopiesOrQuits(r) ==
    /\ req[r].writer = "copy"
    /\ \E w \in {"signal", "done"} : Move(r, "writer", w)

\* io.CopyBuffer ends, with the body or with an error.
WriterCopies(r) == req[r].writer = "copy" /\ Move(r, "writer", "signal")

WriterSignals(r) ==
    /\ req[r].writer = "signal"
    /\ Send(r, "writer", "responseDone", "done")

-----------------------------------------------------------------------------
(* The finisher goroutine of the request resolver or rejector. *)

\* Faulty: the resolver does not wait for the response.
FinisherStartsEager(r) ==
    /\ req[r].finisher \in {"resolve", "reject"}
    /\ Move(r, "finisher", IF Evt(r).skipNext THEN "wake" ELSE "check")

\* It looks at skipNext: was respondWith used?
FinisherStarts(r) ==
    \/ /\ req[r].finisher = "resolve"
       /\ IF Evt(r).skipNext
          THEN Move(r, "finisher", "awaitOk")
          ELSE Sent(r, [req EXCEPT ![r].finisher = "next"])
    \/ /\ req[r].finisher = "reject"
       /\ Move(r, "finisher", IF Evt(r).skipNext THEN "awaitErr" ELSE "check")

\* <-evt.responseDone.
FinisherReceives(r) ==
    /\ req[r].finisher \in {"awaitOk", "awaitErr"}
    /\ Evt(r).responseDone = 1
    /\ Take(r, "finisher", "responseDone",
            IF req[r].finisher = "awaitOk" THEN "wake" ELSE "check")
    /\ UNCHANGED leaseVars

\* evt.httpNext.ServeHTTP answers.
FinisherServesNext(r) ==
    /\ req[r].finisher = "next"
    /\ req' = [Written(r) EXCEPT ![r].finisher = "wake"]
    /\ UNCHANGED <<evt, panicked, leaseVars>>

\* Faulty: the rejector does not look at responseSent.
FinisherAnswersAgain(r) ==
    /\ req[r].finisher = "check"
    /\ Sent(r, [Written(r) EXCEPT ![r].finisher = "wake"])

\* The rejector answers 500 unless a response was sent.
FinisherChecks(r) ==
    /\ req[r].finisher = "check"
    /\ IF Evt(r).responseSent
       THEN Move(r, "finisher", "wake")
       ELSE Sent(r, [Written(r) EXCEPT ![r].finisher = "wake"])

\* The deferred wake: evt.requestDone <- struct{}{}.
FinisherWakes(r) ==
    /\ req[r].finisher = "wake"
    /\ Send(r, "finisher", "requestDone", "done")

-----------------------------------------------------------------------------
HttpStep(r) ==
    CallReturns(r) \/ ExceptionChecks(r) \/ ExceptionWrites(r) \/ Return(r)

HelperStep(r) ==
    \/ RespondNoContent(r)
    \/ RespondWithBody(r)
    \/ RespondRejected(r)
    \/ LoopSends(r)
    \/ Panic(r)

WriterStep(r) == WriterStarts(r) \/ WriterCopies(r) \/ WriterSignals(r)

FinisherStep(r) ==
    \/ FinisherStarts(r)
    \/ FinisherReceives(r)
    \/ FinisherServesNext(r)
    \/ FinisherChecks(r)
    \/ FinisherWakes(r)

Step(r) ==
    \/ \E e \in Events : Begin(r, e)
    \/ HttpStep(r)
    \/ Disconnect(r)
    \/ ResetEvent(r)
    \/ StartHandler(r)
    \/ RespondWith(r)
    \/ \E x \in Extensions : WaitUntil(r, x) \/ Conclude(r, x)
    \/ HandlerAwaits(r)
    \/ HandlerThrows(r)
    \/ HandlerSettles(r)
    \/ HelperStep(r)
    \/ WriterStep(r)
    \/ FinisherStep(r)

\* Every request is over and its event is back in the pool, or nobody will
\* ever end it.
Terminated ==
    \/ panicked
    \/ \A r \in Requests : lease[r] = "reclaimed" \/ req[r].helper = "lost"

Next ==
    \/ ~panicked /\ \E r \in Requests : Step(r)
    \/ Terminated /\ UNCHANGED vars

\* Goroutines and the loop are scheduled, the synchronous part of a handler
\* ends, reading a Response and copying its body end.  Whether an asynchronous
\* handler settles, calls respondWith or waitUntil is up to the user's code,
\* and nothing is assumed of it.
Fairness ==
    \A r \in Requests :
        /\ WF_vars(HttpStep(r))
        /\ WF_vars(ResetEvent(r))
        /\ WF_vars(StartHandler(r))
        /\ WF_vars(req[r].js = "sync" /\ (HandlerAwaits(r) \/ HandlerSettles(r)))
        /\ WF_vars(HelperStep(r))
        /\ WF_vars(WriterStep(r))
        /\ WF_vars(FinisherStep(r))

Spec == Init /\ [][Next]_vars /\ Fairness

-----------------------------------------------------------------------------
(* Properties. *)

\* An event waits in the pool with both channels empty, although reset does
\* not drain them, with its flags cleared and with no process of an earlier
\* request left that could write to it.
CleanEvents ==
    \A e \in Events :
        evt[e].pooled = "pooled" =>
            /\ evt[e].requestDone = 0 /\ evt[e].responseDone = 0
            /\ ~evt[e].skipNext /\ ~evt[e].responseSent
            /\ \A r \in Requests :
                  req[r].evt = e => /\ req[r].helper \in {"none", "done"}
                                    /\ req[r].writer \in {"none", "done"}
                                    /\ req[r].finisher \in {"none", "done"}

\* r has an event: it was granted one that is not reset yet.
Serving(r) == lease[r] \in {"held", "returned"}

\* A token was sent for the response that respondWith has promised.
Answered(r) == req[r].helper = "done" /\ req[r].writer \in {"none", "done"}

\* A request is in handleAsEvent while it holds its lease.
InStep(r) ==
    /\ lease[r] = "none" <=> req[r].http = "new"
    /\ lease[r] = "held" <=> req[r].http \in {"call", "except", "write", "wait"}
    /\ req[r].evt = None <=> req[r].http = "new"
    /\ req[r].js = "idle" <=> req[r].http = "new"

\* What the processes of r know of each other: only a handler that has settled
\* has a finisher, which goes on once the response is over; only a Response
\* has a writer; the goroutine leaves last.
Processes(r) ==
    /\ req[r].finisher # "none" <=> req[r].js = "settled"
    /\ req[r].js \in {"idle", "queued", "threw"} => req[r].helper = "none"
    /\ req[r].writer # "none" => req[r].helper = "done" /\ req[r].target = r
    /\ req[r].finisher \in {"awaitOk", "awaitErr"} => req[r].helper # "none"
    /\ req[r].finisher \in {"check", "wake", "done"} =>
          req[r].helper = "none" \/ Answered(r)
    /\ req[r].finisher = "next" => req[r].helper = "none"
    /\ req[r].http \in {"except", "write"} => req[r].js = "threw"
    /\ req[r].http = "wait" => req[r].js \notin {"queued", "sync"}
    /\ req[r].http = "returned" => req[r].js = "threw" \/ req[r].finisher = "done"

\* A status line was written by what answered r.
Replied(r) ==
    \/ req[r].helper \in {"send", "lost"}
    \/ req[r].helper = "done" /\ req[r].writer # "start"
    \/ req[r].helper = "none" /\ req[r].finisher \in {"wake", "done"}

\* Exception has ended r.
Excepted(r) == req[r].js = "threw" /\ req[r].http \in {"wait", "returned"}

\* One status line by one of them, which a client that has gone may lack.
OneLine(r) ==
    /\ req[r].lines \in {0, 1}
    /\ ~Excepted(r) => (req[r].lines = 1 <=> Replied(r))
    /\ Excepted(r) => req[r].lines = 1 \/ req[r].gone

\* The event of r is its own, and its flags and channels say how far r is.
OwnEvent(r) ==
    Serving(r) =>
        /\ Evt(r).pooled = "used" /\ Evt(r).http = r
        /\ Evt(r).skipNext <=> req[r].helper # "none"
        /\ Evt(r).responseSent <=>
              \/ Replied(r) /\ req[r].helper # "lost"
              \/ req[r].finisher = "next"
              \/ Excepted(r)
        /\ Evt(r).responseDone = 1 <=>
              /\ Answered(r)
              /\ req[r].finisher \in
                    {"none", "resolve", "reject", "awaitOk", "awaitErr"}
        /\ Evt(r).requestDone = 1 <=>
              /\ req[r].http \in {"call", "wait"}
              /\ req[r].finisher = "done" \/ Excepted(r)

\* An event in use serves a request, any other one is as good as new.
OwnedOrClean(e) ==
    IF evt[e].pooled = "used"
    THEN evt[e].http # None /\ Serving(evt[e].http) /\ req[evt[e].http].evt = e
    ELSE /\ evt[e].http = None
         /\ ~evt[e].skipNext /\ ~evt[e].responseSent
         /\ evt[e].requestDone = 0 /\ evt[e].responseDone = 0

\* The inductive invariant.
IInv ==
    /\ TypeOK
    /\ \A r \in Requests :
          InStep(r) /\ Processes(r) /\ OneLine(r) /\ OwnEvent(r)
    /\ \A e \in Events : OwnedOrClean(e)
    /\ ~panicked

\* Type correctness and clean events, what each request starts from, and the
\* inductive invariant they follow from.
EventsInv == IInv /\ CleanEvents

\* The response resolver and rejector send on responseDone from the loop, the
\* thread that runs all JavaScript: they never find the channel full.
LoopNeverBlocks ==
    \A r \in Requests : req[r].helper = "send" => Evt(r).responseDone = 0

\* A token in requestDone is meant for the request that owns the event, which
\* is still in handleAsEvent: no request returns on the wake of another.
NoForeignWake ==
    \A e \in Events :
        evt[e].requestDone = 1 =>
            /\ evt[e].http # None
            /\ req[evt[e].http].http \in {"call", "wait"}

\* No resolver runs on an event that was reset under it.
NoPanic == ~panicked

\* Once the handler has settled or thrown, the HTTP request returns: it is
\* always woken, whichever of the resolvers, the writer and Exception ends it.
\* The one exception is a response rejected with undefined.
RequestReturns ==
    \A r \in Requests :
        req[r].js \in {"threw", "settled"}
            ~> req[r].http = "returned" \/ req[r].helper = "lost"

\* What ServeHTTP's caller sees of r.  "garbled", which is no state of
\* HttpExchange: two status lines, or a writer left behind by the request.
WrittenBy(r, steps) ==
    \E q \in Requests : req[q].target = r /\ req[q].writer \in steps

exchange ==
    [r \in Requests |->
        IF req[r].lines > 1 THEN "garbled"
        ELSE CASE req[r].http = "new" -> "idle"
               [] req[r].http = "returned" ->
                     IF WrittenBy(r, {"start", "copy"}) THEN "garbled"
                                                        ELSE "closed"
               [] OTHER -> IF req[r].lines = 0 THEN "open"
                           ELSE IF WrittenBy(r, {"copy"}) THEN "answering"
                           ELSE "answered"]

E == INSTANCE HttpExchange WITH gone <- [r \in Requests |-> req[r].gone]

\* One status line per request, its body finished before the handler returns,
\* and none only for a client that has gone.
ImplementsExchange == E!Spec
=============================================================================
