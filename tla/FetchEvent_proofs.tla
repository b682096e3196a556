--------------------------- MODULE FetchEvent_proofs ---------------------------
(***************************************************************************)
(* Theorems about FetchEvent, for any sets of requests, events and         *)
(* extensions, and handlers that do not throw synchronously after          *)
(* respondWith (~ThrowAfterRespond): IInv is inductive, the safety         *)
(* properties follow from it, and every behaviour is one of HttpExchange.  *)
(***************************************************************************)
EXTENDS FetchEvent, TLAPS

\* What the invariant says of one request.
Consistent(r) == InStep(r) /\ Processes(r) /\ OneLine(r) /\ OwnEvent(r)

\* Where the exchange of a request with these processes stands, as long as the
\* invariant holds.
Stage(p) ==
    CASE p.http = "new" -> "idle"
      [] p.http = "returned" -> "closed"
      [] p.http \notin {"new", "returned"} /\ p.lines = 0 -> "open"
      [] p.http \notin {"new", "returned"} /\ p.lines # 0 ->
            IF p.writer = "copy" THEN "answering" ELSE "answered"

\* A step of r is a step of its exchange or none: it moves no other request.
Exchanges(r) ==
    LET from == Stage(req[r])
        to == Stage(req'[r])
    IN  /\ \A q \in Requests \ {r} : req'[q] = req[q]
        /\ \/ /\ req'[r].gone = req[r].gone
              /\ \/ from = to
                 \/ from = "idle" /\ to = "open"
                 \/ from = "open" /\ to \in {"answering", "answered"}
                 \/ from = "answering" /\ to = "answered"
                 \/ from = "answered" /\ to = "closed"
                 \/ req[r].gone /\ from = "open" /\ to = "closed"
           \/ req'[r].gone = TRUE /\ from = to

-----------------------------------------------------------------------------
(* A step of one request. *)

\* A request is consistent with its own fields, its lease and its event, and an
\* event with its own fields and its owner: a step of r that touches only event e
\* leaves all others as they are.
LEMMA Frame ==
    ASSUME IInv, TypeOK', ~panicked',
           NEW r \in Requests, NEW e \in Events,
           req[r].evt \in {None, e}, req'[r].evt = e,
           evt[e].http \in {None, r},
           \A q \in Requests \ {r} : req'[q] = req[q] /\ lease'[q] = lease[q],
           \A d \in Events \ {e} : evt'[d] = evt[d],
           Consistent(r)', OwnedOrClean(e)'
    PROVE  IInv'
<1>1. \A q \in Requests \ {r} : Consistent(q)'
  <2> SUFFICES ASSUME NEW q \in Requests \ {r}
               PROVE  Consistent(q)'
    OBVIOUS
  <2>1. InStep(q) /\ Processes(q) /\ OneLine(q) /\ OwnEvent(q)
    BY DEF IInv
  <2>2. req'[q] = req[q] /\ lease'[q] = lease[q]
    OBVIOUS
  <2>3. InStep(q)' /\ Processes(q)' /\ OneLine(q)'
    BY <2>1, <2>2 DEF InStep, Processes, OneLine, Replied, Excepted, Answered
  <2>4. OwnEvent(q)'
    <3>1. CASE Serving(q)
      <4>1. req[q].evt \in Events \ {e}
        BY <2>1, <3>1, NoneAssumption DEF IInv, TypeOK, RequestType, OwnEvent, Evt, InStep, Serving
      <4>2. Evt(q)' = Evt(q)
        BY <2>2, <4>1 DEF Evt
      <4> QED
        BY <2>1, <2>2, <4>2 DEF OwnEvent, Serving, Replied, Excepted, Answered
    <3>2. CASE ~Serving(q)
      BY <2>2, <3>2 DEF OwnEvent, Serving
    <3> QED BY <3>1, <3>2
  <2> QED BY <2>3, <2>4 DEF Consistent
<1>2. \A d \in Events \ {e} : OwnedOrClean(d)'
  <2> SUFFICES ASSUME NEW d \in Events \ {e}
               PROVE  OwnedOrClean(d)'
    OBVIOUS
  <2>1. OwnedOrClean(d) /\ evt'[d] = evt[d]
    BY DEF IInv
  <2>2. CASE evt[d].pooled = "used"
    <3>1. evt[d].http \in Requests \ {r}
      BY <2>1, <2>2, NoneAssumption DEF OwnedOrClean, IInv, TypeOK, EventType
    <3> QED
      BY <2>1, <2>2, <3>1 DEF OwnedOrClean, Serving
  <2>3. CASE evt[d].pooled # "used"
    BY <2>1, <2>3 DEF OwnedOrClean
  <2> QED BY <2>2, <2>3
<1> QED
  BY <1>1, <1>2 DEF IInv, Consistent

\* What a process of r that can still act relies on.
Acting(r) ==
    /\ Consistent(r) /\ Serving(r) /\ lease[r] = "held"
    /\ req[r].http \in {"call", "except", "write", "wait"}
    /\ req[r] \in RequestType
    /\ req[r].evt \in Events
    /\ evt[req[r].evt] \in EventType
    /\ evt[req[r].evt].http = r /\ evt[req[r].evt].pooled = "used"

\* A process of r that can still act has its event, which serves r.
LEMMA Served ==
    ASSUME IInv, NEW r \in Requests,
           \/ req[r].http \notin {"new", "returned"}
           \/ req[r].js \in {"queued", "sync", "pending"}
           \/ req[r].helper \in {"pending", "send", "lost"}
           \/ req[r].writer \in {"start", "copy", "signal"}
           \/ req[r].finisher \notin {"none", "done"}
    PROVE  Acting(r)
<1>1. Consistent(r)
  BY DEF IInv, Consistent
<1>2. req[r] \in RequestType
  BY DEF IInv, TypeOK
<1>3. req[r].http \in {"call", "except", "write", "wait"}
  BY <1>1, <1>2 DEF Consistent, InStep, Processes, Answered, RequestType
<1>4. lease[r] = "held" /\ req[r].evt # None
  BY <1>1, <1>3 DEF Consistent, InStep
<1>5. req[r].evt \in Events
  BY <1>2, <1>4 DEF RequestType
<1>6. evt[req[r].evt] \in EventType
  BY <1>5 DEF IInv, TypeOK
<1>7. Serving(r)
  BY <1>4 DEF Serving
<1> QED
  BY <1>1, <1>2, <1>3, <1>4, <1>5, <1>6, <1>7
     DEF Consistent, OwnEvent, Evt, Acting

\* A step of r on itself and its event.
LEMMA ServedStep ==
    ASSUME IInv, panicked' = panicked, NEW r \in Requests, Serving(r),
           req[r].evt \in Events, evt[req[r].evt].http = r,
           NEW p \in RequestType, NEW v \in EventType,
           p.evt = req[r].evt,
           req' = [req EXCEPT ![r] = p],
           evt' = [evt EXCEPT ![req[r].evt] = v],
           \A q \in Requests \ {r} : lease'[q] = lease[q],
           L!TypeOK',
           Consistent(r)', OwnedOrClean(req[r].evt)'
    PROVE  IInv'
<1>1. TypeOK'
  <2>1. req' \in [Requests -> RequestType] /\ evt' \in [Events -> EventType]
    BY DEF IInv, TypeOK
  <2> QED
    BY <2>1 DEF IInv, TypeOK
<1>2. req'[r] = p /\ \A q \in Requests \ {r} : req'[q] = req[q]
  BY DEF IInv, TypeOK
<1>3. \A d \in Events \ {req[r].evt} : evt'[d] = evt[d]
  BY DEF IInv, TypeOK
<1>4. ~panicked'
  BY DEF IInv
<1> QED
  BY <1>1, <1>2, <1>3, <1>4, Frame

\* Another status line.
LEMMA LinesUp ==
    ASSUME NEW q \in RequestType
    PROVE  q.lines + 1 \in Nat
BY DEF RequestType

\* The goroutine learns how the call of the handler ended.
LEMMA CallReturnsStep ==
    ASSUME IInv, NEW r \in Requests, CallReturns(r)
    PROVE  IInv' /\ Exchanges(r)
<1> DEFINE p == [req[r] EXCEPT !.http = IF req[r].js = "threw" THEN "except" ELSE "wait"]
           v == evt[req[r].evt]
<1>1. Acting(r)
  BY Served DEF CallReturns
<1>2. req[r].http = "call" /\ req[r].js \notin {"queued", "sync"}
  BY <1>1 DEF CallReturns, Move, Acting
<1>3. /\ req' = [req EXCEPT ![r] = p]
      /\ evt' = [evt EXCEPT ![req[r].evt] = v]
      /\ UNCHANGED <<panicked, leaseVars>>
  BY <1>1, <1>2 DEF IInv, TypeOK, Acting, CallReturns, Move, leaseVars
<1>4. p \in RequestType /\ v \in EventType /\ p.evt = req[r].evt
  BY <1>1, <1>2 DEF RequestType, EventType, Acting
<1>5. req'[r] = p /\ evt'[req[r].evt] = v
  BY <1>1, <1>3 DEF IInv, TypeOK, Acting
<1>6. Consistent(r)' /\ OwnedOrClean(req[r].evt)'
  BY <1>1, <1>2, <1>3, <1>4, <1>5
     DEF IInv, TypeOK, L!TypeOK, RequestType, EventType, Acting, Consistent,
         InStep, Processes, OneLine, OwnEvent, OwnedOrClean, Replied, Excepted,
         Answered, Serving, Evt, leaseVars
<1>7. IInv'
  BY <1>1, <1>3, <1>4, <1>6, ServedStep
     DEF IInv, TypeOK, L!TypeOK, L!LeaseState, leaseVars, Acting
<1>8. Exchanges(r)
  BY <1>1, <1>2, <1>3, <1>5
     DEF IInv, TypeOK, RequestType, EventType, Exchanges, Stage, Acting,
         Consistent, Processes, OneLine, OwnEvent, Replied, Excepted, Answered,
         Evt
<1> QED BY <1>7, <1>8

\* Nothing answers a handler that threw, so Exception finds nothing sent.
LEMMA ExceptionChecksStep ==
    ASSUME IInv, NEW r \in Requests, ExceptionChecks(r)
    PROVE  IInv' /\ Exchanges(r)
<1> DEFINE p == [req[r] EXCEPT !.http = "write"]
           v == evt[req[r].evt]
<1>1. Acting(r)
  BY Served DEF ExceptionChecks
<1>2. req[r].http = "except"
  BY <1>1
     DEF ExceptionChecks, Move, Consistent, OwnEvent, Replied, Excepted,
         Processes, Evt, Acting
<1>3. /\ req' = [req EXCEPT ![r] = p]
      /\ evt' = [evt EXCEPT ![req[r].evt] = v]
      /\ UNCHANGED <<panicked, leaseVars>>
  BY <1>1, <1>2
     DEF IInv, TypeOK, Acting, ExceptionChecks, Move, Consistent, OwnEvent,
         Replied, Excepted, Processes, Evt, leaseVars
<1>4. p \in RequestType /\ v \in EventType /\ p.evt = req[r].evt
  BY <1>1, <1>2 DEF RequestType, EventType, Acting
<1>5. req'[r] = p /\ evt'[req[r].evt] = v
  BY <1>1, <1>3 DEF IInv, TypeOK, Acting
<1>6. Consistent(r)' /\ OwnedOrClean(req[r].evt)'
  BY <1>1, <1>2, <1>3, <1>4, <1>5
     DEF IInv, TypeOK, L!TypeOK, RequestType, EventType, Acting, Consistent,
         InStep, Processes, OneLine, OwnEvent, OwnedOrClean, Replied, Excepted,
         Answered, Serving, Evt, leaseVars
<1>7. IInv'
  BY <1>1, <1>3, <1>4, <1>6, ServedStep
     DEF IInv, TypeOK, L!TypeOK, L!LeaseState, leaseVars, Acting
<1>8. Exchanges(r)
  BY <1>1, <1>2, <1>3, <1>5
     DEF IInv, TypeOK, RequestType, EventType, Exchanges, Stage, Acting,
         Consistent, Processes, OneLine, OwnEvent, Replied, Excepted, Answered,
         Evt
<1> QED BY <1>7, <1>8

\* Exception answers and wakes.
LEMMA ExceptionWritesStep ==
    ASSUME IInv, NEW r \in Requests, ExceptionWrites(r)
    PROVE  IInv' /\ Exchanges(r)
<1> DEFINE n == IF req[r].gone THEN req[r].lines ELSE req[r].lines + 1
           p == [req[r] EXCEPT !.http = "wait", !.lines = n]
           v == [evt[req[r].evt] EXCEPT !.responseSent = TRUE, !.requestDone = 1]
<1>1. Acting(r)
  BY Served DEF ExceptionWrites
<1>2. req[r].http = "write"
  BY <1>1 DEF ExceptionWrites, Written, Acting
<1>3. /\ req' = [req EXCEPT ![r] = p]
      /\ evt' = [evt EXCEPT ![req[r].evt] = v]
      /\ UNCHANGED <<panicked, leaseVars>>
  BY <1>1, <1>2 DEF IInv, TypeOK, Acting, ExceptionWrites, Written, leaseVars
<1>4. p \in RequestType /\ v \in EventType /\ p.evt = req[r].evt
  <2>1. n \in Nat
    BY <1>1, LinesUp DEF RequestType, Acting
  <2>2. v \in EventType
    <3>1. evt[req[r].evt] \in EventType /\ 1 \in 0 .. 1
      BY <1>1 DEF Acting
    <3> QED
      BY <3>1, ZenonT(20) DEF EventType
  <2> HIDE DEF n
  <2> QED
    BY <1>1, <2>1, <2>2 DEF RequestType, Acting
<1>5. req'[r] = p /\ evt'[req[r].evt] = v
  BY <1>1, <1>3 DEF IInv, TypeOK, Acting
<1>6. Consistent(r)' /\ OwnedOrClean(req[r].evt)'
  BY <1>1, <1>2, <1>3, <1>4, <1>5
     DEF IInv, TypeOK, L!TypeOK, RequestType, EventType, Acting, Consistent,
         InStep, Processes, OneLine, OwnEvent, OwnedOrClean, Replied, Excepted,
         Answered, Serving, Evt, leaseVars
<1>7. IInv'
  BY <1>1, <1>3, <1>4, <1>6, ServedStep
     DEF IInv, TypeOK, L!TypeOK, L!LeaseState, leaseVars, Acting
<1>8. Exchanges(r)
  BY <1>1, <1>2, <1>3, <1>5
     DEF IInv, TypeOK, RequestType, EventType, Exchanges, Stage, Acting,
         Consistent, Processes, OneLine, OwnEvent, Replied, Excepted, Answered,
         Evt
<1> QED BY <1>7, <1>8

\* The goroutine takes the token that was meant for it.
LEMMA ReturnStep ==
    ASSUME IInv, NEW r \in Requests, Return(r)
    PROVE  IInv' /\ Exchanges(r)
<1> DEFINE p == [req[r] EXCEPT !.http = "returned"]
           v == [evt[req[r].evt] EXCEPT !.requestDone = @ - 1]
<1>1. Acting(r)
  BY Served DEF Return
<1>2. req[r].http = "wait" /\ evt[req[r].evt].requestDone = 1
  BY <1>1 DEF Return, Take, Evt, EventType, L!Return, Acting
<1>3. /\ req' = [req EXCEPT ![r] = p]
      /\ evt' = [evt EXCEPT ![req[r].evt] = v]
      /\ panicked' = panicked /\ holds' = holds /\ lease' = [lease EXCEPT ![r] = "returned"]
  BY <1>1, <1>2
     DEF IInv, TypeOK, Acting, Return, Take, Evt, EventType, L!Return,
         leaseVars
<1>4. p \in RequestType /\ v \in EventType /\ p.evt = req[r].evt
  BY <1>1, <1>2 DEF RequestType, EventType, Acting
<1>5. req'[r] = p /\ evt'[req[r].evt] = v
  BY <1>1, <1>3 DEF IInv, TypeOK, Acting
<1>6. Consistent(r)' /\ OwnedOrClean(req[r].evt)'
  BY <1>1, <1>2, <1>3, <1>4, <1>5
     DEF IInv, TypeOK, L!TypeOK, RequestType, EventType, Acting, Consistent,
         InStep, Processes, OneLine, OwnEvent, OwnedOrClean, Replied, Excepted,
         Answered, Serving, Evt, leaseVars
<1>7. IInv'
  BY <1>1, <1>3, <1>4, <1>6, ServedStep
     DEF IInv, TypeOK, L!TypeOK, L!LeaseState, leaseVars, Acting
<1>8. Exchanges(r)
  BY <1>1, <1>2, <1>3, <1>5
     DEF IInv, TypeOK, RequestType, EventType, Exchanges, Stage, Acting,
         Consistent, Processes, OneLine, OwnEvent, Replied, Excepted, Answered,
         Evt
<1> QED BY <1>7, <1>8

\* The client goes away.
LEMMA DisconnectStep ==
    ASSUME IInv, NEW r \in Requests, Disconnect(r)
    PROVE  IInv' /\ Exchanges(r)
<1> DEFINE p == [req[r] EXCEPT !.gone = TRUE]
           v == evt[req[r].evt]
<1>1. Acting(r)
  BY Served DEF Disconnect
<1>3. /\ req' = [req EXCEPT ![r] = p]
      /\ evt' = [evt EXCEPT ![req[r].evt] = v]
      /\ UNCHANGED <<panicked, leaseVars>>
  BY <1>1 DEF IInv, TypeOK, Acting, Disconnect, Move, leaseVars
<1>4. p \in RequestType /\ v \in EventType /\ p.evt = req[r].evt
  BY <1>1 DEF RequestType, EventType, Acting
<1>5. req'[r] = p /\ evt'[req[r].evt] = v
  BY <1>1, <1>3 DEF IInv, TypeOK, Acting
<1>6. Consistent(r)' /\ OwnedOrClean(req[r].evt)'
  BY <1>1, <1>3, <1>4, <1>5
     DEF IInv, TypeOK, L!TypeOK, RequestType, EventType, Acting, Consistent,
         InStep, Processes, OneLine, OwnEvent, OwnedOrClean, Replied, Excepted,
         Answered, Serving, Evt, leaseVars
<1>7. IInv'
  BY <1>1, <1>3, <1>4, <1>6, ServedStep
     DEF IInv, TypeOK, L!TypeOK, L!LeaseState, leaseVars, Acting
<1>8. Exchanges(r)
  <2>1. /\ p.http = req[r].http /\ p.lines = req[r].lines
        /\ p.writer = req[r].writer /\ p.gone = TRUE
    BY <1>1 DEF Acting, RequestType
  <2>2. Stage(p) = Stage(req[r])
    BY <2>1 DEF Stage
  <2> QED
    BY <1>3, <1>5, <2>1, <2>2 DEF IInv, TypeOK, Exchanges
<1> QED BY <1>7, <1>8

\* The handler starts.
LEMMA StartHandlerStep ==
    ASSUME IInv, NEW r \in Requests, StartHandler(r)
    PROVE  IInv' /\ Exchanges(r)
<1> DEFINE p == [req[r] EXCEPT !.js = "sync"]
           v == evt[req[r].evt]
<1>1. Acting(r)
  BY Served DEF StartHandler
<1>2. req[r].js = "queued"
  BY <1>1 DEF StartHandler, Move, Acting
<1>3. /\ req' = [req EXCEPT ![r] = p]
      /\ evt' = [evt EXCEPT ![req[r].evt] = v]
      /\ UNCHANGED <<panicked, leaseVars>>
  BY <1>1, <1>2 DEF IInv, TypeOK, Acting, StartHandler, Move, leaseVars
<1>4. p \in RequestType /\ v \in EventType /\ p.evt = req[r].evt
  BY <1>1, <1>2 DEF RequestType, EventType, Acting
<1>5. req'[r] = p /\ evt'[req[r].evt] = v
  BY <1>1, <1>3 DEF IInv, TypeOK, Acting
<1>6. Consistent(r)' /\ OwnedOrClean(req[r].evt)'
  BY <1>1, <1>2, <1>3, <1>4, <1>5
     DEF IInv, TypeOK, L!TypeOK, RequestType, EventType, Acting, Consistent,
         InStep, Processes, OneLine, OwnEvent, OwnedOrClean, Replied, Excepted,
         Answered, Serving, Evt, leaseVars
<1>7. IInv'
  BY <1>1, <1>3, <1>4, <1>6, ServedStep
     DEF IInv, TypeOK, L!TypeOK, L!LeaseState, leaseVars, Acting
<1>8. Exchanges(r)
  BY <1>1, <1>2, <1>3, <1>5
     DEF IInv, TypeOK, RequestType, EventType, Exchanges, Stage, Acting,
         Consistent, Processes, OneLine, OwnEvent, Replied, Excepted, Answered,
         Evt
<1> QED BY <1>7, <1>8

\* respondWith is called for the first time.
LEMMA RespondWithStep ==
    ASSUME IInv, NEW r \in Requests, RespondWith(r)
    PROVE  IInv' /\ Exchanges(r)
<1> DEFINE p == [req[r] EXCEPT !.helper = "pending"]
           v == [evt[req[r].evt] EXCEPT !.skipNext = TRUE]
<1>1. Acting(r)
  BY Served DEF RespondWith, Respond, HandlerRuns
<1>2. req[r].js \in {"sync", "pending"} /\ ~evt[req[r].evt].skipNext
  BY <1>1 DEF RespondWith, Respond, HandlerRuns, Evt, Acting
<1>3. /\ req' = [req EXCEPT ![r] = p]
      /\ evt' = [evt EXCEPT ![req[r].evt] = v]
      /\ UNCHANGED <<panicked, leaseVars>>
  BY <1>1, <1>2
     DEF IInv, TypeOK, Acting, RespondWith, Respond, HandlerRuns, Evt,
         leaseVars
<1>4. p \in RequestType /\ v \in EventType /\ p.evt = req[r].evt
  BY <1>1, <1>2 DEF RequestType, EventType, Acting
<1>5. req'[r] = p /\ evt'[req[r].evt] = v
  BY <1>1, <1>3 DEF IInv, TypeOK, Acting
<1>6. Consistent(r)' /\ OwnedOrClean(req[r].evt)'
  BY <1>1, <1>2, <1>3, <1>4, <1>5
     DEF IInv, TypeOK, L!TypeOK, RequestType, EventType, Acting, Consistent,
         InStep, Processes, OneLine, OwnEvent, OwnedOrClean, Replied, Excepted,
         Answered, Serving, Evt, leaseVars
<1>7. IInv'
  BY <1>1, <1>3, <1>4, <1>6, ServedStep
     DEF IInv, TypeOK, L!TypeOK, L!LeaseState, leaseVars, Acting
<1>8. Exchanges(r)
  BY <1>1, <1>2, <1>3, <1>5
     DEF IInv, TypeOK, RequestType, EventType, Exchanges, Stage, Acting,
         Consistent, Processes, OneLine, OwnEvent, Replied, Excepted, Answered,
         Evt
<1> QED BY <1>7, <1>8

\* The handler awaits something.
LEMMA HandlerAwaitsStep ==
    ASSUME IInv, NEW r \in Requests, HandlerAwaits(r)
    PROVE  IInv' /\ Exchanges(r)
<1> DEFINE p == [req[r] EXCEPT !.js = "pending"]
           v == evt[req[r].evt]
<1>1. Acting(r)
  BY Served DEF HandlerAwaits
<1>2. req[r].js = "sync"
  BY <1>1 DEF HandlerAwaits, Move, Acting
<1>3. /\ req' = [req EXCEPT ![r] = p]
      /\ evt' = [evt EXCEPT ![req[r].evt] = v]
      /\ UNCHANGED <<panicked, leaseVars>>
  BY <1>1, <1>2 DEF IInv, TypeOK, Acting, HandlerAwaits, Move, leaseVars
<1>4. p \in RequestType /\ v \in EventType /\ p.evt = req[r].evt
  BY <1>1, <1>2 DEF RequestType, EventType, Acting
<1>5. req'[r] = p /\ evt'[req[r].evt] = v
  BY <1>1, <1>3 DEF IInv, TypeOK, Acting
<1>6. Consistent(r)' /\ OwnedOrClean(req[r].evt)'
  BY <1>1, <1>2, <1>3, <1>4, <1>5
     DEF IInv, TypeOK, L!TypeOK, RequestType, EventType, Acting, Consistent,
         InStep, Processes, OneLine, OwnEvent, OwnedOrClean, Replied, Excepted,
         Answered, Serving, Evt, leaseVars
<1>7. IInv'
  BY <1>1, <1>3, <1>4, <1>6, ServedStep
     DEF IInv, TypeOK, L!TypeOK, L!LeaseState, leaseVars, Acting
<1>8. Exchanges(r)
  BY <1>1, <1>2, <1>3, <1>5
     DEF IInv, TypeOK, RequestType, EventType, Exchanges, Stage, Acting,
         Consistent, Processes, OneLine, OwnEvent, Replied, Excepted, Answered,
         Evt
<1> QED BY <1>7, <1>8

\* A handler throws that has not called respondWith.
LEMMA HandlerThrowsStep ==
    ASSUME ~ThrowAfterRespond, IInv, NEW r \in Requests, HandlerThrows(r)
    PROVE  IInv' /\ Exchanges(r)
<1> DEFINE p == [req[r] EXCEPT !.js = "threw"]
           v == evt[req[r].evt]
<1>1. Acting(r)
  BY Served DEF HandlerThrows, MayThrow
<1>2. req[r].js = "sync" /\ ~evt[req[r].evt].skipNext
  BY <1>1 DEF HandlerThrows, MayThrow, Move, Evt, Acting
<1>3. /\ req' = [req EXCEPT ![r] = p]
      /\ evt' = [evt EXCEPT ![req[r].evt] = v]
      /\ UNCHANGED <<panicked, leaseVars>>
  BY <1>1, <1>2
     DEF IInv, TypeOK, Acting, HandlerThrows, MayThrow, Move, Evt, leaseVars
<1>4. p \in RequestType /\ v \in EventType /\ p.evt = req[r].evt
  BY <1>1, <1>2 DEF RequestType, EventType, Acting
<1>5. req'[r] = p /\ evt'[req[r].evt] = v
  BY <1>1, <1>3 DEF IInv, TypeOK, Acting
<1>6. Consistent(r)' /\ OwnedOrClean(req[r].evt)'
  BY <1>1, <1>2, <1>3, <1>4, <1>5
     DEF IInv, TypeOK, L!TypeOK, RequestType, EventType, Acting, Consistent,
         InStep, Processes, OneLine, OwnEvent, OwnedOrClean, Replied, Excepted,
         Answered, Serving, Evt, leaseVars
<1>7. IInv'
  BY <1>1, <1>3, <1>4, <1>6, ServedStep
     DEF IInv, TypeOK, L!TypeOK, L!LeaseState, leaseVars, Acting
<1>8. Exchanges(r)
  BY <1>1, <1>2, <1>3, <1>5
     DEF IInv, TypeOK, RequestType, EventType, Exchanges, Stage, Acting,
         Consistent, Processes, OneLine, OwnEvent, Replied, Excepted, Answered,
         Evt
<1> QED BY <1>7, <1>8

\* The handler's promise settles: a finisher starts.
LEMMA HandlerSettlesStep ==
    ASSUME IInv, NEW r \in Requests, HandlerSettles(r)
    PROVE  IInv' /\ Exchanges(r)
<1>p. PICK f \in {"resolve", "reject"} :
          req' = [req EXCEPT ![r].js = "settled", ![r].finisher = f]
  BY DEF HandlerSettles, Settled
<1> DEFINE p == [req[r] EXCEPT !.js = "settled", !.finisher = f]
           v == evt[req[r].evt]
<1>1. Acting(r)
  BY Served DEF HandlerSettles, HandlerRuns
<1>2. req[r].js \in {"sync", "pending"}
  BY <1>1 DEF HandlerSettles, HandlerRuns, Settled, Acting
<1>3. /\ req' = [req EXCEPT ![r] = p]
      /\ evt' = [evt EXCEPT ![req[r].evt] = v]
      /\ UNCHANGED <<panicked, leaseVars>>
  BY <1>p, <1>1, <1>2
     DEF IInv, TypeOK, Acting, HandlerSettles, HandlerRuns, Settled, leaseVars
<1>4. p \in RequestType /\ v \in EventType /\ p.evt = req[r].evt
  BY <1>1, <1>2 DEF RequestType, EventType, Acting
<1>5. req'[r] = p /\ evt'[req[r].evt] = v
  BY <1>1, <1>3 DEF IInv, TypeOK, Acting
<1>6. Consistent(r)' /\ OwnedOrClean(req[r].evt)'
  BY <1>1, <1>2, <1>3, <1>4, <1>5
     DEF IInv, TypeOK, L!TypeOK, RequestType, EventType, Acting, Consistent,
         InStep, Processes, OneLine, OwnEvent, OwnedOrClean, Replied, Excepted,
         Answered, Serving, Evt, leaseVars
<1>7. IInv'
  BY <1>1, <1>3, <1>4, <1>6, ServedStep
     DEF IInv, TypeOK, L!TypeOK, L!LeaseState, leaseVars, Acting
<1>8. Exchanges(r)
  BY <1>1, <1>2, <1>3, <1>5
     DEF IInv, TypeOK, RequestType, EventType, Exchanges, Stage, Acting,
         Consistent, Processes, OneLine, OwnEvent, Replied, Excepted, Answered,
         Evt
<1> QED BY <1>7, <1>8

\* The resolver answers 204 by itself.
LEMMA RespondNoContentStep ==
    ASSUME IInv, NEW r \in Requests, RespondNoContent(r)
    PROVE  IInv' /\ Exchanges(r)
<1> DEFINE p == [req[r] EXCEPT !.lines = @ + 1, !.helper = "send"]
           v == [evt[req[r].evt] EXCEPT !.responseSent = TRUE]
<1>1. Acting(r)
  BY Served DEF RespondNoContent, Responds, HelperRuns
<1>2. req[r].helper = "pending"
  BY <1>1
     DEF RespondNoContent, Responds, HelperRuns, Sent, Written, Evt, Acting
<1>3. /\ req' = [req EXCEPT ![r] = p]
      /\ evt' = [evt EXCEPT ![req[r].evt] = v]
      /\ UNCHANGED <<panicked, leaseVars>>
  BY <1>1, <1>2
     DEF IInv, TypeOK, Acting, RespondNoContent, Responds, HelperRuns, Sent,
         Written, Evt, leaseVars
<1>4. p \in RequestType /\ v \in EventType /\ p.evt = req[r].evt
  BY <1>1, <1>2, LinesUp DEF RequestType, EventType, Acting
<1>5. req'[r] = p /\ evt'[req[r].evt] = v
  BY <1>1, <1>3 DEF IInv, TypeOK, Acting
<1>6. Consistent(r)' /\ OwnedOrClean(req[r].evt)'
  BY <1>1, <1>2, <1>3, <1>4, <1>5
     DEF IInv, TypeOK, L!TypeOK, RequestType, EventType, Acting, Consistent,
         InStep, Processes, OneLine, OwnEvent, OwnedOrClean, Replied, Excepted,
         Answered, Serving, Evt, leaseVars
<1>7. IInv'
  BY <1>1, <1>3, <1>4, <1>6, ServedStep
     DEF IInv, TypeOK, L!TypeOK, L!LeaseState, leaseVars, Acting
<1>8. Exchanges(r)
  BY <1>1, <1>2, <1>3, <1>5
     DEF IInv, TypeOK, RequestType, EventType, Exchanges, Stage, Acting,
         Consistent, Processes, OneLine, OwnEvent, Replied, Excepted, Answered,
         Evt
<1> QED BY <1>7, <1>8

\* The resolver hands over to the writer.
LEMMA RespondWithBodyStep ==
    ASSUME IInv, NEW r \in Requests, RespondWithBody(r)
    PROVE  IInv' /\ Exchanges(r)
<1> DEFINE p == [req[r] EXCEPT !.writer = "start", !.target = r, !.helper = "done"]
           v == evt[req[r].evt]
<1>1. Acting(r)
  BY Served DEF RespondWithBody, Responds, HelperRuns
<1>2. req[r].helper = "pending"
  BY <1>1 DEF RespondWithBody, Responds, HelperRuns, Evt, Acting
<1>3. /\ req' = [req EXCEPT ![r] = p]
      /\ evt' = [evt EXCEPT ![req[r].evt] = v]
      /\ UNCHANGED <<panicked, leaseVars>>
  BY <1>1, <1>2
     DEF IInv, TypeOK, Acting, RespondWithBody, Responds, HelperRuns, Evt,
         leaseVars
<1>4. p \in RequestType /\ v \in EventType /\ p.evt = req[r].evt
  BY <1>1, <1>2 DEF RequestType, EventType, Acting
<1>5. req'[r] = p /\ evt'[req[r].evt] = v
  BY <1>1, <1>3 DEF IInv, TypeOK, Acting
<1>6. Consistent(r)' /\ OwnedOrClean(req[r].evt)'
  BY <1>1, <1>2, <1>3, <1>4, <1>5
     DEF IInv, TypeOK, L!TypeOK, RequestType, EventType, Acting, Consistent,
         InStep, Processes, OneLine, OwnEvent, OwnedOrClean, Replied, Excepted,
         Answered, Serving, Evt, leaseVars
<1>7. IInv'
  BY <1>1, <1>3, <1>4, <1>6, ServedStep
     DEF IInv, TypeOK, L!TypeOK, L!LeaseState, leaseVars, Acting
<1>8. Exchanges(r)
  BY <1>1, <1>2, <1>3, <1>5
     DEF IInv, TypeOK, RequestType, EventType, Exchanges, Stage, Acting,
         Consistent, Processes, OneLine, OwnEvent, Replied, Excepted, Answered,
         Evt
<1> QED BY <1>7, <1>8

\* The loop sends the token of the response.
LEMMA LoopSendsStep ==
    ASSUME IInv, NEW r \in Requests, LoopSends(r)
    PROVE  IInv' /\ Exchanges(r)
<1> DEFINE p == [req[r] EXCEPT !.helper = "done"]
           v == [evt[req[r].evt] EXCEPT !.responseDone = 1]
<1>1. Acting(r)
  BY Served DEF LoopSends
<1>2. req[r].helper = "send"
  BY <1>1 DEF LoopSends, Send, Acting
<1>3. /\ req' = [req EXCEPT ![r] = p]
      /\ evt' = [evt EXCEPT ![req[r].evt] = v]
      /\ UNCHANGED <<panicked, leaseVars>>
  BY <1>1, <1>2 DEF IInv, TypeOK, Acting, LoopSends, Send, leaseVars
<1>4. p \in RequestType /\ v \in EventType /\ p.evt = req[r].evt
  BY <1>1, <1>2 DEF RequestType, EventType, Acting
<1>5. req'[r] = p /\ evt'[req[r].evt] = v
  BY <1>1, <1>3 DEF IInv, TypeOK, Acting
<1>6. Consistent(r)' /\ OwnedOrClean(req[r].evt)'
  BY <1>1, <1>2, <1>3, <1>4, <1>5
     DEF IInv, TypeOK, L!TypeOK, RequestType, EventType, Acting, Consistent,
         InStep, Processes, OneLine, OwnEvent, OwnedOrClean, Replied, Excepted,
         Answered, Serving, Evt, leaseVars
<1>7. IInv'
  BY <1>1, <1>3, <1>4, <1>6, ServedStep
     DEF IInv, TypeOK, L!TypeOK, L!LeaseState, leaseVars, Acting
<1>8. Exchanges(r)
  BY <1>1, <1>2, <1>3, <1>5
     DEF IInv, TypeOK, RequestType, EventType, Exchanges, Stage, Acting,
         Consistent, Processes, OneLine, OwnEvent, Replied, Excepted, Answered,
         Evt
<1> QED BY <1>7, <1>8

\* The writer writes the status line.
LEMMA WriterStartsStep ==
    ASSUME IInv, NEW r \in Requests, WriterStarts(r)
    PROVE  IInv' /\ Exchanges(r)
<1> DEFINE p == [req[r] EXCEPT !.lines = @ + 1, !.writer = "copy"]
           v == [evt[req[r].evt] EXCEPT !.responseSent = TRUE]
<1>1. Acting(r)
  BY Served DEF WriterStarts
<1>2. req[r].writer = "start"
  BY <1>1 DEF WriterStarts, Sent, Written, Consistent, Processes, Acting
<1>3. /\ req' = [req EXCEPT ![r] = p]
      /\ evt' = [evt EXCEPT ![req[r].evt] = v]
      /\ UNCHANGED <<panicked, leaseVars>>
  BY <1>1, <1>2
     DEF IInv, TypeOK, Acting, WriterStarts, Sent, Written, Consistent,
         Processes, leaseVars
<1>4. p \in RequestType /\ v \in EventType /\ p.evt = req[r].evt
  BY <1>1, <1>2, LinesUp DEF RequestType, EventType, Acting
<1>5. req'[r] = p /\ evt'[req[r].evt] = v
  BY <1>1, <1>3 DEF IInv, TypeOK, Acting
<1>6. Consistent(r)' /\ OwnedOrClean(req[r].evt)'
  BY <1>1, <1>2, <1>3, <1>4, <1>5
     DEF IInv, TypeOK, L!TypeOK, RequestType, EventType, Acting, Consistent,
         InStep, Processes, OneLine, OwnEvent, OwnedOrClean, Replied, Excepted,
         Answered, Serving, Evt, leaseVars
<1>7. IInv'
  BY <1>1, <1>3, <1>4, <1>6, ServedStep
     DEF IInv, TypeOK, L!TypeOK, L!LeaseState, leaseVars, Acting
<1>8. Exchanges(r)
  BY <1>1, <1>2, <1>3, <1>5
     DEF IInv, TypeOK, RequestType, EventType, Exchanges, Stage, Acting,
         Consistent, Processes, OneLine, OwnEvent, Replied, Excepted, Answered,
         Evt
<1> QED BY <1>7, <1>8

\* The writer has copied the body.
LEMMA WriterCopiesStep ==
    ASSUME IInv, NEW r \in Requests, WriterCopies(r)
    PROVE  IInv' /\ Exchanges(r)
<1> DEFINE p == [req[r] EXCEPT !.writer = "signal"]
           v == evt[req[r].evt]
<1>1. Acting(r)
  BY Served DEF WriterCopies
<1>2. req[r].writer = "copy"
  BY <1>1 DEF WriterCopies, Move, Acting
<1>3. /\ req' = [req EXCEPT ![r] = p]
      /\ evt' = [evt EXCEPT ![req[r].evt] = v]
      /\ UNCHANGED <<panicked, leaseVars>>
  BY <1>1, <1>2 DEF IInv, TypeOK, Acting, WriterCopies, Move, leaseVars
<1>4. p \in RequestType /\ v \in EventType /\ p.evt = req[r].evt
  BY <1>1, <1>2 DEF RequestType, EventType, Acting
<1>5. req'[r] = p /\ evt'[req[r].evt] = v
  BY <1>1, <1>3 DEF IInv, TypeOK, Acting
<1>6. Consistent(r)' /\ OwnedOrClean(req[r].evt)'
  BY <1>1, <1>2, <1>3, <1>4, <1>5
     DEF IInv, TypeOK, L!TypeOK, RequestType, EventType, Acting, Consistent,
         InStep, Processes, OneLine, OwnEvent, OwnedOrClean, Replied, Excepted,
         Answered, Serving, Evt, leaseVars
<1>7. IInv'
  BY <1>1, <1>3, <1>4, <1>6, ServedStep
     DEF IInv, TypeOK, L!TypeOK, L!LeaseState, leaseVars, Acting
<1>8. Exchanges(r)
  BY <1>1, <1>2, <1>3, <1>5
     DEF IInv, TypeOK, RequestType, EventType, Exchanges, Stage, Acting,
         Consistent, Processes, OneLine, OwnEvent, Replied, Excepted, Answered,
         Evt
<1> QED BY <1>7, <1>8

\* The writer sends the token of the response.
LEMMA WriterSignalsStep ==
    ASSUME IInv, NEW r \in Requests, WriterSignals(r)
    PROVE  IInv' /\ Exchanges(r)
<1> DEFINE p == [req[r] EXCEPT !.writer = "done"]
           v == [evt[req[r].evt] EXCEPT !.responseDone = 1]
<1>1. Acting(r)
  BY Served DEF WriterSignals
<1>2. req[r].writer = "signal"
  BY <1>1 DEF WriterSignals, Send, Acting
<1>3. /\ req' = [req EXCEPT ![r] = p]
      /\ evt' = [evt EXCEPT ![req[r].evt] = v]
      /\ UNCHANGED <<panicked, leaseVars>>
  BY <1>1, <1>2 DEF IInv, TypeOK, Acting, WriterSignals, Send, leaseVars
<1>4. p \in RequestType /\ v \in EventType /\ p.evt = req[r].evt
  BY <1>1, <1>2 DEF RequestType, EventType, Acting
<1>5. req'[r] = p /\ evt'[req[r].evt] = v
  BY <1>1, <1>3 DEF IInv, TypeOK, Acting
<1>6. Consistent(r)' /\ OwnedOrClean(req[r].evt)'
  BY <1>1, <1>2, <1>3, <1>4, <1>5
     DEF IInv, TypeOK, L!TypeOK, RequestType, EventType, Acting, Consistent,
         InStep, Processes, OneLine, OwnEvent, OwnedOrClean, Replied, Excepted,
         Answered, Serving, Evt, leaseVars
<1>7. IInv'
  BY <1>1, <1>3, <1>4, <1>6, ServedStep
     DEF IInv, TypeOK, L!TypeOK, L!LeaseState, leaseVars, Acting
<1>8. Exchanges(r)
  BY <1>1, <1>2, <1>3, <1>5
     DEF IInv, TypeOK, RequestType, EventType, Exchanges, Stage, Acting,
         Consistent, Processes, OneLine, OwnEvent, Replied, Excepted, Answered,
         Evt
<1> QED BY <1>7, <1>8

\* The finisher takes the token of the response.
LEMMA FinisherReceivesStep ==
    ASSUME IInv, NEW r \in Requests, FinisherReceives(r)
    PROVE  IInv' /\ Exchanges(r)
<1> DEFINE p == [req[r] EXCEPT !.finisher = IF @ = "awaitOk" THEN "wake" ELSE "check"]
           v == [evt[req[r].evt] EXCEPT !.responseDone = @ - 1]
<1>1. Acting(r)
  BY Served DEF FinisherReceives
<1>2. req[r].finisher \in {"awaitOk", "awaitErr"} /\ evt[req[r].evt].responseDone = 1
  BY <1>1 DEF FinisherReceives, Take, Evt, EventType, Acting
<1>3. /\ req' = [req EXCEPT ![r] = p]
      /\ evt' = [evt EXCEPT ![req[r].evt] = v]
      /\ UNCHANGED <<panicked, leaseVars>>
  BY <1>1, <1>2
     DEF IInv, TypeOK, Acting, FinisherReceives, Take, Evt, EventType,
         leaseVars
<1>4. p \in RequestType /\ v \in EventType /\ p.evt = req[r].evt
  BY <1>1, <1>2 DEF RequestType, EventType, Acting
<1>5. req'[r] = p /\ evt'[req[r].evt] = v
  BY <1>1, <1>3 DEF IInv, TypeOK, Acting
<1>6. Consistent(r)' /\ OwnedOrClean(req[r].evt)'
  BY <1>1, <1>2, <1>3, <1>4, <1>5
     DEF IInv, TypeOK, L!TypeOK, RequestType, EventType, Acting, Consistent,
         InStep, Processes, OneLine, OwnEvent, OwnedOrClean, Replied, Excepted,
         Answered, Serving, Evt, leaseVars
<1>7. IInv'
  BY <1>1, <1>3, <1>4, <1>6, ServedStep
     DEF IInv, TypeOK, L!TypeOK, L!LeaseState, leaseVars, Acting
<1>8. Exchanges(r)
  BY <1>1, <1>2, <1>3, <1>5
     DEF IInv, TypeOK, RequestType, EventType, Exchanges, Stage, Acting,
         Consistent, Processes, OneLine, OwnEvent, Replied, Excepted, Answered,
         Evt
<1> QED BY <1>7, <1>8

\* The next handler answers.
LEMMA FinisherServesNextStep ==
    ASSUME IInv, NEW r \in Requests, FinisherServesNext(r)
    PROVE  IInv' /\ Exchanges(r)
<1> DEFINE p == [req[r] EXCEPT !.lines = @ + 1, !.finisher = "wake"]
           v == evt[req[r].evt]
<1>1. Acting(r)
  BY Served DEF FinisherServesNext
<1>2. req[r].finisher = "next"
  BY <1>1 DEF FinisherServesNext, Written, Acting
<1>3. /\ req' = [req EXCEPT ![r] = p]
      /\ evt' = [evt EXCEPT ![req[r].evt] = v]
      /\ UNCHANGED <<panicked, leaseVars>>
  BY <1>1, <1>2
     DEF IInv, TypeOK, Acting, FinisherServesNext, Written, leaseVars
<1>4. p \in RequestType /\ v \in EventType /\ p.evt = req[r].evt
  BY <1>1, <1>2, LinesUp DEF RequestType, EventType, Acting
<1>5. req'[r] = p /\ evt'[req[r].evt] = v
  BY <1>1, <1>3 DEF IInv, TypeOK, Acting
<1>6. Consistent(r)' /\ OwnedOrClean(req[r].evt)'
  BY <1>1, <1>2, <1>3, <1>4, <1>5
     DEF IInv, TypeOK, L!TypeOK, RequestType, EventType, Acting, Consistent,
         InStep, Processes, OneLine, OwnEvent, OwnedOrClean, Replied, Excepted,
         Answered, Serving, Evt, leaseVars
<1>7. IInv'
  BY <1>1, <1>3, <1>4, <1>6, ServedStep
     DEF IInv, TypeOK, L!TypeOK, L!LeaseState, leaseVars, Acting
<1>8. Exchanges(r)
  BY <1>1, <1>2, <1>3, <1>5
     DEF IInv, TypeOK, RequestType, EventType, Exchanges, Stage, Acting,
         Consistent, Processes, OneLine, OwnEvent, Replied, Excepted, Answered,
         Evt
<1> QED BY <1>7, <1>8

\* The finisher wakes the request.
LEMMA FinisherWakesStep ==
    ASSUME IInv, NEW r \in Requests, FinisherWakes(r)
    PROVE  IInv' /\ Exchanges(r)
<1> DEFINE p == [req[r] EXCEPT !.finisher = "done"]
           v == [evt[req[r].evt] EXCEPT !.requestDone = 1]
<1>1. Acting(r)
  BY Served DEF FinisherWakes
<1>2. req[r].finisher = "wake"
  BY <1>1 DEF FinisherWakes, Send, Acting
<1>3. /\ req' = [req EXCEPT ![r] = p]
      /\ evt' = [evt EXCEPT ![req[r].evt] = v]
      /\ UNCHANGED <<panicked, leaseVars>>
  BY <1>1, <1>2 DEF IInv, TypeOK, Acting, FinisherWakes, Send, leaseVars
<1>4. p \in RequestType /\ v \in EventType /\ p.evt = req[r].evt
  BY <1>1, <1>2 DEF RequestType, EventType, Acting
<1>5. req'[r] = p /\ evt'[req[r].evt] = v
  BY <1>1, <1>3 DEF IInv, TypeOK, Acting
<1>6. Consistent(r)' /\ OwnedOrClean(req[r].evt)'
  BY <1>1, <1>2, <1>3, <1>4, <1>5
     DEF IInv, TypeOK, L!TypeOK, RequestType, EventType, Acting, Consistent,
         InStep, Processes, OneLine, OwnEvent, OwnedOrClean, Replied, Excepted,
         Answered, Serving, Evt, leaseVars
<1>7. IInv'
  BY <1>1, <1>3, <1>4, <1>6, ServedStep
     DEF IInv, TypeOK, L!TypeOK, L!LeaseState, leaseVars, Acting
<1>8. Exchanges(r)
  BY <1>1, <1>2, <1>3, <1>5
     DEF IInv, TypeOK, RequestType, EventType, Exchanges, Stage, Acting,
         Consistent, Processes, OneLine, OwnEvent, Replied, Excepted, Answered,
         Evt
<1> QED BY <1>7, <1>8

\* The rejector answers 500, with or without a token to follow.
LEMMA RespondRejectedStep ==
    ASSUME IInv, NEW r \in Requests, RespondRejected(r)
    PROVE  IInv' /\ Exchanges(r)
<1> DEFINE p(h) == [req[r] EXCEPT !.lines = @ + 1, !.helper = h]
           v(h) == [evt[req[r].evt] EXCEPT !.responseSent =
                       IF h = "send" THEN TRUE ELSE @]
<1>1. Acting(r)
  BY Served DEF RespondRejected, Responds, HelperRuns
<1>2. req[r].helper = "pending"
  BY DEF RespondRejected, Responds, HelperRuns
<1>3. PICK h \in {"send", "lost"} :
          /\ req' = [req EXCEPT ![r] = p(h)]
          /\ evt' = [evt EXCEPT ![req[r].evt] = v(h)]
          /\ UNCHANGED <<panicked, leaseVars>>
  <2>1. Evt(r).http = r
    BY <1>1 DEF Acting, Evt
  <2>2. ASSUME Sent(r, [Written(r) EXCEPT ![r].helper = "send"])
        PROVE  /\ req' = [req EXCEPT ![r] = p("send")]
               /\ evt' = [evt EXCEPT ![req[r].evt] = v("send")]
               /\ UNCHANGED <<panicked, leaseVars>>
    BY <1>1, <2>2 DEF IInv, TypeOK, Acting, Sent, Written, leaseVars
  <2>3. ASSUME req' = [Written(r) EXCEPT ![r].helper = "lost"],
               UNCHANGED <<evt, panicked, leaseVars>>
        PROVE  /\ req' = [req EXCEPT ![r] = p("lost")]
               /\ evt' = [evt EXCEPT ![req[r].evt] = v("lost")]
               /\ UNCHANGED <<panicked, leaseVars>>
    BY <1>1, <2>3 DEF IInv, TypeOK, Acting, EventType, Written, leaseVars
  <2> QED
    BY <2>1, <2>2, <2>3 DEF RespondRejected
<1>4. p(h) \in RequestType /\ v(h) \in EventType /\ p(h).evt = req[r].evt
  BY <1>1, <1>2, LinesUp DEF RequestType, EventType, Acting
<1>5. req'[r] = p(h) /\ evt'[req[r].evt] = v(h)
  BY <1>1, <1>3 DEF IInv, TypeOK, Acting
<1>6. Consistent(r)' /\ OwnedOrClean(req[r].evt)'
  BY <1>1, <1>2, <1>3, <1>4, <1>5
     DEF IInv, TypeOK, L!TypeOK, RequestType, EventType, Acting, Consistent,
         InStep, Processes, OneLine, OwnEvent, OwnedOrClean, Replied, Excepted,
         Answered, Serving, Evt, leaseVars
<1>7. IInv'
  BY <1>1, <1>3, <1>4, <1>6, ServedStep
     DEF IInv, TypeOK, L!TypeOK, L!LeaseState, leaseVars, Acting
<1>8. Exchanges(r)
  BY <1>1, <1>2, <1>3, <1>5
     DEF IInv, TypeOK, RequestType, EventType, Exchanges, Stage, Acting,
         Consistent, Processes, OneLine, OwnEvent, Replied, Excepted, Answered,
         Evt
<1> QED BY <1>7, <1>8

\* The finisher waits for the response that was promised, or lets the next
\* handler or the rejector answer.
LEMMA FinisherStartsStep ==
    ASSUME IInv, NEW r \in Requests, FinisherStarts(r)
    PROVE  IInv' /\ Exchanges(r)
<1> DEFINE skip == evt[req[r].evt].skipNext
           ok == req[r].finisher = "resolve"
           f == IF ok THEN IF skip THEN "awaitOk" ELSE "next"
                      ELSE IF skip THEN "awaitErr" ELSE "check"
           p == [req[r] EXCEPT !.finisher = f]
           v == [evt[req[r].evt] EXCEPT !.responseSent =
                    IF ok /\ ~skip THEN TRUE ELSE @]
<1>1. Acting(r)
  BY Served DEF FinisherStarts
<1>2. req[r].finisher \in {"resolve", "reject"}
  BY DEF FinisherStarts
<1>3. /\ req' = [req EXCEPT ![r] = p]
      /\ evt' = [evt EXCEPT ![req[r].evt] = v]
      /\ UNCHANGED <<panicked, leaseVars>>
  <2>1. CASE ok /\ ~skip
    BY <1>1, <1>2, <2>1
       DEF IInv, TypeOK, Acting, FinisherStarts, Sent, Evt, leaseVars
  <2>2. CASE ~(ok /\ ~skip)
    <3>1. v = evt[req[r].evt]
      BY <1>1, <2>2 DEF Acting, EventType
    <3>2. req' = [req EXCEPT ![r] = p] /\ UNCHANGED <<evt, panicked, leaseVars>>
      BY <1>1, <1>2, <2>2
         DEF IInv, TypeOK, Acting, FinisherStarts, Move, Evt, leaseVars
    <3> QED
      BY <1>1, <3>1, <3>2 DEF IInv, TypeOK, Acting
  <2> QED
    BY <2>1, <2>2
<1>4. p \in RequestType /\ v \in EventType /\ p.evt = req[r].evt
  <2>1. f \in {"awaitOk", "next", "awaitErr", "check"}
    OBVIOUS
  <2>2. v \in EventType
    BY <1>1 DEF EventType, Acting
  <2> HIDE DEF f
  <2> QED
    BY <1>1, <2>1, <2>2 DEF RequestType, Acting
<1>5. req'[r] = p /\ evt'[req[r].evt] = v
  BY <1>1, <1>3 DEF IInv, TypeOK, Acting
<1>6. Consistent(r)' /\ OwnedOrClean(req[r].evt)'
  <2>1. /\ p.http = req[r].http /\ p.js = req[r].js /\ p.helper = req[r].helper
        /\ p.writer = req[r].writer /\ p.target = req[r].target
        /\ p.lines = req[r].lines /\ p.gone = req[r].gone /\ p.finisher = f
    BY <1>1 DEF Acting, RequestType
  <2>2. /\ v.pooled = "used" /\ v.http = r /\ v.skipNext = skip
        /\ v.requestDone = evt[req[r].evt].requestDone
        /\ v.responseDone = evt[req[r].evt].responseDone
    BY <1>1 DEF Acting, EventType
  <2>3. \/ /\ f \in {"awaitOk", "awaitErr"} /\ skip
           /\ v.responseSent = evt[req[r].evt].responseSent
        \/ f = "next" /\ ~skip /\ v.responseSent = TRUE
        \/ /\ f = "check" /\ ~skip
           /\ v.responseSent = evt[req[r].evt].responseSent
    BY <1>1, <1>2 DEF Acting, EventType
  <2>4. Evt(r)' = v /\ Evt(r) = evt[req[r].evt] /\ lease' = lease
    BY <1>3, <1>4, <1>5 DEF Evt, leaseVars
  <2> HIDE DEF p, v, f
  <2>5. InStep(r)' /\ Processes(r)' /\ OneLine(r)'
    BY <1>1, <1>2, <1>4, <1>5, <2>1, <2>3, <2>4
       DEF Acting, Consistent, InStep, Processes, OneLine, OwnEvent, Replied,
           Excepted, Answered
  <2>6. OwnEvent(r)'
    BY <1>1, <1>2, <1>5, <2>1, <2>2, <2>3, <2>4
       DEF Acting, Consistent, Processes, OwnEvent, Replied, Excepted, Answered
  <2>7. OwnedOrClean(req[r].evt)'
    BY <1>1, <1>4, <1>5, <2>2, <2>4, NoneAssumption
       DEF Acting, OwnedOrClean, Serving
  <2> QED
    BY <2>5, <2>6, <2>7 DEF Consistent
<1>7. IInv'
  BY <1>1, <1>3, <1>4, <1>6, ServedStep
     DEF IInv, TypeOK, L!TypeOK, L!LeaseState, leaseVars, Acting
<1>8. Exchanges(r)
  BY <1>1, <1>2, <1>3, <1>5
     DEF IInv, TypeOK, RequestType, EventType, Exchanges, Stage, Acting,
         Consistent, Processes, OneLine, OwnEvent, Replied, Excepted, Answered,
         Evt
<1> QED BY <1>7, <1>8

\* The rejector answers 500 itself if nothing was sent.
LEMMA FinisherChecksStep ==
    ASSUME IInv, NEW r \in Requests, FinisherChecks(r)
    PROVE  IInv' /\ Exchanges(r)
<1> DEFINE sent == evt[req[r].evt].responseSent
           n == IF sent THEN req[r].lines ELSE req[r].lines + 1
           p == [req[r] EXCEPT !.finisher = "wake", !.lines = n]
           v == IF sent THEN evt[req[r].evt]
                        ELSE [evt[req[r].evt] EXCEPT !.responseSent = TRUE]
<1>1. Acting(r)
  BY Served DEF FinisherChecks
<1>2. req[r].finisher = "check"
  BY DEF FinisherChecks
<1>3. /\ req' = [req EXCEPT ![r] = p]
      /\ evt' = [evt EXCEPT ![req[r].evt] = v]
      /\ UNCHANGED <<panicked, leaseVars>>
  <2>1. CASE sent
    <3>1. v = evt[req[r].evt]
      BY <2>1
    <3>2. p = [req[r] EXCEPT !.finisher = "wake"]
      BY <1>1, <2>1 DEF Acting, RequestType
    <3>3. req' = [req EXCEPT ![r] = p] /\ UNCHANGED <<evt, panicked, leaseVars>>
      BY <1>1, <2>1, <3>2
         DEF IInv, TypeOK, Acting, FinisherChecks, Move, Evt, leaseVars
    <3> QED
      BY <1>1, <3>1, <3>3 DEF IInv, TypeOK, Acting
  <2>2. CASE ~sent
    BY <1>1, <2>2
       DEF IInv, TypeOK, Acting, FinisherChecks, Sent, Written, Evt, leaseVars
  <2> QED
    BY <2>1, <2>2
<1>4. p \in RequestType /\ v \in EventType /\ p.evt = req[r].evt
  <2>1. n \in Nat
    BY <1>1, LinesUp DEF RequestType, Acting
  <2>2. v \in EventType
    BY <1>1 DEF EventType, Acting
  <2> HIDE DEF n
  <2> QED
    BY <1>1, <2>1, <2>2 DEF RequestType, Acting
<1>5. req'[r] = p /\ evt'[req[r].evt] = v
  BY <1>1, <1>3 DEF IInv, TypeOK, Acting
<1>6. Consistent(r)' /\ OwnedOrClean(req[r].evt)'
  <2>1. /\ p.http = req[r].http /\ p.js = req[r].js /\ p.helper = req[r].helper
        /\ p.writer = req[r].writer /\ p.target = req[r].target
        /\ p.lines = n /\ p.gone = req[r].gone /\ p.finisher = "wake"
    BY <1>1 DEF Acting, RequestType
  <2>2. /\ v.pooled = "used" /\ v.http = r
        /\ v.skipNext = evt[req[r].evt].skipNext /\ v.responseSent = TRUE
        /\ v.requestDone = evt[req[r].evt].requestDone
        /\ v.responseDone = evt[req[r].evt].responseDone
    BY <1>1 DEF Acting, EventType
  <2>3. Evt(r)' = v /\ Evt(r) = evt[req[r].evt] /\ lease' = lease
    BY <1>3, <1>4, <1>5 DEF Evt, leaseVars
  <2>4. n = 1
    BY <1>1, <1>2, <2>3
       DEF Acting, Consistent, Processes, OneLine, OwnEvent, Replied, Excepted,
           Answered
  <2> HIDE DEF p, v, n
  <2>5. InStep(r)' /\ Processes(r)' /\ OneLine(r)'
    BY <1>1, <1>2, <1>4, <1>5, <2>1, <2>3, <2>4
       DEF Acting, Consistent, InStep, Processes, OneLine, Replied, Excepted,
           Answered
  <2>6. OwnEvent(r)'
    BY <1>1, <1>2, <1>5, <2>1, <2>2, <2>3
       DEF Acting, Consistent, Processes, OwnEvent, Replied, Excepted, Answered
  <2>7. OwnedOrClean(req[r].evt)'
    BY <1>1, <1>4, <1>5, <2>2, <2>3, NoneAssumption
       DEF Acting, OwnedOrClean, Serving
  <2> QED
    BY <2>5, <2>6, <2>7 DEF Consistent
<1>7. IInv'
  BY <1>1, <1>3, <1>4, <1>6, ServedStep
     DEF IInv, TypeOK, L!TypeOK, L!LeaseState, leaseVars, Acting
<1>8. Exchanges(r)
  BY <1>1, <1>2, <1>3, <1>5
     DEF IInv, TypeOK, RequestType, EventType, Exchanges, Stage, Acting,
         Consistent, Processes, OneLine, OwnEvent, Replied, Excepted, Answered,
         Evt
<1> QED BY <1>7, <1>8

-----------------------------------------------------------------------------
(* The beginning and the end of a request, and its extensions. *)

\* handleAsEvent takes an event that serves nobody, as good as new.
LEMMA BeginStep ==
    ASSUME IInv, NEW r \in Requests, NEW e \in Events, Begin(r, e)
    PROVE  IInv' /\ Exchanges(r)
<1> DEFINE p == [req[r] EXCEPT !.http = "call", !.evt = e, !.js = "queued"]
           v == [evt[e] EXCEPT !.pooled = "used", !.http = r]
<1>1. /\ Consistent(r) /\ OwnedOrClean(e)
      /\ req[r] \in RequestType /\ evt[e] \in EventType
      /\ r # None
  BY NoneAssumption DEF IInv, TypeOK, Consistent
<1>2. /\ req[r].http = "new" /\ req[r].evt = None /\ req[r].js = "idle"
      /\ evt[e].pooled # "used" /\ evt[e].http = None
  BY <1>1 DEF Begin, PoolGet, Consistent, InStep, OwnedOrClean
<1>3. /\ req' = [req EXCEPT ![r] = p]
      /\ evt' = [evt EXCEPT ![e] = v]
      /\ panicked' = panicked /\ holds' = holds
      /\ lease' = [lease EXCEPT ![r] = "held"]
  BY DEF IInv, TypeOK, Begin, L!Grant
<1>4. p \in RequestType /\ v \in EventType
  BY <1>1 DEF RequestType, EventType
<1>5. req'[r] = p /\ evt'[e] = v /\ lease'[r] = "held"
  BY <1>3 DEF IInv, TypeOK, L!TypeOK
<1>6. TypeOK'
  <2>1. req' \in [Requests -> RequestType] /\ evt' \in [Events -> EventType]
    BY <1>3, <1>4 DEF IInv, TypeOK
  <2>2. L!TypeOK'
    BY <1>3 DEF IInv, TypeOK, L!TypeOK, L!LeaseState
  <2> QED
    BY <1>3, <2>1, <2>2 DEF IInv, TypeOK
<1>7. Consistent(r)' /\ OwnedOrClean(e)'
  <2>1. InStep(r)' /\ Processes(r)' /\ OneLine(r)'
    BY <1>1, <1>2, <1>5, NoneAssumption
       DEF RequestType, Consistent, InStep, Processes, OneLine, Replied,
           Excepted, Answered
  <2>2. /\ evt'[e].pooled = "used" /\ evt'[e].http = r
        /\ ~evt'[e].skipNext /\ ~evt'[e].responseSent
        /\ evt'[e].requestDone = 0 /\ evt'[e].responseDone = 0
    BY <1>1, <1>2, <1>5 DEF EventType, OwnedOrClean
  <2>3. /\ req'[r].evt = e /\ req'[r].http = "call" /\ req'[r].js = "queued"
        /\ req'[r].helper = "none" /\ req'[r].finisher = "none"
    BY <1>1, <1>2, <1>5 DEF RequestType, Consistent, Processes
  <2>4. OwnEvent(r)'
    BY <2>2, <2>3 DEF OwnEvent, Replied, Excepted, Answered, Evt
  <2>5. OwnedOrClean(e)'
    BY <1>1, <1>5, <2>2, <2>3 DEF OwnedOrClean, Serving
  <2> QED
    BY <2>1, <2>4, <2>5 DEF Consistent
<1>8. IInv'
  <2>1. /\ ~panicked' /\ req'[r].evt = e
        /\ \A q \in Requests \ {r} : req'[q] = req[q] /\ lease'[q] = lease[q]
        /\ \A d \in Events \ {e} : evt'[d] = evt[d]
    BY <1>1, <1>3, <1>5 DEF IInv, TypeOK, L!TypeOK, RequestType
  <2> QED
    BY <1>2, <1>6, <1>7, <2>1, Frame
<1>9. Exchanges(r)
  BY <1>1, <1>2, <1>3, <1>5
     DEF IInv, TypeOK, RequestType, Exchanges, Stage, Consistent, Processes,
         OneLine, Replied, Excepted
<1> QED BY <1>8, <1>9

\* Cleanup gives the event back; nothing of the request is left that could
\* write to it, so it is as good as new.
LEMMA ResetEventStep ==
    ASSUME IInv, NEW r \in Requests, ResetEvent(r)
    PROVE  IInv' /\ Exchanges(r)
<1> DEFINE e == req[r].evt
           v == [evt[e] EXCEPT !.pooled = "pooled", !.http = None,
                               !.skipNext = FALSE, !.responseSent = FALSE]
<1>1. /\ Consistent(r) /\ Serving(r) /\ lease[r] = "returned"
      /\ req[r] \in RequestType /\ req[r].http = "returned"
  <2>1. lease[r] = "returned" /\ Consistent(r) /\ req[r] \in RequestType
    BY DEF IInv, TypeOK, Consistent, ResetEvent, L!Reclaim
  <2> QED
    BY <2>1 DEF Consistent, InStep, Serving, RequestType
<1>2. /\ e \in Events /\ evt[e] \in EventType /\ evt[e].http = r
      /\ evt[e].requestDone = 0 /\ evt[e].responseDone = 0
  <2>1. e \in Events
    BY <1>1 DEF Consistent, InStep, RequestType
  <2>2. evt[e] \in EventType
    BY <2>1 DEF IInv, TypeOK
  <2> QED
    BY <1>1, <2>1, <2>2
       DEF Consistent, InStep, OwnEvent, Processes, Excepted, Answered, Evt,
           EventType
<1>3. /\ evt' = [evt EXCEPT ![e] = v]
      /\ panicked' = panicked /\ req' = req /\ holds' = holds
      /\ lease' = [lease EXCEPT ![r] = "reclaimed"]
  BY DEF ResetEvent, L!Reclaim
<1>4. v \in EventType
  BY <1>2 DEF EventType
<1>5. evt'[e] = v /\ lease'[r] = "reclaimed"
  BY <1>2, <1>3 DEF IInv, TypeOK, L!TypeOK
<1>6. TypeOK'
  BY <1>2, <1>3, <1>4 DEF IInv, TypeOK, L!TypeOK, L!LeaseState
<1>7. Consistent(r)' /\ OwnedOrClean(e)'
  <2>1. InStep(r)' /\ Processes(r)' /\ OneLine(r)'
    BY <1>1, <1>3, <1>5
       DEF Consistent, InStep, Processes, OneLine, Replied, Excepted, Answered
  <2>2. OwnEvent(r)'
    BY <1>5 DEF OwnEvent, Serving
  <2>3. /\ evt'[e].pooled = "pooled" /\ evt'[e].http = None
        /\ evt'[e].skipNext = FALSE /\ evt'[e].responseSent = FALSE
        /\ evt'[e].requestDone = 0 /\ evt'[e].responseDone = 0
    BY <1>2, <1>5 DEF EventType
  <2>4. OwnedOrClean(e)'
    BY <1>3, <2>3 DEF OwnedOrClean
  <2> QED
    BY <2>1, <2>2, <2>4 DEF Consistent
<1>8. IInv'
  <2>1. /\ ~panicked'
        /\ \A q \in Requests \ {r} : req'[q] = req[q] /\ lease'[q] = lease[q]
        /\ \A d \in Events \ {e} : evt'[d] = evt[d]
    BY <1>3 DEF IInv, TypeOK, L!TypeOK
  <2> QED
    BY <1>2, <1>3, <1>6, <1>7, <2>1, Frame
<1>9. Exchanges(r)
  BY <1>3 DEF Exchanges
<1> QED BY <1>8, <1>9

\* The invariant says nothing of the holds of a lease but their type.
LEMMA HoldsStep ==
    ASSUME IInv, NEW r \in Requests, UNCHANGED <<req, evt, panicked, lease>>,
           holds' \in [Requests -> SUBSET Extensions]
    PROVE  IInv' /\ Exchanges(r)
<1>1. TypeOK'
  BY DEF IInv, TypeOK, L!TypeOK
<1>2. \A q \in Requests :
          InStep(q)' /\ Processes(q)' /\ OneLine(q)' /\ OwnEvent(q)'
  BY DEF IInv, InStep, Processes, OneLine, OwnEvent, Replied, Excepted,
         Answered, Serving, Evt
<1>3. \A e \in Events : OwnedOrClean(e)'
  BY DEF IInv, OwnedOrClean, Serving
<1> QED
  BY <1>1, <1>2, <1>3 DEF IInv, Exchanges

\* No resolver runs on an event that was reset: a pending helper is served.
LEMMA NoPanicStep ==
    ASSUME IInv, NEW r \in Requests
    PROVE  ~Panic(r)
<1> SUFFICES ASSUME Panic(r) PROVE FALSE
  OBVIOUS
<1>1. Acting(r)
  BY Served DEF Panic, HelperRuns
<1> QED
  BY <1>1, NoneAssumption DEF Panic, Acting, Evt

-----------------------------------------------------------------------------
(* Theorems. *)

\* Every pool is empty and every request is still to come.
LEMMA InitHolds == Init => IInv
<1> SUFFICES ASSUME Init PROVE IInv
  OBVIOUS
<1>1. TypeOK
  <2>1. req \in [Requests -> RequestType]
    BY DEF Init, RequestType
  <2>2. evt \in [Events -> EventType]
    BY DEF Init, EventType
  <2>3. L!TypeOK
    BY DEF Init, L!Init, L!TypeOK, L!LeaseState
  <2> QED
    BY <2>1, <2>2, <2>3 DEF Init, TypeOK
<1>2. \A r \in Requests :
          InStep(r) /\ Processes(r) /\ OneLine(r) /\ OwnEvent(r)
  <2> SUFFICES ASSUME NEW r \in Requests
               PROVE  InStep(r) /\ Processes(r) /\ OneLine(r) /\ OwnEvent(r)
    OBVIOUS
  <2>1. /\ lease[r] = "none"
        /\ req[r] = [http |-> "new", evt |-> None, js |-> "idle",
                     helper |-> "none", writer |-> "none", target |-> None,
                     finisher |-> "none", lines |-> 0, gone |-> FALSE]
    BY DEF Init, L!Init
  <2> QED
    BY <2>1 DEF InStep, Processes, OneLine, OwnEvent, Replied, Excepted,
                Answered, Serving
<1>3. \A e \in Events : OwnedOrClean(e)
  BY DEF Init, OwnedOrClean
<1> QED
  BY <1>1, <1>2, <1>3 DEF Init, IInv

\* Every step of a request keeps the invariant and moves its exchange as
\* HttpExchange allows.
LEMMA StepHolds ==
    ASSUME ~ThrowAfterRespond, IInv, NEW r \in Requests, Step(r)
    PROVE  IInv' /\ Exchanges(r)
<1>1. ASSUME NEW e \in Events, Begin(r, e)
      PROVE  IInv' /\ Exchanges(r)
  BY <1>1, BeginStep
<1>2. CASE HttpStep(r)
  BY <1>2, CallReturnsStep, ExceptionChecksStep, ExceptionWritesStep, ReturnStep
     DEF HttpStep
<1>3. CASE HelperStep(r)
  BY <1>3, RespondNoContentStep, RespondWithBodyStep, RespondRejectedStep,
     LoopSendsStep, NoPanicStep
     DEF HelperStep
<1>4. CASE WriterStep(r)
  BY <1>4, WriterStartsStep, WriterCopiesStep, WriterSignalsStep DEF WriterStep
<1>5. CASE FinisherStep(r)
  BY <1>5, FinisherStartsStep, FinisherReceivesStep, FinisherServesNextStep,
     FinisherChecksStep, FinisherWakesStep
     DEF FinisherStep
<1>6. ASSUME NEW x \in Extensions, WaitUntil(r, x) \/ Conclude(r, x)
      PROVE  IInv' /\ Exchanges(r)
  <2>1. /\ UNCHANGED <<req, evt, panicked, lease>>
        /\ holds' \in [Requests -> SUBSET Extensions]
    BY <1>6 DEF WaitUntil, Conclude, L!Hold, L!Drop, IInv, TypeOK, L!TypeOK
  <2> QED
    BY <2>1, HoldsStep
<1>7. CASE \/ Disconnect(r) \/ ResetEvent(r) \/ StartHandler(r)
           \/ RespondWith(r) \/ HandlerAwaits(r) \/ HandlerThrows(r)
           \/ HandlerSettles(r)
  BY <1>7, DisconnectStep, ResetEventStep, StartHandlerStep, RespondWithStep,
     HandlerAwaitsStep, HandlerThrowsStep, HandlerSettlesStep
<1> QED
  BY <1>1, <1>2, <1>3, <1>4, <1>5, <1>6, <1>7 DEF Step

\* Doing nothing keeps the invariant.
LEMMA StutterHolds == IInv /\ UNCHANGED vars => IInv'
<1> SUFFICES ASSUME IInv, UNCHANGED vars PROVE IInv'
  OBVIOUS
<1>1. TypeOK'
  BY DEF IInv, TypeOK, vars, leaseVars, L!TypeOK
<1>2. \A q \in Requests :
          InStep(q)' /\ Processes(q)' /\ OneLine(q)' /\ OwnEvent(q)'
  BY DEF IInv, InStep, Processes, OneLine, OwnEvent, Replied, Excepted,
         Answered, Serving, Evt, vars, leaseVars
<1>3. \A e \in Events : OwnedOrClean(e)'
  BY DEF IInv, OwnedOrClean, Serving, vars, leaseVars
<1> QED
  BY <1>1, <1>2, <1>3 DEF IInv, vars

\* What is in the pool is clean: nothing of the requests that had it is left.
LEMMA PoolIsClean == IInv => CleanEvents
<1> SUFFICES ASSUME IInv, NEW e \in Events, evt[e].pooled = "pooled"
             PROVE  /\ evt[e].requestDone = 0 /\ evt[e].responseDone = 0
                    /\ ~evt[e].skipNext /\ ~evt[e].responseSent
                    /\ \A r \in Requests :
                          req[r].evt = e => /\ req[r].helper \in {"none", "done"}
                                            /\ req[r].writer \in {"none", "done"}
                                            /\ req[r].finisher \in {"none", "done"}
  BY DEF CleanEvents
<1>1. OwnedOrClean(e)
  BY DEF IInv
<1>2. ASSUME NEW r \in Requests, req[r].evt = e
      PROVE  /\ req[r].helper \in {"none", "done"}
             /\ req[r].writer \in {"none", "done"}
             /\ req[r].finisher \in {"none", "done"}
  <2>1. Consistent(r) /\ req[r] \in RequestType
    BY DEF IInv, TypeOK, Consistent
  <2>2. ~Serving(r)
    BY <1>2, <2>1 DEF Consistent, OwnEvent, Evt
  <2> QED
    BY <2>1, <2>2, Served DEF Acting, RequestType
<1> QED
  BY <1>1, <1>2 DEF OwnedOrClean

\* The inductive invariant holds in every behaviour of handleAsEvent, and an
\* event waits in the pool with empty channels and cleared flags.
THEOREM Invariance == ASSUME ~ThrowAfterRespond PROVE Spec => []EventsInv
<1>1. IInv /\ [Next]_vars => IInv'
  BY StepHolds, StutterHolds DEF Next
<1>2. IInv => EventsInv
  BY PoolIsClean DEF EventsInv
<1> QED
  BY <1>1, <1>2, InitHolds, PTL DEF Spec

\* The resolvers never block the event loop on responseDone.
THEOREM LoopStaysFree == ASSUME ~ThrowAfterRespond PROVE Spec => []LoopNeverBlocks
<1>1. IInv => LoopNeverBlocks
  <2> SUFFICES ASSUME IInv, NEW r \in Requests, req[r].helper = "send"
               PROVE  Evt(r).responseDone = 0
    BY DEF LoopNeverBlocks
  <2>1. Acting(r)
    BY Served
  <2> QED
    BY <2>1 DEF Acting, Consistent, OwnEvent, Answered, EventType, Evt
<1> QED
  BY <1>1, Invariance, PTL DEF EventsInv

\* The token of requestDone wakes the request it was sent for, never the one
\* that is given the event next.
THEOREM OwnWake == ASSUME ~ThrowAfterRespond PROVE Spec => []NoForeignWake
<1>1. IInv => NoForeignWake
  <2> SUFFICES ASSUME IInv, NEW e \in Events, evt[e].requestDone = 1
               PROVE  /\ evt[e].http # None
                      /\ req[evt[e].http].http \in {"call", "wait"}
    BY DEF NoForeignWake
  <2> DEFINE r == evt[e].http
  <2>1. /\ OwnedOrClean(e) /\ evt[e] \in EventType
    BY DEF IInv, TypeOK
  <2>2. r # None /\ Serving(r) /\ req[r].evt = e
    BY <2>1 DEF OwnedOrClean
  <2>3. r \in Requests
    BY <2>1, <2>2 DEF EventType
  <2>4. OwnEvent(r)
    BY <2>3 DEF IInv
  <2> QED
    BY <2>2, <2>4 DEF OwnEvent, Evt
<1> QED
  BY <1>1, Invariance, PTL DEF EventsInv

\* No resolver dereferences the ResponseWriter of an event that was reset.
THEOREM NeverPanics == ASSUME ~ThrowAfterRespond PROVE Spec => []NoPanic
<1>1. IInv => NoPanic
  BY DEF IInv, NoPanic
<1> QED
  BY <1>1, Invariance, PTL DEF EventsInv

-----------------------------------------------------------------------------
(* Every behaviour is one of HttpExchange. *)

\* Under the invariant no status line is written twice, and no writer outlives
\* its request: exchange never leaves the states of HttpExchange.
LEMMA ExchangeIsStage ==
    IInv => exchange = [r \in Requests |-> Stage(req[r])]
<1> SUFFICES ASSUME IInv, NEW r \in Requests
             PROVE  exchange[r] = Stage(req[r])
  BY DEF exchange
<1>1. Consistent(r) /\ req[r] \in RequestType
  BY DEF IInv, TypeOK, Consistent
<1>2. req[r].lines \in {0, 1}
  BY <1>1 DEF Consistent, OneLine
<1>3. \A S \in SUBSET {"start", "copy"} :
          WrittenBy(r, S) <=> req[r].writer \in S /\ req[r].target = r
  BY DEF IInv, Processes, WrittenBy
<1>4. req[r].writer \in {"start", "copy"} => req[r].target = r
  BY <1>1 DEF Consistent, Processes
<1>5. req[r].http = "returned" => req[r].writer \notin {"start", "copy"}
  BY <1>1 DEF Consistent, Processes, Answered
<1>6. /\ WrittenBy(r, {"start", "copy"}) <=> req[r].writer \in {"start", "copy"}
      /\ WrittenBy(r, {"copy"}) <=> req[r].writer = "copy"
  BY <1>3, <1>4
<1> QED
  BY <1>1, <1>2, <1>5, <1>6 DEF exchange, Stage, RequestType

\* The same after a step.
LEMMA ExchangeIsStagePrimed ==
    IInv' => exchange' = [r \in Requests |-> Stage(req'[r])]
<1>1. (IInv => exchange = [r \in Requests |-> Stage(req[r])])'
  BY ExchangeIsStage, PTL
<1> QED
  BY <1>1 DEF Stage

\* One status line per request, its body finished before the goroutine
\* returns, and none only for a client that has gone.
THEOREM Refinement == ASSUME ~ThrowAfterRespond PROVE Spec => ImplementsExchange
<1> DEFINE gone == [r \in Requests |-> req[r].gone]
<1>1. Init => E!Init
  <2> SUFFICES ASSUME Init PROVE E!Init
    OBVIOUS
  <2>1. exchange = [r \in Requests |-> Stage(req[r])]
    BY InitHolds, ExchangeIsStage
  <2>2. \A r \in Requests : Stage(req[r]) = "idle" /\ req[r].gone = FALSE
    BY DEF Init, Stage
  <2> QED
    BY <2>1, <2>2 DEF E!Init
<1>2. ASSUME IInv, IInv', NEW r \in Requests, Exchanges(r)
      PROVE  E!Next \/ UNCHANGED E!vars
  <2>1. /\ exchange = [q \in Requests |-> Stage(req[q])]
        /\ exchange' = [q \in Requests |-> Stage(req'[q])]
    BY <1>2, ExchangeIsStage, ExchangeIsStagePrimed
  <2>2. /\ exchange' = [exchange EXCEPT ![r] = Stage(req'[r])]
        /\ exchange[r] = Stage(req[r])
        /\ gone' = [gone EXCEPT ![r] = req'[r].gone]
    BY <1>2, <2>1 DEF Exchanges
  <2>3. CASE req'[r].gone = TRUE /\ Stage(req[r]) = Stage(req'[r])
    <3>1. E!Disconnect(r)
      BY <2>1, <2>2, <2>3 DEF E!Disconnect
    <3> QED
      BY <3>1 DEF E!Next
  <2>4. CASE ~(req'[r].gone = TRUE /\ Stage(req[r]) = Stage(req'[r]))
    <3>1. req'[r].gone = req[r].gone
      BY <1>2, <2>4 DEF Exchanges
    <3>2. gone' = gone
      BY <2>2, <3>1
    <3>3. CASE Stage(req[r]) = Stage(req'[r])
      BY <2>1, <2>2, <3>2, <3>3 DEF E!vars
    <3>4. CASE Stage(req[r]) # Stage(req'[r])
      <4>1. E!Accept(r) \/ E!Answer(r) \/ E!FinishBody(r) \/ E!Close(r)
        BY <1>2, <2>2, <2>4, <3>2, <3>4
           DEF Exchanges, E!Accept, E!Answer, E!FinishBody, E!Close, E!Move
      <4> QED
        BY <4>1 DEF E!Next
    <3> QED
      BY <3>3, <3>4
  <2> QED
    BY <2>3, <2>4
<1>3. ASSUME UNCHANGED vars
      PROVE  UNCHANGED E!vars
  BY <1>3 DEF vars, E!vars, exchange, WrittenBy
<1>4. IInv /\ IInv' /\ [Next]_vars => [E!Next]_(E!vars)
  <2> SUFFICES ASSUME IInv, IInv', [Next]_vars PROVE [E!Next]_(E!vars)
    OBVIOUS
  <2>1. ASSUME NEW r \in Requests, Step(r) PROVE E!Next \/ UNCHANGED E!vars
    BY <1>2, <2>1, StepHolds
  <2> QED
    BY <1>3, <2>1 DEF Next
<1> QED
  BY <1>1, <1>4, Invariance, PTL DEF Spec, E!Spec, ImplementsExchange, EventsInv
=============================================================================
