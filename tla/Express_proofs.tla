---------------------------- MODULE Express_proofs ----------------------------
(***************************************************************************)
(* Theorems about Express, for any sets of requests and RequestContexts    *)
(* and any habits of careless handlers: IInv is inductive, the safety      *)
(* properties follow from it, and every behaviour is one of HttpExchange   *)
(* for the requests with careful handlers.                                 *)
(***************************************************************************)
EXTENDS Express, TLAPS

\* What the invariant says of one request.
Consistent(r) ==
    InStep(r) /\ OwnContext(r) /\ (r \notin Careless => OneLine(r))

\* Where the exchange of a careful request stands, as long as the invariant
\* holds.
Stage(p) ==
    CASE p.http = "new" -> "idle"
      [] p.http = "returned" -> "closed"
      [] p.http \notin {"new", "returned"} ->
            IF p.lines = 0 THEN "open" ELSE "answered"

\* A step of r is a step of its exchange or none: it moves no other request.
Exchanges(r) ==
    LET from == Stage(req[r])
        to == Stage(req'[r])
    IN  /\ \A q \in Requests \ {r} : req'[q] = req[q]
        /\ r \notin Careless =>
              \/ /\ req'[r].gone = req[r].gone
                 /\ \/ from = to
                    \/ from = "idle" /\ to = "open"
                    \/ from = "open" /\ to = "answered"
                    \/ from = "answered" /\ to = "closed"
                    \/ req[r].gone /\ from = "open" /\ to = "closed"
              \/ req'[r].gone = TRUE /\ from = to

-----------------------------------------------------------------------------
(* A step of one request. *)

\* A request is consistent with its own fields, its lease and its context, and
\* a context with its own fields and its owner: a step of r that touches only
\* context e leaves all others as they are.
LEMMA Frame ==
    ASSUME IInv, TypeOK',
           NEW r \in Requests, NEW e \in RequestContexts,
           req[r].ctx \in {None, e}, req'[r].ctx = e,
           ctx[e].http \in {None, r},
           \A q \in Requests \ {r} : req'[q] = req[q] /\ lease'[q] = lease[q],
           \A d \in RequestContexts \ {e} : ctx'[d] = ctx[d],
           Consistent(r)', OwnedOrClean(e)'
    PROVE  IInv'
<1>1. \A q \in Requests \ {r} : Consistent(q)'
  <2> SUFFICES ASSUME NEW q \in Requests \ {r}
               PROVE  Consistent(q)'
    OBVIOUS
  <2>1. InStep(q) /\ OwnContext(q) /\ (q \notin Careless => OneLine(q))
    BY DEF IInv
  <2>2. req'[q] = req[q] /\ lease'[q] = lease[q]
    OBVIOUS
  <2>3. InStep(q)'
    BY <2>1, <2>2 DEF InStep
  <2>4. CASE Serving(q)
    <3>1. req[q].ctx \in RequestContexts \ {e}
      <4>1. req[q].ctx # None /\ Ctx(q).http = q
        BY <2>1, <2>4 DEF InStep, Serving, OwnContext
      <4>2. req[q].ctx \in RequestContexts
        BY <4>1 DEF IInv, TypeOK, RequestType
      <4> QED
        BY <4>1, <4>2, NoneAssumption DEF Ctx
    <3>2. Ctx(q)' = Ctx(q)
      BY <2>2, <3>1 DEF Ctx
    <3>3. OwnContext(q)'
      BY <2>1, <2>2, <3>2 DEF OwnContext, Serving, Excepted
    <3>4. q \notin Careless => OneLine(q)'
      BY <2>1, <2>2, <3>2 DEF OneLine, Serving, Excepted
    <3> QED
      BY <2>3, <3>3, <3>4 DEF Consistent
  <2>5. CASE ~Serving(q)
    <3>1. OwnContext(q)'
      BY <2>2, <2>5 DEF OwnContext, Serving
    <3>2. q \notin Careless => OneLine(q)'
      BY <2>1, <2>2, <2>5 DEF OneLine, Serving, Excepted
    <3> QED
      BY <2>3, <3>1, <3>2 DEF Consistent
  <2> QED
    BY <2>4, <2>5
<1>2. \A d \in RequestContexts \ {e} : OwnedOrClean(d)'
  <2> SUFFICES ASSUME NEW d \in RequestContexts \ {e}
               PROVE  OwnedOrClean(d)'
    OBVIOUS
  <2>1. OwnedOrClean(d) /\ ctx'[d] = ctx[d]
    BY DEF IInv
  <2>2. CASE ctx[d].pooled = "used"
    <3>1. ctx[d].http \in Requests \ {r}
      BY <2>1, <2>2, NoneAssumption DEF OwnedOrClean, IInv, TypeOK, ContextType
    <3> QED
      BY <2>1, <2>2, <3>1 DEF OwnedOrClean, Serving
  <2>3. CASE ctx[d].pooled # "used"
    BY <2>1, <2>3 DEF OwnedOrClean, Unanswered
  <2> QED
    BY <2>2, <2>3
<1> QED
  BY <1>1, <1>2 DEF IInv, Consistent

\* What a process of r that can still act relies on.
Acting(r) ==
    /\ Consistent(r) /\ Serving(r) /\ lease[r] = "held"
    /\ req[r].http \in {"call", "except", "wait"}
    /\ req[r] \in RequestType
    /\ req[r].ctx \in RequestContexts
    /\ ctx[req[r].ctx] \in ContextType
    /\ ctx[req[r].ctx].http = r /\ ctx[req[r].ctx].pooled = "used"

\* A process of r that can still act has its context, which serves r.
LEMMA Served ==
    ASSUME IInv, NEW r \in Requests,
           \/ req[r].http \notin {"new", "returned"}
           \/ req[r].js \in {"queued", "sync", "pending", "fulfilled",
                             "rejected", "wake"}
    PROVE  Acting(r)
<1>1. Consistent(r) /\ req[r] \in RequestType
  BY DEF IInv, TypeOK, Consistent
<1>2. req[r].http \in {"call", "except", "wait"}
  BY <1>1 DEF Consistent, InStep, RequestType
<1>3. lease[r] = "held" /\ req[r].ctx # None
  BY <1>1, <1>2 DEF Consistent, InStep
<1>4. req[r].ctx \in RequestContexts
  BY <1>1, <1>3 DEF RequestType
<1>5. ctx[req[r].ctx] \in ContextType
  BY <1>4 DEF IInv, TypeOK
<1>6. Serving(r)
  BY <1>3 DEF Serving
<1> QED
  BY <1>1, <1>2, <1>3, <1>4, <1>5, <1>6 DEF Consistent, OwnContext, Ctx, Acting

\* A step of r on itself and its context.
LEMMA ServedStep ==
    ASSUME IInv, panicked' = panicked, NEW r \in Requests, Serving(r),
           req[r].ctx \in RequestContexts, ctx[req[r].ctx].http = r,
           NEW p \in RequestType, NEW v \in ContextType,
           p.ctx = req[r].ctx,
           req' = [req EXCEPT ![r] = p],
           ctx' = [ctx EXCEPT ![req[r].ctx] = v],
           \A q \in Requests \ {r} : lease'[q] = lease[q],
           L!TypeOK',
           Consistent(r)', OwnedOrClean(req[r].ctx)'
    PROVE  IInv'
<1>1. TypeOK'
  <2>1. /\ req' \in [Requests -> RequestType]
        /\ ctx' \in [RequestContexts -> ContextType]
    BY DEF IInv, TypeOK
  <2> QED
    BY <2>1 DEF IInv, TypeOK
<1>2. req'[r] = p /\ \A q \in Requests \ {r} : req'[q] = req[q]
  BY DEF IInv, TypeOK
<1>3. \A d \in RequestContexts \ {req[r].ctx} : ctx'[d] = ctx[d]
  BY DEF IInv, TypeOK
<1> QED
  BY <1>1, <1>2, <1>3, Frame

\* The request after a status line with this code.
Reply(p, code) ==
    [p EXCEPT !.lines = @ + 1, !.status = IF @ = "none" THEN code ELSE @]

\* What WriteHeader does to a request.
LEMMA Replying ==
    ASSUME req \in [Requests -> RequestType], NEW r \in Requests,
           NEW code \in Code
    PROVE  LET n == Reply(req[r], code) IN
           /\ n \in RequestType
           /\ n.http = req[r].http /\ n.ctx = req[r].ctx /\ n.js = req[r].js
           /\ n.gone = req[r].gone /\ n.lines = req[r].lines + 1
           /\ Written(r, code) = [req EXCEPT ![r] = n]
<1> DEFINE s == IF req[r].status = "none" THEN code ELSE req[r].status
           n == [req[r] EXCEPT !.lines = @ + 1, !.status = s]
<1>1. req[r] \in RequestType
  OBVIOUS
<1>2. s \in Code \cup {"none"} /\ req[r].lines + 1 \in Nat
  BY <1>1 DEF RequestType
<1>3. Reply(req[r], code) = n
  BY DEF Reply
<1>4. Written(r, code) = [req EXCEPT ![r] = n]
  BY DEF Written
<1> HIDE DEF s
<1>5. /\ n \in RequestType
      /\ n.http = req[r].http /\ n.ctx = req[r].ctx /\ n.js = req[r].js
      /\ n.gone = req[r].gone /\ n.lines = req[r].lines + 1
  BY <1>1, <1>2 DEF RequestType
<1> QED
  BY <1>3, <1>4, <1>5

\* The goroutine learns how the call of the handler ended.
LEMMA CallReturnsStep ==
    ASSUME IInv, NEW r \in Requests, CallReturns(r)
    PROVE  IInv' /\ Exchanges(r)
<1> DEFINE c == ctx[req[r].ctx]
           p == [req[r] EXCEPT !.http =
                   IF req[r].js = "threw" THEN "except" ELSE "wait"]
           v == c
<1>1. Acting(r)
  BY Served DEF CallReturns
<1>2. req[r].http = "call" /\ req[r].js \notin {"queued", "sync"}
  BY <1>1 DEF CallReturns, Acting, Ctx
<1>3. /\ req' = [req EXCEPT ![r] = p]
      /\ ctx' = [ctx EXCEPT ![req[r].ctx] = v]
      /\ UNCHANGED <<panicked, leaseVars>>
  BY <1>1, <1>2 DEF IInv, TypeOK, Acting, CallReturns, leaseVars
<1>4. /\ p \in RequestType /\ v \in ContextType /\ p.ctx = req[r].ctx
  BY <1>1, <1>2 DEF Acting, RequestType, ContextType, Code
<1>5. req'[r] = p /\ ctx'[req[r].ctx] = v /\ Ctx(r) = c /\ Ctx(r)' = v
  BY <1>1, <1>3, <1>4 DEF IInv, TypeOK, Acting, Ctx
<1>6. Consistent(r)' /\ OwnedOrClean(req[r].ctx)'
  BY <1>1, <1>2, <1>3, <1>4, <1>5, NoneAssumption
     DEF IInv, TypeOK, L!TypeOK, RequestType, ContextType, Acting, Consistent,
         InStep, OwnContext, OneLine, OwnedOrClean, Unanswered, Excepted,
         Serving, leaseVars
<1>7. IInv'
  BY <1>1, <1>3, <1>4, <1>6, ServedStep
     DEF IInv, TypeOK, L!TypeOK, L!LeaseState, leaseVars, Acting
<1>8. Exchanges(r)
  BY <1>1, <1>2, <1>3, <1>5
     DEF IInv, TypeOK, RequestType, ContextType, Exchanges, Stage, Acting,
         Consistent, InStep, OwnContext, OneLine, Excepted
<1> QED BY <1>7, <1>8

\* Exception answers and wakes.
LEMMA ExceptionStep ==
    ASSUME IInv, NEW r \in Requests, Exception(r)
    PROVE  IInv' /\ Exchanges(r)
<1> DEFINE c == ctx[req[r].ctx]
           n == IF ~req[r].gone THEN Reply(req[r], "error") ELSE req[r]
           p == [n EXCEPT !.http = "wait"]
           v == [c EXCEPT !.responseSent = TRUE, !.requestDone = 1]
<1>1. Acting(r)
  BY Served DEF Exception
<1>2. req[r].http = "except" /\ req[r].js = "threw"
  BY <1>1 DEF Exception, Consistent, InStep, Acting, Ctx
<1>n. /\ n \in RequestType
      /\ n.http = req[r].http /\ n.ctx = req[r].ctx /\ n.js = req[r].js
      /\ n.gone = req[r].gone
      /\ n.lines = IF ~req[r].gone THEN req[r].lines + 1 ELSE req[r].lines
      /\ (IF ~req[r].gone THEN Written(r, "error") ELSE req)
            = [req EXCEPT ![r] = n]
  <2>1. "error" \in Code 
    BY <1>1 DEF Acting, Code, ContextType, RequestType
  <2>2. req \in [Requests -> RequestType]
    BY DEF IInv, TypeOK
  <2>3. CASE ~req[r].gone
    BY <2>1, <2>2, <2>3, Replying
  <2>4. CASE ~(~req[r].gone)
    BY <2>2, <2>4
  <2> QED BY <2>3, <2>4
<1> HIDE DEF n
<1>3. /\ req' = [req EXCEPT ![r] = p]
      /\ ctx' = [ctx EXCEPT ![req[r].ctx] = v]
      /\ UNCHANGED <<panicked, leaseVars>>
  <2>1. c.http = r /\ Ctx(r) = c
    BY <1>1 DEF Acting, Ctx
  <2>2. req' =
          [(IF ~req[r].gone THEN Written(r, "error") ELSE req)
              EXCEPT ![r].http = "wait"]
    BY <2>1 DEF Exception, Consistent, InStep, Ctx
  <2>3. /\ ctx' = [ctx EXCEPT ![req[r].ctx] = v]
        /\ UNCHANGED <<panicked, leaseVars>>
    BY <1>1, <2>1
       DEF IInv, TypeOK, Acting, Exception, Consistent, InStep, leaseVars
  <2> QED
    BY <1>1, <1>n, <2>2, <2>3 DEF IInv, TypeOK, Acting, RequestType
<1>4. /\ p \in RequestType /\ v \in ContextType /\ p.ctx = req[r].ctx
  <2>1. v \in ContextType
    <3>1. c \in ContextType /\ TRUE \in BOOLEAN /\ 1 \in 0 .. 1
      BY <1>1 DEF Acting
    <3> QED
      BY <3>1, ZenonT(20) DEF ContextType
  <2> QED
    BY <1>1, <1>2, <1>n, <2>1 DEF Acting, RequestType, ContextType, Code
<1>5. req'[r] = p /\ ctx'[req[r].ctx] = v /\ Ctx(r) = c /\ Ctx(r)' = v
  BY <1>1, <1>3, <1>4 DEF IInv, TypeOK, Acting, Ctx
<1>6. Consistent(r)' /\ OwnedOrClean(req[r].ctx)'
  BY <1>1, <1>2, <1>n, <1>3, <1>4, <1>5, NoneAssumption
     DEF IInv, TypeOK, L!TypeOK, RequestType, ContextType, Acting, Consistent,
         InStep, OwnContext, OneLine, OwnedOrClean, Unanswered, Excepted,
         Serving, leaseVars
<1>7. IInv'
  BY <1>1, <1>3, <1>4, <1>6, ServedStep
     DEF IInv, TypeOK, L!TypeOK, L!LeaseState, leaseVars, Acting
<1>8. Exchanges(r)
  BY <1>1, <1>2, <1>n, <1>3, <1>5
     DEF IInv, TypeOK, RequestType, ContextType, Exchanges, Stage, Acting,
         Consistent, InStep, OwnContext, OneLine, Excepted
<1> QED BY <1>7, <1>8

\* The goroutine takes the token that was meant for it.
LEMMA ReturnStep ==
    ASSUME IInv, NEW r \in Requests, Return(r)
    PROVE  IInv' /\ Exchanges(r)
<1> DEFINE c == ctx[req[r].ctx]
           s == IF req[r].status = "none" THEN "implicit" ELSE req[r].status
           p == [req[r] EXCEPT !.http = "returned", !.status = s]
           v == [c EXCEPT !.requestDone = 0]
<1>1. Acting(r)
  BY Served DEF Return
<1>2. req[r].http = "wait" /\ c.requestDone = 1
  BY <1>1 DEF Return, L!Return, Acting, Ctx
<1>3. /\ req' = [req EXCEPT ![r] = p]
      /\ ctx' = [ctx EXCEPT ![req[r].ctx] = v]
      /\ panicked' = panicked /\ holds' = holds
      /\ lease' = [lease EXCEPT ![r] = "returned"]
  <2>1. Ctx(r) = c /\ c.requestDone - 1 = 0
    BY <1>1, <1>2 DEF Acting, Ctx
  <2>2. req' = [req EXCEPT ![r] = p]
    BY DEF IInv, TypeOK, Return, L!Return
  <2>3. ctx' = [ctx EXCEPT ![req[r].ctx] = v]
    BY <1>1, <2>1 DEF IInv, TypeOK, Acting, Return
  <2> QED
    BY <2>2, <2>3 DEF Return, L!Return
<1>s. s \in Code \cup {"none"}
  BY <1>1 DEF Acting, RequestType, Code
<1> HIDE DEF s
<1>4. /\ p \in RequestType /\ v \in ContextType /\ p.ctx = req[r].ctx
  <2>1. v \in ContextType
    BY <1>1 DEF Acting, ContextType
  <2> QED
    BY <1>1, <1>2, <1>s, <2>1 DEF Acting, RequestType, ContextType, Code
<1>5. req'[r] = p /\ ctx'[req[r].ctx] = v /\ Ctx(r) = c /\ Ctx(r)' = v
  BY <1>1, <1>3, <1>4 DEF IInv, TypeOK, Acting, Ctx
<1>6. Consistent(r)' /\ OwnedOrClean(req[r].ctx)'
  BY <1>1, <1>2, <1>s, <1>3, <1>4, <1>5, NoneAssumption
     DEF IInv, TypeOK, L!TypeOK, RequestType, ContextType, Acting, Consistent,
         InStep, OwnContext, OneLine, OwnedOrClean, Unanswered, Excepted,
         Serving, leaseVars
<1>7. IInv'
  BY <1>1, <1>3, <1>4, <1>6, ServedStep
     DEF IInv, TypeOK, L!TypeOK, L!LeaseState, leaseVars, Acting
<1>8. Exchanges(r)
  BY <1>1, <1>2, <1>s, <1>3, <1>5
     DEF IInv, TypeOK, RequestType, ContextType, Exchanges, Stage, Acting,
         Consistent, InStep, OwnContext, OneLine, Excepted
<1> QED BY <1>7, <1>8

\* The client goes away.
LEMMA DisconnectStep ==
    ASSUME IInv, NEW r \in Requests, Disconnect(r)
    PROVE  IInv' /\ Exchanges(r)
<1> DEFINE c == ctx[req[r].ctx]
           p == [req[r] EXCEPT !.gone = TRUE]
           v == c
<1>1. Acting(r)
  BY Served DEF Disconnect
<1>2. req[r].http \notin {"new", "returned"}
  BY <1>1 DEF Disconnect, Acting, Ctx
<1>3. /\ req' = [req EXCEPT ![r] = p]
      /\ ctx' = [ctx EXCEPT ![req[r].ctx] = v]
      /\ UNCHANGED <<panicked, leaseVars>>
  BY <1>1, <1>2 DEF IInv, TypeOK, Acting, Disconnect, leaseVars
<1>4. /\ p \in RequestType /\ v \in ContextType /\ p.ctx = req[r].ctx
  BY <1>1, <1>2 DEF Acting, RequestType, ContextType, Code
<1>5. req'[r] = p /\ ctx'[req[r].ctx] = v /\ Ctx(r) = c /\ Ctx(r)' = v
  BY <1>1, <1>3, <1>4 DEF IInv, TypeOK, Acting, Ctx
<1>6. Consistent(r)' /\ OwnedOrClean(req[r].ctx)'
  BY <1>1, <1>2, <1>3, <1>4, <1>5, NoneAssumption
     DEF IInv, TypeOK, L!TypeOK, RequestType, ContextType, Acting, Consistent,
         InStep, OwnContext, OneLine, OwnedOrClean, Unanswered, Excepted,
         Serving, leaseVars
<1>7. IInv'
  BY <1>1, <1>3, <1>4, <1>6, ServedStep
     DEF IInv, TypeOK, L!TypeOK, L!LeaseState, leaseVars, Acting
<1>8. Exchanges(r)
  BY <1>1, <1>2, <1>3, <1>5
     DEF IInv, TypeOK, RequestType, ContextType, Exchanges, Stage, Acting,
         Consistent, InStep, OwnContext, OneLine, Excepted
<1> QED BY <1>7, <1>8

\* The handler starts.
LEMMA StartHandlerStep ==
    ASSUME IInv, NEW r \in Requests, StartHandler(r)
    PROVE  IInv' /\ Exchanges(r)
<1> DEFINE c == ctx[req[r].ctx]
           p == [req[r] EXCEPT !.js = "sync"]
           v == [c EXCEPT !.responseProxy = @ \/ ~Has(r, "ignoreRes")]
<1>1. Acting(r)
  BY Served DEF StartHandler
<1>2. req[r].js = "queued"
  BY <1>1 DEF StartHandler, Acting, Ctx
<1>3. /\ req' = [req EXCEPT ![r] = p]
      /\ ctx' = [ctx EXCEPT ![req[r].ctx] = v]
      /\ UNCHANGED <<panicked, leaseVars>>
  BY <1>1, <1>2 DEF IInv, TypeOK, Acting, StartHandler, leaseVars
<1>4. /\ p \in RequestType /\ v \in ContextType /\ p.ctx = req[r].ctx
  BY <1>1, <1>2 DEF Acting, RequestType, ContextType, Code
<1>5. req'[r] = p /\ ctx'[req[r].ctx] = v /\ Ctx(r) = c /\ Ctx(r)' = v
  BY <1>1, <1>3, <1>4 DEF IInv, TypeOK, Acting, Ctx
<1>6. Consistent(r)' /\ OwnedOrClean(req[r].ctx)'
  BY <1>1, <1>2, <1>3, <1>4, <1>5, NoneAssumption
     DEF IInv, TypeOK, L!TypeOK, RequestType, ContextType, Acting, Consistent,
         InStep, OwnContext, OneLine, OwnedOrClean, Unanswered, Excepted,
         Serving, leaseVars
<1>7. IInv'
  BY <1>1, <1>3, <1>4, <1>6, ServedStep
     DEF IInv, TypeOK, L!TypeOK, L!LeaseState, leaseVars, Acting
<1>8. Exchanges(r)
  BY <1>1, <1>2, <1>3, <1>5
     DEF IInv, TypeOK, RequestType, ContextType, Exchanges, Stage, Acting,
         Consistent, InStep, OwnContext, OneLine, Excepted
<1> QED BY <1>7, <1>8

\* The request proxy reads from the request that its context serves.
LEMMA ReadPropertyStep ==
    ASSUME IInv, NEW r \in Requests, ReadProperty(r)
    PROVE  IInv' /\ Exchanges(r)
<1> DEFINE c == ctx[req[r].ctx]
           p == req[r]
           v == [c EXCEPT !.cached = r]
<1>1. Acting(r)
  BY Served DEF ReadProperty, HandlerRuns
<1>2. req[r].js \in {"sync", "pending"}
  BY <1>1 DEF ReadProperty, HandlerRuns, Acting, Ctx
<1>3. /\ req' = [req EXCEPT ![r] = p]
      /\ ctx' = [ctx EXCEPT ![req[r].ctx] = v]
      /\ UNCHANGED <<panicked, leaseVars>>
  <2>1. c.http = r /\ Ctx(r) = c
    BY <1>1 DEF Acting, Ctx
  <2>2. req' = req
    BY DEF ReadProperty, HandlerRuns
  <2> QED
    BY <1>1, <2>1, <2>2
       DEF IInv, TypeOK, Acting, ReadProperty, HandlerRuns, leaseVars
<1>4. /\ p \in RequestType /\ v \in ContextType /\ p.ctx = req[r].ctx
  BY <1>1, <1>2 DEF Acting, RequestType, ContextType, Code
<1>5. req'[r] = p /\ ctx'[req[r].ctx] = v /\ Ctx(r) = c /\ Ctx(r)' = v
  BY <1>1, <1>3, <1>4 DEF IInv, TypeOK, Acting, Ctx
<1>6. Consistent(r)' /\ OwnedOrClean(req[r].ctx)'
  BY <1>1, <1>2, <1>3, <1>4, <1>5, NoneAssumption
     DEF IInv, TypeOK, L!TypeOK, RequestType, ContextType, Acting, Consistent,
         InStep, OwnContext, OneLine, OwnedOrClean, Unanswered, Excepted,
         Serving, leaseVars
<1>7. IInv'
  BY <1>1, <1>3, <1>4, <1>6, ServedStep
     DEF IInv, TypeOK, L!TypeOK, L!LeaseState, leaseVars, Acting
<1>8. Exchanges(r)
  BY <1>1, <1>2, <1>3, <1>5
     DEF IInv, TypeOK, RequestType, ContextType, Exchanges, Stage, Acting,
         Consistent, InStep, OwnContext, OneLine, Excepted
<1> QED BY <1>7, <1>8

\* The handler sets a status, and answers later or not at all.
LEMMA SetStatusStep ==
    ASSUME IInv, NEW r \in Requests, SetStatus(r)
    PROVE  IInv' /\ Exchanges(r)
<1> DEFINE c == ctx[req[r].ctx]
           p == req[r]
           v == [c EXCEPT !.statusSet = TRUE,
                          !.statusCode = "chosen",
                          !.responseProxy = TRUE]
<1>1. Acting(r)
  BY Served DEF SetStatus, HandlerRuns
<1>2. req[r].js \in {"sync", "pending"}
  BY <1>1 DEF SetStatus, HandlerRuns, Acting, Ctx
<1>3. /\ req' = [req EXCEPT ![r] = p]
      /\ ctx' = [ctx EXCEPT ![req[r].ctx] = v]
      /\ UNCHANGED <<panicked, leaseVars>>
  <2>1. c.http = r /\ Ctx(r) = c
    BY <1>1 DEF Acting, Ctx
  <2>2. req' = req
    BY DEF SetStatus, HandlerRuns
  <2> QED
    BY <1>1, <2>1, <2>2
       DEF IInv, TypeOK, Acting, SetStatus, HandlerRuns, leaseVars
<1>4. /\ p \in RequestType /\ v \in ContextType /\ p.ctx = req[r].ctx
  BY <1>1, <1>2 DEF Acting, RequestType, ContextType, Code
<1>5. req'[r] = p /\ ctx'[req[r].ctx] = v /\ Ctx(r) = c /\ Ctx(r)' = v
  BY <1>1, <1>3, <1>4 DEF IInv, TypeOK, Acting, Ctx
<1>6. Consistent(r)' /\ OwnedOrClean(req[r].ctx)'
  BY <1>1, <1>2, <1>3, <1>4, <1>5, NoneAssumption
     DEF IInv, TypeOK, L!TypeOK, RequestType, ContextType, Acting, Consistent,
         InStep, OwnContext, OneLine, OwnedOrClean, Unanswered, Excepted,
         Serving, leaseVars
<1>7. IInv'
  BY <1>1, <1>3, <1>4, <1>6, ServedStep
     DEF IInv, TypeOK, L!TypeOK, L!LeaseState, leaseVars, Acting
<1>8. Exchanges(r)
  BY <1>1, <1>2, <1>3, <1>5
     DEF IInv, TypeOK, RequestType, ContextType, Exchanges, Stage, Acting,
         Consistent, InStep, OwnContext, OneLine, Excepted
<1> QED BY <1>7, <1>8

\* The handler answers, once.
LEMMA SendStep ==
    ASSUME IInv, NEW r \in Requests, Send(r)
    PROVE  IInv' /\ Exchanges(r)
<1> DEFINE c == ctx[req[r].ctx]
           code == IF c.statusSet THEN c.statusCode ELSE "ok"
           n == Reply(req[r], code)
           p == n
           v == [c EXCEPT !.statusSet = TRUE,
                          !.responseSent = TRUE,
                          !.responseProxy = TRUE]
<1>1. Acting(r)
  BY Served DEF Send, HandlerRuns
<1>2. req[r].js \in {"sync", "pending"} /\ ~c.responseSent
  BY <1>1 DEF Send, HandlerRuns, Acting, Ctx
<1>n. /\ n \in RequestType
      /\ n.http = req[r].http /\ n.ctx = req[r].ctx /\ n.js = req[r].js
      /\ n.gone = req[r].gone
      /\ n.lines = req[r].lines + 1
      /\ Written(r, code) = [req EXCEPT ![r] = n]
  <2>1. code \in Code 
    BY <1>1 DEF Acting, Code, ContextType, RequestType
  <2>2. req \in [Requests -> RequestType]
    BY DEF IInv, TypeOK
  <2> HIDE DEF code
  <2> QED
    BY <2>1, <2>2, Replying
<1> HIDE DEF n
<1>3. /\ req' = [req EXCEPT ![r] = p]
      /\ ctx' = [ctx EXCEPT ![req[r].ctx] = v]
      /\ UNCHANGED <<panicked, leaseVars>>
  <2>1. c.http = r /\ Ctx(r) = c
    BY <1>1 DEF Acting, Ctx
  <2>2. req' = Written(r, code)
    BY <2>1 DEF Send, HandlerRuns, Ctx
  <2>3. /\ ctx' = [ctx EXCEPT ![req[r].ctx] = v]
        /\ UNCHANGED <<panicked, leaseVars>>
    BY <1>1, <2>1 DEF IInv, TypeOK, Acting, Send, HandlerRuns, leaseVars
  <2> QED
    BY <1>1, <1>n, <2>2, <2>3 DEF IInv, TypeOK, Acting, RequestType
<1>4. /\ p \in RequestType /\ v \in ContextType /\ p.ctx = req[r].ctx
  BY <1>1, <1>2, <1>n DEF Acting, RequestType, ContextType, Code
<1>5. req'[r] = p /\ ctx'[req[r].ctx] = v /\ Ctx(r) = c /\ Ctx(r)' = v
  BY <1>1, <1>3, <1>4 DEF IInv, TypeOK, Acting, Ctx
<1>6. Consistent(r)' /\ OwnedOrClean(req[r].ctx)'
  BY <1>1, <1>2, <1>n, <1>3, <1>4, <1>5, NoneAssumption
     DEF IInv, TypeOK, L!TypeOK, RequestType, ContextType, Acting, Consistent,
         InStep, OwnContext, OneLine, OwnedOrClean, Unanswered, Excepted,
         Serving, leaseVars
<1>7. IInv'
  BY <1>1, <1>3, <1>4, <1>6, ServedStep
     DEF IInv, TypeOK, L!TypeOK, L!LeaseState, leaseVars, Acting
<1>8. Exchanges(r)
  BY <1>1, <1>2, <1>n, <1>3, <1>5
     DEF IInv, TypeOK, RequestType, ContextType, Exchanges, Stage, Acting,
         Consistent, InStep, OwnContext, OneLine, Excepted
<1> QED BY <1>7, <1>8

\* The next handler answers.
LEMMA InvokeNextStep ==
    ASSUME IInv, NEW r \in Requests, InvokeNext(r)
    PROVE  IInv' /\ Exchanges(r)
<1> DEFINE c == ctx[req[r].ctx]
           n == Reply(req[r], "next")
           p == n
           v == [c EXCEPT !.nextInvoked = TRUE, !.responseSent = TRUE]
<1>1. Acting(r)
  BY Served DEF InvokeNext, HandlerRuns, Has
<1>2. /\ req[r].js \in {"sync", "pending"}
      /\ r \notin Careless => ~c.responseSent
  BY <1>1 DEF InvokeNext, HandlerRuns, Has, Acting, Ctx
<1>n. /\ n \in RequestType
      /\ n.http = req[r].http /\ n.ctx = req[r].ctx /\ n.js = req[r].js
      /\ n.gone = req[r].gone
      /\ n.lines = req[r].lines + 1
      /\ Written(r, "next") = [req EXCEPT ![r] = n]
  <2>1. "next" \in Code 
    BY <1>1 DEF Acting, Code, ContextType, RequestType
  <2>2. req \in [Requests -> RequestType]
    BY DEF IInv, TypeOK
  <2> QED
    BY <2>1, <2>2, Replying
<1> HIDE DEF n
<1>3. /\ req' = [req EXCEPT ![r] = p]
      /\ ctx' = [ctx EXCEPT ![req[r].ctx] = v]
      /\ UNCHANGED <<panicked, leaseVars>>
  <2>1. c.http = r /\ Ctx(r) = c
    BY <1>1 DEF Acting, Ctx
  <2>2. req' = Written(r, "next")
    BY <2>1 DEF InvokeNext, HandlerRuns, Has, Ctx
  <2>3. /\ ctx' = [ctx EXCEPT ![req[r].ctx] = v]
        /\ UNCHANGED <<panicked, leaseVars>>
    BY <1>1, <2>1
       DEF IInv, TypeOK, Acting, InvokeNext, HandlerRuns, Has, leaseVars
  <2> QED
    BY <1>1, <1>n, <2>2, <2>3 DEF IInv, TypeOK, Acting, RequestType
<1>4. /\ p \in RequestType /\ v \in ContextType /\ p.ctx = req[r].ctx
  BY <1>1, <1>2, <1>n DEF Acting, RequestType, ContextType, Code
<1>5. req'[r] = p /\ ctx'[req[r].ctx] = v /\ Ctx(r) = c /\ Ctx(r)' = v
  BY <1>1, <1>3, <1>4 DEF IInv, TypeOK, Acting, Ctx
<1>6. Consistent(r)' /\ OwnedOrClean(req[r].ctx)'
  BY <1>1, <1>2, <1>n, <1>3, <1>4, <1>5, NoneAssumption
     DEF IInv, TypeOK, L!TypeOK, RequestType, ContextType, Acting, Consistent,
         InStep, OwnContext, OneLine, OwnedOrClean, Unanswered, Excepted,
         Serving, leaseVars
<1>7. IInv'
  BY <1>1, <1>3, <1>4, <1>6, ServedStep
     DEF IInv, TypeOK, L!TypeOK, L!LeaseState, leaseVars, Acting
<1>8. Exchanges(r)
  BY <1>1, <1>2, <1>n, <1>3, <1>5
     DEF IInv, TypeOK, RequestType, ContextType, Exchanges, Stage, Acting,
         Consistent, InStep, OwnContext, OneLine, Excepted
<1> QED BY <1>7, <1>8

\* The handler awaits something.
LEMMA HandlerAwaitsStep ==
    ASSUME IInv, NEW r \in Requests, HandlerAwaits(r)
    PROVE  IInv' /\ Exchanges(r)
<1> DEFINE c == ctx[req[r].ctx]
           p == [req[r] EXCEPT !.js = "pending"]
           v == c
<1>1. Acting(r)
  BY Served DEF HandlerAwaits, Js
<1>2. req[r].js = "sync"
  BY <1>1 DEF HandlerAwaits, Js, Acting, Ctx
<1>3. /\ req' = [req EXCEPT ![r] = p]
      /\ ctx' = [ctx EXCEPT ![req[r].ctx] = v]
      /\ UNCHANGED <<panicked, leaseVars>>
  BY <1>1, <1>2 DEF IInv, TypeOK, Acting, HandlerAwaits, Js, leaseVars
<1>4. /\ p \in RequestType /\ v \in ContextType /\ p.ctx = req[r].ctx
  BY <1>1, <1>2 DEF Acting, RequestType, ContextType, Code
<1>5. req'[r] = p /\ ctx'[req[r].ctx] = v /\ Ctx(r) = c /\ Ctx(r)' = v
  BY <1>1, <1>3, <1>4 DEF IInv, TypeOK, Acting, Ctx
<1>6. Consistent(r)' /\ OwnedOrClean(req[r].ctx)'
  BY <1>1, <1>2, <1>3, <1>4, <1>5, NoneAssumption
     DEF IInv, TypeOK, L!TypeOK, RequestType, ContextType, Acting, Consistent,
         InStep, OwnContext, OneLine, OwnedOrClean, Unanswered, Excepted,
         Serving, leaseVars
<1>7. IInv'
  BY <1>1, <1>3, <1>4, <1>6, ServedStep
     DEF IInv, TypeOK, L!TypeOK, L!LeaseState, leaseVars, Acting
<1>8. Exchanges(r)
  BY <1>1, <1>2, <1>3, <1>5
     DEF IInv, TypeOK, RequestType, ContextType, Exchanges, Stage, Acting,
         Consistent, InStep, OwnContext, OneLine, Excepted
<1> QED BY <1>7, <1>8

\* A handler throws, a careful one before it has answered.
LEMMA HandlerThrowsStep ==
    ASSUME IInv, NEW r \in Requests, HandlerThrows(r)
    PROVE  IInv' /\ Exchanges(r)
<1> DEFINE c == ctx[req[r].ctx]
           p == [req[r] EXCEPT !.js = "threw"]
           v == c
<1>1. Acting(r)
  BY Served DEF HandlerThrows, MayThrow, Js, Has
<1>2. /\ req[r].js = "sync"
      /\ r \notin Careless => ~c.responseSent
  BY <1>1 DEF HandlerThrows, MayThrow, Js, Has, Acting, Ctx
<1>3. /\ req' = [req EXCEPT ![r] = p]
      /\ ctx' = [ctx EXCEPT ![req[r].ctx] = v]
      /\ UNCHANGED <<panicked, leaseVars>>
  BY <1>1, <1>2
     DEF IInv, TypeOK, Acting, HandlerThrows, MayThrow, Js, Has, leaseVars
<1>4. /\ p \in RequestType /\ v \in ContextType /\ p.ctx = req[r].ctx
  BY <1>1, <1>2 DEF Acting, RequestType, ContextType, Code
<1>5. req'[r] = p /\ ctx'[req[r].ctx] = v /\ Ctx(r) = c /\ Ctx(r)' = v
  BY <1>1, <1>3, <1>4 DEF IInv, TypeOK, Acting, Ctx
<1>6. Consistent(r)' /\ OwnedOrClean(req[r].ctx)'
  BY <1>1, <1>2, <1>3, <1>4, <1>5, NoneAssumption
     DEF IInv, TypeOK, L!TypeOK, RequestType, ContextType, Acting, Consistent,
         InStep, OwnContext, OneLine, OwnedOrClean, Unanswered, Excepted,
         Serving, leaseVars
<1>7. IInv'
  BY <1>1, <1>3, <1>4, <1>6, ServedStep
     DEF IInv, TypeOK, L!TypeOK, L!LeaseState, leaseVars, Acting
<1>8. Exchanges(r)
  BY <1>1, <1>2, <1>3, <1>5
     DEF IInv, TypeOK, RequestType, ContextType, Exchanges, Stage, Acting,
         Consistent, InStep, OwnContext, OneLine, Excepted
<1> QED BY <1>7, <1>8

\* The resolver or the rejector wakes the request.
LEMMA WakeStep ==
    ASSUME IInv, NEW r \in Requests, Wake(r)
    PROVE  IInv' /\ Exchanges(r)
<1> DEFINE c == ctx[req[r].ctx]
           p == [req[r] EXCEPT !.js = "done"]
           v == [c EXCEPT !.requestDone = 1]
<1>1. Acting(r)
  BY Served DEF Wake
<1>2. req[r].js = "wake"
  BY <1>1 DEF Wake, Acting, Ctx
<1>3. /\ req' = [req EXCEPT ![r] = p]
      /\ ctx' = [ctx EXCEPT ![req[r].ctx] = v]
      /\ UNCHANGED <<panicked, leaseVars>>
  BY <1>1, <1>2 DEF IInv, TypeOK, Acting, Wake, leaseVars
<1>4. /\ p \in RequestType /\ v \in ContextType /\ p.ctx = req[r].ctx
  BY <1>1, <1>2 DEF Acting, RequestType, ContextType, Code
<1>5. req'[r] = p /\ ctx'[req[r].ctx] = v /\ Ctx(r) = c /\ Ctx(r)' = v
  BY <1>1, <1>3, <1>4 DEF IInv, TypeOK, Acting, Ctx
<1>6. Consistent(r)' /\ OwnedOrClean(req[r].ctx)'
  BY <1>1, <1>2, <1>3, <1>4, <1>5, NoneAssumption
     DEF IInv, TypeOK, L!TypeOK, RequestType, ContextType, Acting, Consistent,
         InStep, OwnContext, OneLine, OwnedOrClean, Unanswered, Excepted,
         Serving, leaseVars
<1>7. IInv'
  BY <1>1, <1>3, <1>4, <1>6, ServedStep
     DEF IInv, TypeOK, L!TypeOK, L!LeaseState, leaseVars, Acting
<1>8. Exchanges(r)
  BY <1>1, <1>2, <1>3, <1>5
     DEF IInv, TypeOK, RequestType, ContextType, Exchanges, Stage, Acting,
         Consistent, InStep, OwnContext, OneLine, Excepted
<1> QED BY <1>7, <1>8

\* The resolver answers if nobody has, and if the client is still there.
LEMMA ResolveStep ==
    ASSUME IInv, NEW r \in Requests, Resolve(r)
    PROVE  IInv' /\ Exchanges(r)
<1> DEFINE c == ctx[req[r].ctx]
<1>d. PICK due \in BOOLEAN :
          due <=> Unanswered(req[r].ctx) /\ ~req[r].gone /\ ~c.statusSet
  <2>1. CASE Unanswered(req[r].ctx) /\ ~req[r].gone /\ ~c.statusSet
    BY <2>1
  <2>2. CASE ~(Unanswered(req[r].ctx) /\ ~req[r].gone /\ ~c.statusSet)
    BY <2>2
  <2> QED BY <2>1, <2>2
<1> DEFINE n == IF due THEN Reply(req[r], c.statusCode) ELSE req[r]
           p == [n EXCEPT !.js = "wake"]
           v == [c EXCEPT !.responseSent = TRUE]
<1>1. Acting(r)
  BY Served DEF Resolve, Settle, Resolved, Due
<1>2. req[r].js = "fulfilled"
  BY <1>1 DEF Resolve, Settle, Resolved, Due, Acting, Ctx
<1>n. /\ n \in RequestType
      /\ n.http = req[r].http /\ n.ctx = req[r].ctx /\ n.js = req[r].js
      /\ n.gone = req[r].gone
      /\ n.lines = IF due THEN req[r].lines + 1 ELSE req[r].lines
      /\ (IF due THEN Written(r, c.statusCode) ELSE req)
            = [req EXCEPT ![r] = n]
  <2>1. c.statusCode \in Code 
    BY <1>1 DEF Acting, Code, ContextType, RequestType
  <2>2. req \in [Requests -> RequestType]
    BY DEF IInv, TypeOK
  <2>3. CASE due
    BY <2>1, <2>2, <2>3, Replying
  <2>4. CASE ~(due)
    BY <2>2, <2>4
  <2> QED BY <2>3, <2>4
<1> HIDE DEF n
<1>3. /\ req' = [req EXCEPT ![r] = p]
      /\ ctx' = [ctx EXCEPT ![req[r].ctx] = v]
      /\ UNCHANGED <<panicked, leaseVars>>
  <2>1. c.http = r /\ Ctx(r) = c
    BY <1>1 DEF Acting, Ctx
  <2>2. req' =
          [(IF due THEN Written(r, c.statusCode) ELSE req)
              EXCEPT ![r].js = "wake"]
    BY <2>1, <1>d DEF Resolve, Settle, Resolved, Due, Ctx
  <2>3. /\ ctx' = [ctx EXCEPT ![req[r].ctx] = v]
        /\ UNCHANGED <<panicked, leaseVars>>
    BY <1>1, <2>1
       DEF IInv, TypeOK, Acting, Resolve, Settle, Resolved, Due, leaseVars
  <2> QED
    BY <1>1, <1>n, <2>2, <2>3 DEF IInv, TypeOK, Acting, RequestType
<1>4. /\ p \in RequestType /\ v \in ContextType /\ p.ctx = req[r].ctx
  BY <1>1, <1>2, <1>d, <1>n DEF Acting, RequestType, ContextType, Code
<1>5. req'[r] = p /\ ctx'[req[r].ctx] = v /\ Ctx(r) = c /\ Ctx(r)' = v
  BY <1>1, <1>3, <1>4 DEF IInv, TypeOK, Acting, Ctx
<1>6. Consistent(r)' /\ OwnedOrClean(req[r].ctx)'
  BY <1>1, <1>2, <1>d, <1>n, <1>3, <1>4, <1>5, NoneAssumption
     DEF IInv, TypeOK, L!TypeOK, RequestType, ContextType, Acting, Consistent,
         InStep, OwnContext, OneLine, OwnedOrClean, Unanswered, Excepted,
         Serving, leaseVars
<1>7. IInv'
  BY <1>1, <1>3, <1>4, <1>6, ServedStep
     DEF IInv, TypeOK, L!TypeOK, L!LeaseState, leaseVars, Acting
<1>8. Exchanges(r)
  BY <1>1, <1>2, <1>d, <1>n, <1>3, <1>5
     DEF IInv, TypeOK, RequestType, ContextType, Exchanges, Stage, Acting,
         Consistent, InStep, OwnContext, OneLine, Excepted
<1> QED BY <1>7, <1>8

\* The rejector answers if nobody has, and if the client is still there.
LEMMA RejectStep ==
    ASSUME IInv, NEW r \in Requests, Reject(r)
    PROVE  IInv' /\ Exchanges(r)
<1> DEFINE c == ctx[req[r].ctx]
<1>d. PICK due \in BOOLEAN :
          due <=> Unanswered(req[r].ctx) /\ ~req[r].gone
  <2>1. CASE Unanswered(req[r].ctx) /\ ~req[r].gone
    BY <2>1
  <2>2. CASE ~(Unanswered(req[r].ctx) /\ ~req[r].gone)
    BY <2>2
  <2> QED BY <2>1, <2>2
<1> DEFINE n == IF due THEN Reply(req[r], "error") ELSE req[r]
           p == [n EXCEPT !.js = "wake"]
           v == [c EXCEPT !.responseSent = TRUE]
<1>1. Acting(r)
  BY Served DEF Reject, Settle, Due
<1>2. req[r].js = "rejected"
  BY <1>1 DEF Reject, Settle, Due, Acting, Ctx
<1>n. /\ n \in RequestType
      /\ n.http = req[r].http /\ n.ctx = req[r].ctx /\ n.js = req[r].js
      /\ n.gone = req[r].gone
      /\ n.lines = IF due THEN req[r].lines + 1 ELSE req[r].lines
      /\ (IF due THEN Written(r, "error") ELSE req)
            = [req EXCEPT ![r] = n]
  <2>1. "error" \in Code 
    BY <1>1 DEF Acting, Code, ContextType, RequestType
  <2>2. req \in [Requests -> RequestType]
    BY DEF IInv, TypeOK
  <2>3. CASE due
    BY <2>1, <2>2, <2>3, Replying
  <2>4. CASE ~(due)
    BY <2>2, <2>4
  <2> QED BY <2>3, <2>4
<1> HIDE DEF n
<1>3. /\ req' = [req EXCEPT ![r] = p]
      /\ ctx' = [ctx EXCEPT ![req[r].ctx] = v]
      /\ UNCHANGED <<panicked, leaseVars>>
  <2>1. c.http = r /\ Ctx(r) = c
    BY <1>1 DEF Acting, Ctx
  <2>2. req' =
          [(IF due THEN Written(r, "error") ELSE req)
              EXCEPT ![r].js = "wake"]
    BY <2>1, <1>d DEF Reject, Settle, Due, Ctx
  <2>3. /\ ctx' = [ctx EXCEPT ![req[r].ctx] = v]
        /\ UNCHANGED <<panicked, leaseVars>>
    BY <1>1, <2>1 DEF IInv, TypeOK, Acting, Reject, Settle, Due, leaseVars
  <2> QED
    BY <1>1, <1>n, <2>2, <2>3 DEF IInv, TypeOK, Acting, RequestType
<1>4. /\ p \in RequestType /\ v \in ContextType /\ p.ctx = req[r].ctx
  BY <1>1, <1>2, <1>d, <1>n DEF Acting, RequestType, ContextType, Code
<1>5. req'[r] = p /\ ctx'[req[r].ctx] = v /\ Ctx(r) = c /\ Ctx(r)' = v
  BY <1>1, <1>3, <1>4 DEF IInv, TypeOK, Acting, Ctx
<1>6. Consistent(r)' /\ OwnedOrClean(req[r].ctx)'
  BY <1>1, <1>2, <1>d, <1>n, <1>3, <1>4, <1>5, NoneAssumption
     DEF IInv, TypeOK, L!TypeOK, RequestType, ContextType, Acting, Consistent,
         InStep, OwnContext, OneLine, OwnedOrClean, Unanswered, Excepted,
         Serving, leaseVars
<1>7. IInv'
  BY <1>1, <1>3, <1>4, <1>6, ServedStep
     DEF IInv, TypeOK, L!TypeOK, L!LeaseState, leaseVars, Acting
<1>8. Exchanges(r)
  BY <1>1, <1>2, <1>d, <1>n, <1>3, <1>5
     DEF IInv, TypeOK, RequestType, ContextType, Exchanges, Stage, Acting,
         Consistent, InStep, OwnContext, OneLine, Excepted
<1> QED BY <1>7, <1>8

\* The promise of the handler settles; a careful one that resolves it has
\* answered or has not set a status.
LEMMA HandlerSettlesStep ==
    ASSUME IInv, NEW r \in Requests, HandlerSettles(r)
    PROVE  IInv' /\ Exchanges(r)
<1> DEFINE c == ctx[req[r].ctx]
           p(to) == [req[r] EXCEPT !.js = to]
<1>1. Acting(r)
  BY Served DEF HandlerSettles, HandlerRuns
<1>2. Ctx(r) = c
  BY <1>1 DEF Acting, Ctx
<1>3. PICK to \in {"fulfilled", "rejected"} :
          /\ req[r].js \in {"sync", "pending"}
          /\ to = "fulfilled" /\ r \notin Careless =>
                c.responseSent \/ ~c.statusSet
          /\ req' = [req EXCEPT ![r] = p(to)]
          /\ ctx' = ctx /\ panicked' = panicked
          /\ lease' = lease /\ holds' = holds
  <2>1. req[r].js \in {"sync", "pending"}
    BY DEF HandlerSettles, HandlerRuns
  <2>2. CASE /\ Has(r, "statusOnly") \/ Ctx(r).responseSent \/ ~Ctx(r).statusSet
             /\ Js(r, "fulfilled")
    BY <1>1, <1>2, <2>1, <2>2
       DEF Has, Js, Acting, IInv, TypeOK, leaseVars
  <2>3. CASE Js(r, "rejected")
    BY <1>1, <2>1, <2>3 DEF Js, Acting, IInv, TypeOK, leaseVars
  <2> QED
    BY <2>2, <2>3 DEF HandlerSettles
<1>4. /\ p(to) \in RequestType /\ p(to).ctx = req[r].ctx
      /\ ctx' = [ctx EXCEPT ![req[r].ctx] = c]
  BY <1>1, <1>3 DEF Acting, RequestType, IInv, TypeOK
<1>5. req'[r] = p(to) /\ ctx'[req[r].ctx] = c /\ Ctx(r)' = c
  BY <1>1, <1>3, <1>4 DEF IInv, TypeOK, Acting, Ctx
<1>6. Consistent(r)' /\ OwnedOrClean(req[r].ctx)'
  BY <1>1, <1>2, <1>3, <1>4, <1>5, NoneAssumption
     DEF IInv, TypeOK, L!TypeOK, RequestType, ContextType, Acting, Consistent,
         InStep, OwnContext, OneLine, OwnedOrClean, Unanswered, Excepted,
         Serving
<1>7. IInv'
  BY <1>1, <1>3, <1>4, <1>6, ServedStep DEF IInv, TypeOK, L!TypeOK, Acting
<1>8. Exchanges(r)
  BY <1>1, <1>3, <1>5
     DEF IInv, TypeOK, RequestType, Exchanges, Stage, Acting
<1> QED BY <1>7, <1>8

-----------------------------------------------------------------------------
(* The beginning and the end of a request, and of the process. *)

\* handleAsExpress takes a context that serves nobody, as good as new.
LEMMA BeginStep ==
    ASSUME IInv, NEW r \in Requests, NEW e \in RequestContexts, Begin(r, e)
    PROVE  IInv' /\ Exchanges(r)
<1> DEFINE p == [req[r] EXCEPT !.http = "call", !.ctx = e, !.js = "queued"]
           v == [ctx[e] EXCEPT !.pooled = "used", !.http = r]
<1>1. /\ Consistent(r) /\ OwnedOrClean(e)
      /\ req[r] \in RequestType /\ ctx[e] \in ContextType
      /\ r # None
  BY NoneAssumption DEF IInv, TypeOK, Consistent
<1>2. /\ req[r].http = "new" /\ req[r].ctx = None /\ req[r].js = "idle"
      /\ ctx[e].pooled # "used" /\ ctx[e].http = None
  BY <1>1 DEF Begin, PoolGet, Consistent, InStep, OwnedOrClean
<1>3. /\ req' = [req EXCEPT ![r] = p]
      /\ ctx' = [ctx EXCEPT ![e] = v]
      /\ panicked' = panicked /\ holds' = holds
      /\ lease' = [lease EXCEPT ![r] = "held"]
  BY DEF IInv, TypeOK, Begin, L!Grant
<1>4. p \in RequestType /\ v \in ContextType
  BY <1>1 DEF RequestType, ContextType
<1>5. req'[r] = p /\ ctx'[e] = v /\ Ctx(r)' = v /\ lease'[r] = "held"
  BY <1>3 DEF IInv, TypeOK, L!TypeOK, Ctx
<1>6. TypeOK'
  <2>1. /\ req' \in [Requests -> RequestType]
        /\ ctx' \in [RequestContexts -> ContextType]
    BY <1>3, <1>4 DEF IInv, TypeOK
  <2>2. L!TypeOK'
    BY <1>3 DEF IInv, TypeOK, L!TypeOK, L!LeaseState
  <2>3. panicked' \in BOOLEAN
    BY <1>3 DEF IInv, TypeOK
  <2> QED
    BY <2>1, <2>2, <2>3 DEF TypeOK
<1>7. Consistent(r)' /\ OwnedOrClean(e)'
  <2>1. /\ p.http = "call" /\ p.ctx = e /\ p.js = "queued"
        /\ p.lines = req[r].lines
        /\ v.pooled = "used" /\ v.http = r /\ v.cached = None
        /\ v.requestDone = 0 /\ ~v.nextInvoked /\ ~v.responseSent
    BY <1>1, <1>2
       DEF RequestType, ContextType, OwnedOrClean, Unanswered
  <2> HIDE DEF p, v
  <2>2. InStep(r)' /\ Serving(r)'
    BY <1>5, <2>1, NoneAssumption DEF InStep, Serving
  <2>3. OwnContext(r)'
    BY <1>5, <2>1 DEF OwnContext, Excepted
  <2>4. r \notin Careless => OneLine(r)'
    BY <1>1, <1>2, <1>5, <2>1 DEF Consistent, OneLine, Excepted
  <2>5. OwnedOrClean(e)'
    BY <1>1, <1>5, <2>1, <2>2 DEF OwnedOrClean
  <2> QED
    BY <2>2, <2>3, <2>4, <2>5 DEF Consistent
<1>8. IInv'
  <2>1. /\ req'[r].ctx = e
        /\ \A q \in Requests \ {r} : req'[q] = req[q] /\ lease'[q] = lease[q]
        /\ \A d \in RequestContexts \ {e} : ctx'[d] = ctx[d]
    BY <1>1, <1>3, <1>5 DEF IInv, TypeOK, L!TypeOK, RequestType
  <2> QED
    BY <1>2, <1>6, <1>7, <2>1, Frame
<1>9. Exchanges(r)
  BY <1>1, <1>2, <1>3, <1>5
     DEF IInv, TypeOK, RequestType, Exchanges, Stage, Consistent, OneLine
<1> QED BY <1>8, <1>9

\* Cleanup gives the context back; no JavaScript of the request is left that
\* could answer on it, so it is as good as new but for its proxies.
LEMMA ResetContextStep ==
    ASSUME IInv, NEW r \in Requests, ResetContext(r)
    PROVE  IInv' /\ Exchanges(r)
<1> DEFINE e == req[r].ctx
           v == [ctx[e] EXCEPT !.pooled = "pooled", !.http = None,
                               !.cached = None, !.nextInvoked = FALSE,
                               !.responseSent = FALSE, !.statusSet = FALSE,
                               !.statusCode = "noContent"]
<1>1. /\ Consistent(r) /\ Serving(r) /\ lease[r] = "returned"
      /\ req[r] \in RequestType /\ req[r].http = "returned"
  <2>1. lease[r] = "returned" /\ Consistent(r) /\ req[r] \in RequestType
    BY DEF IInv, TypeOK, Consistent, ResetContext, L!Reclaim
  <2> QED
    BY <2>1 DEF Consistent, InStep, Serving, RequestType
<1>2. /\ e \in RequestContexts /\ ctx[e] \in ContextType /\ ctx[e].http = r
      /\ ctx[e].requestDone = 0
  <2>1. e \in RequestContexts
    BY <1>1 DEF Consistent, InStep, RequestType
  <2>2. ctx[e] \in ContextType
    BY <2>1 DEF IInv, TypeOK
  <2> QED
    BY <1>1, <2>1, <2>2
       DEF Consistent, InStep, OwnContext, Excepted, Ctx, ContextType
<1>3. /\ ctx' = [ctx EXCEPT ![e] = v]
      /\ panicked' = panicked /\ req' = req /\ holds' = holds
      /\ lease' = [lease EXCEPT ![r] = "reclaimed"]
  BY DEF ResetContext, L!Reclaim
<1>4. v \in ContextType
  BY <1>2 DEF ContextType
<1>5. ctx'[e] = v /\ lease'[r] = "reclaimed"
  BY <1>2, <1>3 DEF IInv, TypeOK, L!TypeOK
<1>6. TypeOK'
  <2>1. ctx' \in [RequestContexts -> ContextType]
    BY <1>3, <1>4 DEF IInv, TypeOK
  <2>2. L!TypeOK'
    BY <1>3 DEF IInv, TypeOK, L!TypeOK, L!LeaseState
  <2>3. req' \in [Requests -> RequestType] /\ panicked' \in BOOLEAN
    BY <1>3 DEF IInv, TypeOK
  <2> QED
    BY <2>1, <2>2, <2>3 DEF TypeOK
<1>7. Consistent(r)' /\ OwnedOrClean(e)'
  <2>1. ~Serving(r)' /\ InStep(r)'
    BY <1>1, <1>3, <1>5 DEF Consistent, InStep, Serving
  <2>2. OwnContext(r)' /\ (r \notin Careless => OneLine(r)')
    BY <1>1, <1>3, <2>1
       DEF Consistent, OwnContext, OneLine, Excepted, Serving
  <2>3. OwnedOrClean(e)'
    <3>1. /\ v.pooled = "pooled" /\ v.http = None /\ v.cached = None
          /\ ~v.nextInvoked /\ ~v.responseSent /\ ~v.statusSet
          /\ v.statusCode = "noContent" /\ v.requestDone = 0
      BY <1>2 DEF ContextType
    <3>2. e' = e
      BY <1>3
    <3> HIDE DEF v
    <3> QED
      BY <1>5, <3>1, <3>2 DEF OwnedOrClean, Unanswered
  <2> QED
    BY <2>1, <2>2, <2>3 DEF Consistent
<1>8. IInv'
  <2>1. /\ \A q \in Requests \ {r} : req'[q] = req[q] /\ lease'[q] = lease[q]
        /\ \A d \in RequestContexts \ {e} : ctx'[d] = ctx[d]
    BY <1>3 DEF IInv, TypeOK, L!TypeOK
  <2> QED
    BY <1>2, <1>3, <1>6, <1>7, <2>1, Frame
<1>9. Exchanges(r)
  BY <1>3 DEF Exchanges
<1> QED BY <1>8, <1>9

\* Neither a stutter nor the end of the process changes what the invariant
\* speaks of.
LEMMA NothingMoves ==
    ASSUME IInv, UNCHANGED <<req, ctx, leaseVars>>, panicked' \in BOOLEAN
    PROVE  IInv' /\ \A r \in Requests : Exchanges(r)
<1>1. req' = req /\ ctx' = ctx /\ lease' = lease /\ holds' = holds
  BY DEF leaseVars
<1>2. TypeOK'
  BY <1>1 DEF IInv, TypeOK, L!TypeOK
<1>3. /\ \A q \in Requests : InStep(q)' /\ OwnContext(q)'
      /\ \A q \in Requests \ Careless : OneLine(q)'
  BY <1>1
     DEF IInv, InStep, OwnContext, OneLine, Excepted, Serving, Ctx
<1>4. \A e \in RequestContexts : OwnedOrClean(e)'
  BY <1>1 DEF IInv, OwnedOrClean, Serving, Unanswered
<1> QED
  BY <1>1, <1>2, <1>3, <1>4 DEF IInv, Exchanges

-----------------------------------------------------------------------------
(* Theorems. *)

\* In the initial state nothing is served and every context is clean.
LEMMA InitHolds == Init => IInv
<1> SUFFICES ASSUME Init PROVE IInv
  OBVIOUS
<1>1. TypeOK
  <2>1. req \in [Requests -> RequestType]
    BY DEF Init, RequestType
  <2>2. ctx \in [RequestContexts -> ContextType]
    BY DEF Init, ContextType
  <2>3. L!TypeOK
    BY DEF Init, L!Init, L!TypeOK, L!LeaseState
  <2> QED
    BY <2>1, <2>2, <2>3 DEF Init, TypeOK
<1>2. \A r \in Requests : InStep(r) /\ OwnContext(r) /\ OneLine(r)
  BY DEF Init, L!Init, InStep, OwnContext, OneLine, Excepted, Serving
<1>3. \A e \in RequestContexts : OwnedOrClean(e)
  BY DEF Init, OwnedOrClean, Unanswered
<1> QED
  BY <1>1, <1>2, <1>3 DEF IInv

\* Every step of a request keeps the invariant and moves its exchange as
\* HttpExchange allows.
LEMMA StepHolds ==
    ASSUME IInv, NEW r \in Requests, Step(r)
    PROVE  IInv' /\ Exchanges(r)
<1>1. ASSUME NEW e \in RequestContexts, Begin(r, e)
      PROVE  IInv' /\ Exchanges(r)
  BY <1>1, BeginStep
<1>2. CASE HttpStep(r)
  BY <1>2, CallReturnsStep, ExceptionStep, ReturnStep DEF HttpStep
<1>3. CASE SettleStep(r)
  <2>1. CASE Panic(r)
    BY <2>1, NothingMoves DEF Panic
  <2> QED
    BY <1>3, <2>1, ResolveStep, RejectStep, WakeStep DEF SettleStep
<1>4. CASE \/ Disconnect(r) \/ ResetContext(r) \/ StartHandler(r)
           \/ ReadProperty(r) \/ SetStatus(r) \/ Send(r) \/ InvokeNext(r)
           \/ HandlerAwaits(r) \/ HandlerThrows(r) \/ HandlerSettles(r)
  BY <1>4, DisconnectStep, ResetContextStep, StartHandlerStep,
     ReadPropertyStep, SetStatusStep, SendStep, InvokeNextStep,
     HandlerAwaitsStep, HandlerThrowsStep, HandlerSettlesStep
<1> QED
  BY <1>1, <1>2, <1>3, <1>4 DEF Step

\* The invariant is inductive.
LEMMA NextHolds == IInv /\ [Next]_vars => IInv'
<1>1. ASSUME IInv, UNCHANGED vars PROVE IInv'
  <2>1. UNCHANGED <<req, ctx, leaseVars>> /\ panicked' \in BOOLEAN
    BY <1>1 DEF vars, IInv, TypeOK
  <2> QED
    BY <1>1, <2>1, NothingMoves
<1> QED
  BY <1>1, StepHolds DEF Next

\* What is in the pool is clean: nothing of the requests that had it is left.
LEMMA PoolIsClean == IInv => CleanContexts
<1> SUFFICES ASSUME IInv, NEW e \in RequestContexts, ctx[e].pooled = "pooled"
             PROVE  /\ ctx[e].requestDone = 0
                    /\ Unanswered(e)
                    /\ ~ctx[e].statusSet /\ ctx[e].statusCode = "noContent"
                    /\ \A r \in Requests :
                          req[r].ctx = e => req[r].js \in {"threw", "done"}
  BY DEF CleanContexts
<1>1. OwnedOrClean(e) /\ e # None
  BY NoneAssumption DEF IInv
<1>2. ASSUME NEW r \in Requests, req[r].ctx = e
      PROVE  req[r].js \in {"threw", "done"}
  <2>1. Consistent(r) /\ req[r] \in RequestType
    BY DEF IInv, TypeOK, Consistent
  <2>2. ~Serving(r)
    BY <1>2, <2>1 DEF Consistent, OwnContext, Ctx
  <2>3. req[r].js # "idle"
    BY <1>1, <1>2, <2>1 DEF Consistent, InStep
  <2> QED
    BY <2>1, <2>2, <2>3, Served DEF Acting, RequestType
<1> QED
  BY <1>1, <1>2 DEF OwnedOrClean

\* A handler that runs is served by a context that cached only its properties.
LEMMA CacheIsOwn == IInv => OwnProperties
<1> SUFFICES ASSUME IInv, NEW r \in Requests, req[r].js \in {"sync", "pending"}
             PROVE  Ctx(r).cached \in {None, r}
  BY DEF OwnProperties
<1> QED
  BY Served DEF Acting, Consistent, OwnContext

\* The inductive invariant holds in every behaviour of handleAsExpress, a
\* context waits in the pool with an empty channel and cleared flags, and no
\* handler reads the properties of another request.
THEOREM Invariance == Spec => []ContextsInv
<1>1. IInv => ContextsInv
  BY PoolIsClean, CacheIsOwn DEF ContextsInv
<1> QED
  BY <1>1, InitHolds, NextHolds, PTL DEF Spec

\* The resolver and the rejector never block the event loop on requestDone.
THEOREM LoopStaysFree == Spec => []LoopNeverBlocks
<1>1. IInv => LoopNeverBlocks
  <2> SUFFICES ASSUME IInv, NEW r \in Requests, req[r].js = "wake"
               PROVE  Ctx(r).requestDone = 0
    BY DEF LoopNeverBlocks
  <2>1. Acting(r)
    BY Served
  <2> QED
    BY <2>1 DEF Acting, Consistent, OwnContext, Excepted, ContextType, Ctx
<1> QED
  BY <1>1, Invariance, PTL DEF ContextsInv

\* Only the resolver and the rejector can end the process.
LEMMA OnlyPanicPanics ==
    ASSUME NEW r \in Requests, Step(r)
    PROVE  Panic(r) \/ panicked' = panicked
  BY DEF Step, HttpStep, SettleStep, Begin, CallReturns, Exception, Return,
         Disconnect, ResetContext, StartHandler, ReadProperty, SetStatus, Send,
         InvokeNext, HandlerAwaits, HandlerThrows, MayThrow, HandlerSettles, Js,
         Resolve, Reject, Settle, Wake

\* What ends the process is the resolver of a request whose handler never
\* looked at ctx.res, on a context where no earlier one did; never a settling
\* on a context that was reset.
THEOREM NeverPanics == Spec => []NoPanic
<1>1. ASSUME IInv, NEW r \in Requests, Panic(r)
      PROVE  /\ Has(r, "ignoreRes") /\ req[r].js = "fulfilled"
             /\ Ctx(r).http = r /\ ~Ctx(r).responseProxy
  <2>1. Acting(r)
    BY <1>1, Served DEF Panic
  <2>2. Ctx(r).http = r /\ r # None
    BY <2>1, NoneAssumption DEF Acting, Ctx
  <2>3. req[r].js = "fulfilled" /\ ~Ctx(r).responseProxy
    BY <1>1, <2>2 DEF Panic, Panics
  <2> QED
    BY <2>1, <2>2, <2>3 DEF Acting, Consistent, OwnContext
<1>2. IInv /\ NoPanic /\ [Next]_vars => NoPanic'
  <2> SUFFICES ASSUME IInv, NoPanic, [Next]_vars, panicked'
               PROVE  NoPanic'
    BY DEF NoPanic
  <2>1. CASE UNCHANGED vars
    BY <2>1 DEF NoPanic, vars, Ctx
  <2>2. CASE ~UNCHANGED vars
    <3>1. PICK r \in Requests : Step(r) /\ ~panicked
      BY <2>2 DEF Next
    <3>2. Panic(r)
      BY <3>1, OnlyPanicPanics
    <3>3. req' = req /\ ctx' = ctx
      BY <3>2 DEF Panic
    <3> QED
      BY <1>1, <3>2, <3>3 DEF NoPanic, Ctx
  <2> QED
    BY <2>1, <2>2
<1>3. Init => NoPanic
  BY DEF Init, NoPanic
<1>4. ContextsInv => IInv
  BY DEF ContextsInv
<1> QED
  BY <1>2, <1>3, <1>4, Invariance, PTL DEF Spec

-----------------------------------------------------------------------------
(* Every behaviour is one of HttpExchange. *)

\* Under the invariant no careful request has two status lines: exchange never
\* leaves the states of HttpExchange.
LEMMA ExchangeIsStage ==
    ASSUME IInv
    PROVE  exchange = [r \in Careful |-> Stage(req[r])]
<1> SUFFICES ASSUME NEW r \in Careful
             PROVE  exchange[r] = Stage(req[r])
  BY DEF exchange
<1>1. req[r].lines \in {0, 1}
  BY DEF IInv, OneLine, Careful
<1> QED
  BY <1>1 DEF exchange, Stage, Careful

\* The same, in the state after a step.
LEMMA ExchangeIsStagePrimed ==
    IInv' => exchange' = [r \in Careful |-> Stage(req'[r])]
<1>1. IInv => exchange = [r \in Careful |-> Stage(req[r])]
  BY ExchangeIsStage
<1>2. (IInv => exchange = [r \in Careful |-> Stage(req[r])])'
  BY <1>1, PTL
<1> QED
  BY <1>2 DEF Stage, Careful

\* One status line per request with a careful handler, and none only for a
\* client that has gone, whatever a careless handler did to the RequestContext
\* before.
THEOREM Refinement == Spec => ImplementsExchange
<1> DEFINE gone == [r \in Careful |-> req[r].gone]
<1>1. Init => E!Init
  <2> SUFFICES ASSUME Init PROVE E!Init
    OBVIOUS
  <2>1. exchange = [r \in Careful |-> Stage(req[r])]
    BY InitHolds, ExchangeIsStage
  <2>2. \A r \in Careful : Stage(req[r]) = "idle" /\ req[r].gone = FALSE
    BY DEF Init, Stage, Careful
  <2> QED
    BY <2>1, <2>2 DEF E!Init
<1>2. ASSUME IInv, IInv', NEW r \in Requests, Exchanges(r)
      PROVE  E!Next \/ UNCHANGED E!vars
  <2>1. /\ exchange = [q \in Careful |-> Stage(req[q])]
        /\ exchange' = [q \in Careful |-> Stage(req'[q])]
    BY <1>2, ExchangeIsStage, ExchangeIsStagePrimed
  <2>2. \A q \in Requests \ {r} : req'[q] = req[q]
    BY <1>2 DEF Exchanges
  <2>3. CASE r \in Careless
    <3>1. \A q \in Careful : req'[q] = req[q]
      BY <2>2, <2>3 DEF Careful
    <3> QED
      BY <2>1, <3>1 DEF E!vars
  <2>4. CASE r \notin Careless
    <3>1. r \in Careful
      BY <2>4 DEF Careful
    <3>2. /\ exchange' = [exchange EXCEPT ![r] = Stage(req'[r])]
          /\ exchange[r] = Stage(req[r])
          /\ gone' = [gone EXCEPT ![r] = req'[r].gone]
      BY <2>1, <2>2, <3>1 DEF Careful
    <3>3. CASE req'[r].gone = TRUE /\ Stage(req[r]) = Stage(req'[r])
      <4>1. E!Disconnect(r)
        BY <2>1, <3>1, <3>2, <3>3 DEF E!Disconnect
      <4> QED
        BY <3>1, <4>1 DEF E!Next
    <3>4. CASE ~(req'[r].gone = TRUE /\ Stage(req[r]) = Stage(req'[r]))
      <4>1. req'[r].gone = req[r].gone
        BY <1>2, <2>4, <3>4 DEF Exchanges
      <4>2. gone' = gone
        BY <3>1, <3>2, <4>1
      <4>3. CASE Stage(req[r]) = Stage(req'[r])
        BY <2>1, <3>2, <4>2, <4>3 DEF E!vars
      <4>4. CASE Stage(req[r]) # Stage(req'[r])
        <5>1. E!Accept(r) \/ E!Answer(r) \/ E!FinishBody(r) \/ E!Close(r)
          BY <1>2, <2>4, <3>1, <3>2, <3>4, <4>2, <4>4
             DEF Exchanges, E!Accept, E!Answer, E!FinishBody, E!Close, E!Move
        <5> QED
          BY <3>1, <5>1 DEF E!Next
      <4> QED
        BY <4>3, <4>4
    <3> QED
      BY <3>3, <3>4
  <2> QED
    BY <2>3, <2>4
<1>3. ASSUME UNCHANGED vars
      PROVE  UNCHANGED E!vars
  BY <1>3 DEF vars, E!vars, exchange
<1>4. IInv /\ IInv' /\ [Next]_vars => [E!Next]_(E!vars)
  <2> SUFFICES ASSUME IInv, IInv', [Next]_vars PROVE [E!Next]_(E!vars)
    OBVIOUS
  <2>1. ASSUME NEW r \in Requests, Step(r) PROVE E!Next \/ UNCHANGED E!vars
    BY <1>2, <2>1, StepHolds
  <2> QED
    BY <1>3, <2>1 DEF Next
<1>5. ContextsInv => IInv
  BY DEF ContextsInv
<1> QED
  BY <1>1, <1>4, <1>5, Invariance, PTL DEF Spec, E!Spec, ImplementsExchange
=============================================================================
