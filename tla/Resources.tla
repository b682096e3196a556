----------------------------- MODULE Resources -----------------------------
(***************************************************************************)
(* The pooled native objects of a request and the list of cleanups that    *)
(* gives them back: RegisterCleanup and release of io_context.go, x.Pool,  *)
(* and the objects of event, extensions/fetch, extensions/stream and       *)
(* extensions/common/shared that are taken from a pool while the           *)
(* JavaScript of a request runs.                                           *)
(*                                                                         *)
(* The goroutine that runs the cleanups of one request interleaves with    *)
(* the requests that are served next, which may take an object as soon as  *)
(* it is in its pool.  When the cleanups may start is the matter of        *)
(* IOContext; here it is a Lease.                                          *)
(***************************************************************************)
EXTENDS Naturals, Sequences, FiniteSets

CONSTANTS
    Requests,   \* HTTP requests, each served once
    Extensions, \* promises passed to waitUntil
    Events,     \* objects that can exist: FetchEvents with their request proxy
    Fetchers,   \* NativeFetchers
    Responses,  \* ResponseProxys
    Streams,    \* ReadableStreams with their reader
    Headers,    \* HeadersProxys
    Capacity,   \* of each pool
    None        \* nil

ASSUME CapacityAssumption == Capacity \in Nat
ASSUME NoneAssumption == None \notin Requests

\* What is told apart below is different, and a promise is not a response proxy.
ASSUME TypesAssumption ==
    /\ Responses \cap (Events \cup Fetchers \cup Streams \cup Headers) = {}
    /\ Events \cap (Fetchers \cup Streams \cup Headers) = {}
    /\ Extensions \cap Responses = {}

Objects == Events \cup Fetchers \cup Responses \cup Streams \cup Headers

VARIABLES
    obj,     \* per object, see ObjType
    call,    \* per response proxy, the doFetch that took it, see CallType
    reader,  \* reader[s]: the request whose readInto has a goroutine at s
    cleanup, \* cleanup[r]: cleanupFuncs of its IOContext
    lease, holds \* the IOContext of each request

L == INSTANCE Lease WITH Holds <- Extensions \cup Responses

leaseVars == <<lease, holds>>
vars == <<obj, call, reader, cleanup, leaseVars>>

\* at: "out" if not built yet or left to the garbage collector; of: the
\* request whose IOContext, header or body it has; refs: the objects it refers
\* to.
ObjType ==
    [at : {"out", "pooled", "used"},
     of : Requests \cup {None},
     refs : SUBSET Objects]

\* at: its progress; by: the fetcher.
CallType ==
    [at : {"none", "called", "doing", "posted", "failed", "answered"},
     by : Fetchers \cup {None}]

\* Types of every variable.
TypeOK ==
    /\ obj \in [Objects -> ObjType]
    /\ call \in [Responses -> CallType]
    /\ reader \in [Streams -> Requests \cup {None}]
    /\ cleanup \in [Requests -> Seq([do : {"put", "reset"}, obj : Objects])]
    /\ L!TypeOK

NoCall == [at |-> "none", by |-> None]

Init ==
    /\ obj = [o \in Objects |-> [at |-> "out", of |-> None, refs |-> {}]]
    /\ call = [p \in Responses |-> NoCall]
    /\ reader = [s \in Streams |-> None]
    /\ cleanup = [r \in Requests |-> <<>>]
    /\ L!Init

-----------------------------------------------------------------------------
(* Pools. *)

Pool(o) ==
    CHOOSE K \in {Events, Fetchers, Responses, Streams, Headers} : o \in K

Pooled(K) == {o \in K : obj[o].at = "pooled"}

\* Get returns o: an object of the pool, or a new one when it is empty.
Gets(o) ==
    IF Pooled(Pool(o)) = {} THEN obj[o].at = "out" ELSE obj[o].at = "pooled"

\* Faulty: Put waits for room in the queue.
PutAwaitingRoom(o, kept) ==
    /\ Cardinality(Pooled(Pool(o))) < Capacity
    /\ obj' = [obj EXCEPT ![o] = [kept EXCEPT !.at = "pooled"]]

\* Put: a full queue drops o, which is then garbage.
Put(o, kept) ==
    obj' = [obj EXCEPT ![o] =
               [kept EXCEPT !.at = IF Cardinality(Pooled(Pool(o))) < Capacity
                                   THEN "pooled" ELSE "out"]]

-----------------------------------------------------------------------------
(* The HTTP goroutine. *)

\* Nothing that the JavaScript of r awaits is under way.
Idle(r) ==
    /\ \A p \in Responses :
          call[p].at \in {"called", "doing", "posted", "failed"} =>
              obj[call[p].by].of # r
    /\ \A s \in Streams : reader[s] # r

ThenPut(r, o) == [cleanup EXCEPT ![r] = Append(@, [do |-> "put", obj |-> o])]

\* handleAsEvent takes an event.
Begin(r, e) ==
    /\ L!Grant(r)
    /\ Gets(e)
    /\ obj' = [obj EXCEPT ![e].at = "used", ![e].of = r]
    /\ cleanup' = ThenPut(r, e)
    /\ UNCHANGED <<call, reader>>

\* It returns; JavaScript awaits what it starts, in the handler or in an
\* extension.
Return(r) ==
    /\ Idle(r) \/ holds[r] \cap Extensions # {}
    /\ L!Return(r)
    /\ UNCHANGED <<obj, call, reader, cleanup>>

-----------------------------------------------------------------------------
(* JavaScript. *)

\* Code of r runs: its handler or an extension.
Runs(r) == lease[r] = "held" \/ holds[r] \cap Extensions # {}

WaitUntil(r, x) ==
    /\ Runs(r)
    /\ L!Hold(r, x)
    /\ UNCHANGED <<obj, call, reader, cleanup>>

Conclude(r, x) ==
    /\ Idle(r) \/ lease[r] = "held" \/ holds[r] \cap Extensions # {x}
    /\ L!Drop(r, x)
    /\ UNCHANGED <<obj, call, reader, cleanup>>

\* The objects whose properties code of r can look at.
Uses(r) ==
    {e \in Events : obj[e].of = r}
        \cup {p \in Responses : call[p].at = "answered" /\ obj[p].of = r}

\* A property of u that is initialised when it is looked at first: o is taken
\* for it, and its return registered.
Lazily(r, u, K, o) ==
    /\ Runs(r)
    /\ u \in Uses(r)
    /\ obj[u].refs \cap K = {}
    /\ o \in K
    /\ Gets(o)
    /\ obj' = [obj EXCEPT ![u].refs = @ \cup {o},
                          ![o].at = "used", ![o].of = obj[u].of]
    /\ cleanup' = ThenPut(obj[u].of, o)
    /\ UNCHANGED <<call, reader, leaseVars>>

\* evt.fetch.
GetFetch(r, e, f) == e \in Events /\ Lazily(r, e, Fetchers, f)

\* evt.request.headers.
GetHeaders(r, e, h) == e \in Events /\ Lazily(r, e, Headers, h)

\* evt.request.body.
GetBody(r, e, s) == e \in Events /\ Lazily(r, e, Streams, s)

\* headers of a fetched response.
GetResponseHeaders(r, p, h) == p \in Responses /\ Lazily(r, p, Headers, h)

\* readInto of a stream that code of r can reach: a goroutine starts.
StartRead(r, s) ==
    /\ Runs(r)
    /\ \E u \in Uses(r) : s \in obj[u].refs
    /\ reader[s] = None
    /\ reader' = [reader EXCEPT ![s] = r]
    /\ UNCHANGED <<obj, call, cleanup, leaseVars>>

\* It reads from the reader it finds, and answers.
Read(s) ==
    /\ reader[s] # None
    /\ reader' = [reader EXCEPT ![s] = None]
    /\ UNCHANGED <<obj, call, cleanup, leaseVars>>

-----------------------------------------------------------------------------
(* A fetch: doFetch, its goroutine, and the job it posts to the loop. *)

CallMoves(p, at) == call' = [call EXCEPT ![p].at = at]

\* doFetch takes the response proxy before anything is known of the response.
DoFetch(r, e, f, p) ==
    /\ Runs(r)
    /\ e \in Uses(r) /\ f \in obj[e].refs \cap Fetchers
    /\ Gets(p)
    /\ obj' = [obj EXCEPT ![p].at = "used"]
    /\ call' = [call EXCEPT ![p] = [at |-> "called", by |-> f]]
    /\ cleanup' = ThenPut(obj[f].of, p)
    /\ UNCHANGED <<reader, leaseVars>>

\* AcquireFetchToken.
Acquire(p) ==
    /\ call[p].at = "called"
    /\ L!Hold(obj[call[p].by].of, p)
    /\ CallMoves(p, "doing")
    /\ UNCHANGED <<obj, reader, cleanup>>

\* Its context ends first, or doFetch has rejected the body of its request and
\* started no goroutine.
AcquireFails(p) ==
    /\ call[p].at = "called"
    /\ CallMoves(p, "failed")
    /\ UNCHANGED <<obj, reader, cleanup, leaseVars>>

\* The client has a response or an error.
Do(p) ==
    /\ call[p].at = "doing"
    /\ CallMoves(p, "posted") \/ CallMoves(p, "failed")
    /\ UNCHANGED <<obj, reader, cleanup, leaseVars>>

\* ReleaseFetchToken, after the job was posted and maybe after it has run.
ReleaseToken(p) ==
    /\ call[p].at # "doing"
    /\ \E r \in Requests : L!Drop(r, p)
    /\ UNCHANGED <<obj, call, reader, cleanup>>

Reject(p) ==
    /\ call[p].at = "failed"
    /\ call' = [call EXCEPT ![p] = NoCall]
    /\ UNCHANGED <<obj, reader, cleanup, leaseVars>>

\* Faulty: WithResponse registers the return of the proxy a second time.
WithResponsePutAgain(p, s) ==
    LET r == obj[call[p].by].of IN
    /\ Gets(s)
    /\ obj' = [obj EXCEPT ![s].at = "used", ![s].of = r,
                          ![p].of = r, ![p].refs = {s}]
    /\ cleanup' = [cleanup EXCEPT ![r] =
                      @ \o << [do |-> "put", obj |-> s], [do |-> "reset", obj |-> p],
                              [do |-> "put", obj |-> p] >>]

\* WithResponse: a stream over the body, and the proxy bound to the response.
WithResponse(p, s) ==
    LET r == obj[call[p].by].of IN
    /\ Gets(s)
    /\ obj' = [obj EXCEPT ![s].at = "used", ![s].of = r,
                          ![p].of = r, ![p].refs = {s}]
    /\ cleanup' = [cleanup EXCEPT ![r] =
                      @ \o << [do |-> "put", obj |-> s], [do |-> "reset", obj |-> p] >>]

Answer(p, s) ==
    /\ call[p].at = "posted"
    /\ WithResponse(p, s)
    /\ CallMoves(p, "answered")
    /\ UNCHANGED <<reader, leaseVars>>

-----------------------------------------------------------------------------
(* release. *)

\* reset of o: it refers to nothing of its request.
Clean(o) == [obj[o] EXCEPT !.of = None, !.refs = {}]

\* Faulty: the request proxy of an event keeps its headers and its body.
KeepingRequest(o) ==
    CASE o \in Responses -> obj[o]
      [] o \in Events -> [obj[o] EXCEPT !.of = None, !.refs = @ \ Fetchers]
      [] OTHER -> Clean(o)

\* What is left of o when its pool gets it: a response is reset by a cleanup
\* of its own.
Left(o) == IF o \in Responses THEN obj[o] ELSE Clean(o)

\* One cleanup.
Run(c) ==
    IF c.do = "reset"
    THEN /\ obj' = [obj EXCEPT ![c.obj] = Clean(c.obj)]
         /\ UNCHANGED call
    ELSE /\ Put(c.obj, Left(c.obj))
         /\ call' = [p \in Responses |-> IF p = c.obj THEN NoCall ELSE call[p]]

Over(r) == lease[r] = "returned" /\ holds[r] = {}

\* Faulty: the cleanups run in the order they were registered.
ReleaseInOrder(r) ==
    /\ Over(r) /\ cleanup[r] # <<>>
    /\ Run(Head(cleanup[r]))
    /\ cleanup' = [cleanup EXCEPT ![r] = Tail(@)]
    /\ UNCHANGED <<reader, leaseVars>>

\* The cleanups run from the last one registered to the first.
Release(r) ==
    /\ Over(r) /\ cleanup[r] # <<>>
    /\ Run(cleanup[r][Len(cleanup[r])])
    /\ cleanup' = [cleanup EXCEPT ![r] = SubSeq(@, 1, Len(@) - 1)]
    /\ UNCHANGED <<reader, leaseVars>>

\* The IOContext goes back to its pool.
Reclaim(r) ==
    /\ cleanup[r] = <<>>
    /\ L!Reclaim(r)
    /\ UNCHANGED <<obj, call, reader, cleanup>>

-----------------------------------------------------------------------------
JsStep(r) ==
    \/ \E x \in Extensions : WaitUntil(r, x) \/ Conclude(r, x)
    \/ \E e \in Events :
          \/ \E f \in Fetchers :
                \/ GetFetch(r, e, f)
                \/ \E p \in Responses : DoFetch(r, e, f, p)
          \/ \E h \in Headers : GetHeaders(r, e, h)
          \/ \E s \in Streams : GetBody(r, e, s)
    \/ \E p \in Responses, h \in Headers : GetResponseHeaders(r, p, h)
    \/ \E s \in Streams : StartRead(r, s)

FetchStep(p) ==
    \/ Acquire(p) \/ AcquireFails(p) \/ Do(p) \/ ReleaseToken(p) \/ Reject(p)
    \/ \E s \in Streams : Answer(p, s)

ReleaseStep(r) == Release(r) \/ Reclaim(r)

Terminated == \A r \in Requests : lease[r] = "reclaimed"

Next ==
    \/ \E r \in Requests :
          \/ \E e \in Events : Begin(r, e)
          \/ Return(r)
          \/ JsStep(r)
          \/ ReleaseStep(r)
    \/ \E p \in Responses : FetchStep(p)
    \/ \E s \in Streams : Read(s)
    \/ Terminated /\ UNCHANGED vars

\* The goroutines of fetches and of release are scheduled.
Spec ==
    /\ Init
    /\ [][Next]_vars
    /\ \A p \in Responses : WF_vars(ReleaseToken(p))
    /\ \A r \in Requests : WF_vars(ReleaseStep(r))

-----------------------------------------------------------------------------
(* Properties. *)

Slots(r) == 1 .. Len(cleanup[r])
Puts(r, i, o) == i \in Slots(r) /\ cleanup[r][i] = [do |-> "put", obj |-> o]
Resets(r, i, o) == i \in Slots(r) /\ cleanup[r][i] = [do |-> "reset", obj |-> o]
PutsOf(r, o) == {i \in Slots(r) : Puts(r, i, o)}

\* An object in use awaits one cleanup of one request that puts it back, and
\* one in a pool awaits none: no object has two holders, or none.
OneHolder ==
    \A o \in Objects :
        LET puts == UNION {{r} \X PutsOf(r, o) : r \in Requests} IN
        Cardinality(puts) = IF obj[o].at = "used" THEN 1 ELSE 0

\* What is in a pool refers to nothing of the request it served.
PooledClean ==
    \A o \in Objects :
        obj[o].at = "pooled" => obj[o].of = None /\ obj[o].refs = {}

\* What the code of a request can reach is in use and is its own: no cleanup of
\* another request touches it.
OwnReach ==
    \A r \in Requests :
        Runs(r) =>
            /\ \E e \in Events : obj[e].of = r /\ obj[e].at = "used"
            /\ \A u \in Uses(r) :
                  \A o \in obj[u].refs \cup {u} :
                      obj[o].at = "used" /\ obj[o].of = r

\* A response that was handed to JavaScript stays the answer to its fetch.
AnswersStay ==
    \A p \in Responses :
        (call[p].at = "answered" /\ obj[call[p].by].of # None
             /\ Runs(obj[call[p].by].of)) =>
            obj[p].of = obj[call[p].by].of

\* A goroutine of readInto finds the body of the request that called it.
OwnReader == \A s \in Streams : reader[s] # None => obj[s].of = reader[s]

\* As long as code of a request runs, nothing is taken from it or given to
\* another request: its event and what hangs on it, the responses it was handed,
\* the bodies it is reading.
OwnObjects == OwnReach /\ AnswersStay /\ OwnReader

\* OneHolder without numbers: a put is of what is in use, and the only one of it.
HeldOnce ==
    /\ \A o \in Objects :
          obj[o].at = "used" => \E r \in Requests : \E i \in Slots(r) : Puts(r, i, o)
    /\ \A o \in Objects, r \in Requests : \A i \in Slots(r) :
          Puts(r, i, o) =>
              /\ obj[o].at = "used"
              /\ \A q \in Requests : \A j \in Slots(q) :
                    Puts(q, j, o) => q = r /\ j = i

\* An object is bound to the request that puts it back, a response proxy from its
\* answer on; one that is not in use is bound to nothing.
BoundToHolder ==
    \A o \in Objects :
        /\ \A r \in Requests : \A i \in Slots(r) :
              Puts(r, i, o) =>
                  obj[o].of = r \/ (o \in Responses /\ obj[o].of = None)
        /\ obj[o].at # "used" => obj[o].of = None /\ obj[o].refs = {}

\* Only response proxies are reset by a cleanup, registered behind the one that
\* puts them back; one that is bound has such a cleanup.
ResetBeforePut ==
    \A o \in Objects, r \in Requests : \A i \in Slots(r) :
        /\ Resets(r, i, o) =>
              o \in Responses /\ \E j \in Slots(r) : j < i /\ Puts(r, j, o)
        /\ (Puts(r, i, o) /\ o \in Responses
                /\ (obj[o].of # None \/ obj[o].refs # {})) =>
              \E j \in Slots(r) : i < j /\ Resets(r, j, o)

\* The proxy of a fetch is put back by the request of its fetcher, before it.
ProxyBeforeFetcher ==
    \A p \in Responses :
        call[p].at # "none" =>
            /\ call[p].by \in Fetchers
            /\ \E r \in Requests : \E i, j \in Slots(r) :
                  i < j /\ Puts(r, i, call[p].by) /\ Puts(r, j, p)

\* Code of the request waits for what is under way.
Awaited ==
    /\ \A p \in Responses :
          call[p].at \in {"called", "doing", "posted", "failed"} =>
              Runs(obj[call[p].by].of)
    /\ \A s \in Streams : reader[s] # None => Runs(reader[s])

\* A request that has not begun has nothing.
Unbegun ==
    \A r \in Requests : lease[r] = "none" => cleanup[r] = <<>> /\ holds[r] = {}

\* The inductive invariant.
IInv ==
    /\ TypeOK
    /\ HeldOnce
    /\ BoundToHolder
    /\ ResetBeforePut
    /\ ProxyBeforeFetcher
    /\ Awaited
    /\ Unbegun
    /\ OwnObjects

\* Type correctness, and one holder for each object, with the inductive invariant
\* that this follows from.
HoldersInv == IInv /\ OneHolder

\* Once the handler has returned and nothing holds it, the request gives
\* everything back, however full the pools are.
GivesBack == \A r \in Requests : Over(r) ~> lease[r] = "reclaimed"
=============================================================================
