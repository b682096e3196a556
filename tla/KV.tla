--------------------------------- MODULE KV ---------------------------------
(***************************************************************************)
(* Key-value stores: extensions/kv (extension.go, kv_mapper.go,            *)
(* kv_proxy.go), the memory store, and the use that FetchEvent and         *)
(* RequestContext make of a mapper.                                        *)
(*                                                                         *)
(* A mapper is built once for a pooled event or RequestContext and bound   *)
(* to the IOContext of the request when its handler looks at kv.  Each     *)
(* operation is a goroutine that evaluates the binding when it gets to     *)
(* run, and that no wait group counts: only JavaScript that awaits what it *)
(* has started keeps the mapper from being reset under it.  Keys do not    *)
(* interact; the module follows one.                                       *)
(***************************************************************************)
EXTENDS Naturals, Sequences, FiniteSets

CONSTANTS
    Requests,   \* HTTP requests, each served once
    Carriers,   \* the FetchEvents or RequestContexts, with their mappers
    Extensions, \* promises passed to waitUntil
    MaxOps,     \* bound: calls of get, put and del
    MaxOdd,     \* bound: calls that nobody awaits or that fail
    None        \* nil; no value

ASSUME BoundsAssumption == MaxOps \in Nat /\ MaxOdd \in Nat

ASSUME NoneAssumption == None \notin Requests \cup Carriers \cup Nat

VARIABLES
    carrier, \* carrier[r]: what serves r, which holds its mapper
    free,    \* the carriers that are built or can be, and serve nobody
    bound,   \* bound[c]: the request whose IOContext the proxies of c have
    op,      \* the operations in the order they were called, see OpType
    store,   \* the put whose value is stored, None if there is no value
    lease, holds \* the IOContext of each request

\* A handler is a task of its request, and so is each of its extensions.
Handler == "handler"
Tasks == {Handler} \cup Extensions

L == INSTANCE Lease WITH Holds <- Extensions

leaseVars == <<lease, holds>>
vars == <<carrier, free, bound, op, store, leaseVars>>

\* at: its progress ("posted": done, the promise not settled yet); by, task:
\* the JavaScript that called it; awaited: does its task await it?  value: the
\* put whose value it got or deleted; ok: has it done what it should?
\* before: the operations that were settled when it was called.
OpType ==
    [at : {"called", "posted", "settled", "panicked"},
     kind : {"get", "put", "del"},
     by : Requests,
     task : Tasks,
     awaited : BOOLEAN,
     value : 1 .. MaxOps \cup {None},
     ok : BOOLEAN,
     before : SUBSET (1 .. MaxOps)]

Ops == DOMAIN op

\* Types of every variable.
TypeOK ==
    /\ carrier \in [Requests -> Carriers \cup {None}]
    /\ free \subseteq Carriers
    /\ bound \in [Carriers -> Requests \cup {None}]
    /\ op \in Seq(OpType) /\ Len(op) <= MaxOps
    /\ store \in Ops \cup {None}
    /\ L!TypeOK

Init ==
    /\ carrier = [r \in Requests |-> None]
    /\ free = Carriers
    /\ bound = [c \in Carriers |-> None]
    /\ op = <<>>
    /\ store = None
    /\ L!Init

-----------------------------------------------------------------------------
(* The request. *)

\* handleAsEvent or handleAsExpress: a carrier from its pool.
Begin(r, c) ==
    /\ c \in free
    /\ L!Grant(r)
    /\ carrier' = [carrier EXCEPT ![r] = c]
    /\ free' = free \ {c}
    /\ UNCHANGED <<bound, op, store>>

\* Code of a task runs: the handler until it returns, an extension while it
\* holds the lease.
Runs(r, task) == IF task = Handler THEN lease[r] = "held" ELSE task \in holds[r]

\* A task ends with none of the operations under way that it awaits.
Awaited(r, task) ==
    \A q \in Ops :
        (op[q].by = r /\ op[q].task = task /\ op[q].awaited) =>
            op[q].at = "settled"

WaitUntil(r, x) ==
    /\ L!Hold(r, x)
    /\ UNCHANGED <<carrier, free, bound, op, store>>

Conclude(r, x) ==
    /\ Awaited(r, x)
    /\ L!Drop(r, x)
    /\ UNCHANGED <<carrier, free, bound, op, store>>

Return(r) ==
    /\ Awaited(r, Handler)
    /\ L!Return(r)
    /\ UNCHANGED <<carrier, free, bound, op, store>>

\* The cleanups of r give its carrier back.
GiveBack(r) ==
    /\ free' = free \cup {carrier[r]}
    /\ UNCHANGED <<carrier, op, store>>

\* Faulty: the mapper is reset although an extension is still open.
ResetUnderExtension(r) ==
    /\ lease[r] = "returned"
    /\ lease' = [lease EXCEPT ![r] = "reclaimed"]
    /\ bound' = [bound EXCEPT ![carrier[r]] = None]
    /\ GiveBack(r)
    /\ UNCHANGED holds

\* reset of the carrier, which resets the mapper.
Reset(r) ==
    /\ L!Reclaim(r)
    /\ bound' = [bound EXCEPT ![carrier[r]] = None]
    /\ GiveBack(r)

-----------------------------------------------------------------------------
(* JavaScript, on the event loop. *)

\* evt.kv or ctx.kv: the mapper is bound, each time again.
AccessKV(r, task) ==
    /\ Runs(r, task)
    /\ bound' = [bound EXCEPT ![carrier[r]] = r]
    /\ UNCHANGED <<carrier, free, op, store, leaseVars>>

\* May one more call be odd?
MayBeOdd ==
    Cardinality({q \in Ops : ~op[q].awaited \/ (op[q].at # "called" /\ ~op[q].ok)})
        < MaxOdd

\* get, put or del of a proxy: a promise and a goroutine.  JavaScript may
\* await the promise or not.
CallOp(r, task, kind, awaited) ==
    /\ Runs(r, task)
    /\ bound[carrier[r]] = r
    /\ Len(op) < MaxOps
    /\ ~awaited => MayBeOdd
    /\ op' = Append(op,
                [at |-> "called", kind |-> kind, by |-> r, task |-> task,
                 awaited |-> awaited, value |-> None, ok |-> FALSE,
                 before |-> {p \in Ops : op[p].at = "settled"}])
    /\ UNCHANGED <<carrier, free, bound, store, leaseVars>>

-----------------------------------------------------------------------------
(* The goroutine of an operation. *)

\* The IOContext that the goroutine of q finds in its proxy.
Found(q) == bound[carrier[op[q].by]]

\* The operation is over: its outcome is posted to the loop.
Done(q, value, ok) ==
    /\ op[q].at = "called"
    /\ Found(q) # None
    /\ op' = [op EXCEPT ![q].at = "posted", ![q].value = value, ![q].ok = ok]
    /\ UNCHANGED <<carrier, free, bound, leaseVars>>

Get(q) == op[q].kind = "get" /\ Done(q, store, TRUE) /\ UNCHANGED store

\* Faulty: put is acknowledged, and the value stored after that.
PutBehind(q) ==
    /\ op[q].kind = "put"
    /\ \/ Done(q, None, TRUE) /\ UNCHANGED store
       \/ /\ op[q].ok /\ store' = q
          /\ UNCHANGED <<carrier, free, bound, op, leaseVars>>

Put(q) == op[q].kind = "put" /\ Done(q, None, TRUE) /\ store' = q

\* LoadAndDelete: deleted or not, in one step.
Del(q) == op[q].kind = "del" /\ Done(q, store, TRUE) /\ store' = None

\* A backing store other than the memory store may fail.
Fails(q) == MayBeOdd /\ Done(q, None, FALSE) /\ UNCHANGED store

\* The proxy was reset: the goroutine ends the process.
Panic(q) ==
    /\ op[q].at = "called"
    /\ Found(q) = None
    /\ op' = [op EXCEPT ![q].at = "panicked"]
    /\ UNCHANGED <<carrier, free, bound, store, leaseVars>>

\* The job on the loop: resolve, with null for a key that was not found, or
\* reject.
Settle(q) ==
    /\ op[q].at = "posted"
    /\ op' = [op EXCEPT ![q].at = "settled"]
    /\ UNCHANGED <<carrier, free, bound, store, leaseVars>>

-----------------------------------------------------------------------------
OpStep(q) == Get(q) \/ Put(q) \/ Del(q) \/ Fails(q) \/ Settle(q) \/ Panic(q)

Step(r) ==
    \/ \E c \in Carriers : Begin(r, c)
    \/ \E x \in Extensions : WaitUntil(r, x) \/ Conclude(r, x)
    \/ Return(r)
    \/ Reset(r)
    \/ \E task \in Tasks :
          \/ AccessKV(r, task)
          \/ \E kind \in {"get", "put", "del"}, awaited \in BOOLEAN :
                CallOp(r, task, kind, awaited)

\* No goroutine has ended the process.
Up == \A q \in Ops : op[q].at # "panicked"

Terminated == \A r \in Requests : lease[r] = "reclaimed"

Next ==
    \/ /\ Up
       /\ \/ \E r \in Requests : Step(r)
          \/ \E q \in Ops : OpStep(q)
    \/ (Terminated \/ ~Up) /\ UNCHANGED vars

Spec == Init /\ [][Next]_vars

-----------------------------------------------------------------------------
(* Properties. *)

\* r has a carrier: it was granted one that is not reset yet.
Serving(r) == lease[r] \in {"held", "returned"}

\* The carrier of a request serves no other one; its mapper is bound to the
\* request or not bound yet.
OwnCarrier ==
    \A r \in Requests :
        /\ holds[r] # {} => Serving(r)
        /\ Serving(r) =>
              /\ carrier[r] \in Carriers \ free
              /\ bound[carrier[r]] \in {None, r}
              /\ \A q \in Requests \ {r} : Serving(q) => carrier[q] # carrier[r]

\* The goroutine of an awaited operation finds the IOContext of the request
\* that called it, whenever it gets to run: not nil, and not that of the next
\* request of the carrier.  Its task cannot end before.
OwnContext ==
    \A q \in Ops :
        (op[q].at = "called" /\ op[q].awaited) =>
            Found(q) = op[q].by /\ Runs(op[q].by, op[q].task)

\* A free carrier leaks no IOContext to its next request.
FreeUnbound == \A c \in free : bound[c] = None

\* Type correctness, and mappers bound to the request whose operations use
\* them, although no wait group counts the operations.  It is inductive.
BindingsInv == TypeOK /\ OwnCarrier /\ OwnContext /\ FreeUnbound

Wrote(p) == op[p].kind \in {"put", "del"} /\ op[p].ok

\* The value v is not older than the write p: not what p has overwritten, nor
\* nothing when what such a put wrote can only still be there.
Current(v, p) ==
    Wrote(p) =>
        /\ v \notin op[p].before
        /\ (v = None /\ op[p].kind = "put") =>
              \E d \in Ops : op[d].kind = "del" /\ Wrote(d) /\ d \notin op[p].before

\* What had been settled stays settled, and only what is over has done what it
\* should.
SettledBefore ==
    \A q \in Ops :
        /\ op[q].ok => op[q].at \in {"posted", "settled"}
        /\ \A p \in op[q].before : p \in Ops /\ op[p].at = "settled"

\* No lost update: a get never finds what a write that had settled before it
\* was called has overwritten, nor nothing when what such a put wrote can only
\* still be there.  It is inductive with what it follows from: what is stored
\* is no older than any write that is over.
ReadsCurrent ==
    /\ SettledBefore
    /\ \A p \in Ops : Current(store, p)
    /\ \A q \in Ops :
          (op[q].kind = "get" /\ op[q].at \in {"posted", "settled"} /\ op[q].ok) =>
              \A p \in op[q].before : Current(op[q].value, p)
=============================================================================
