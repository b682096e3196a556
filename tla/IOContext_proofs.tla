------------------------- MODULE IOContext_proofs -------------------------
(***************************************************************************)
(* Proofs about IOContext, for any number of requests, contexts,           *)
(* extensions and fetches.  IInv is inductive when JavaScript awaits what  *)
(* it starts (~Abandon); the safety properties that MCIOContext checks     *)
(* follow from it.  The last part shows that IOContext then implements     *)
(* Lease.  The hard steps are Cleanup, which may only reclaim a lease      *)
(* nobody holds, and ExtendContext and DoFetch after the handler has       *)
(* returned, which may only take a hold while another one is in place.     *)
(***************************************************************************)
EXTENDS IOContext, FiniteSetTheorems, TLAPS

-----------------------------------------------------------------------------
(* The counters against the sets they count. *)

\* Adding one element to a finite set raises its cardinality by one, as
\* WaitGroup.Add(1) and a granted semaphore unit raise their counters.
LEMMA CountUp ==
  ASSUME NEW S, IsFiniteSet(S), NEW e, e \notin S
  PROVE  Cardinality(S \cup {e}) = Cardinality(S) + 1
BY FS_AddElement, FS_CardinalityType

\* Removing one lowers it by one and never below zero, as Done and Release do.
LEMMA CountDown ==
  ASSUME NEW S, IsFiniteSet(S), NEW e \in S
  PROVE  /\ Cardinality(S \ {e}) = Cardinality(S) - 1
         /\ Cardinality(S) \in Nat \ {0}
BY FS_RemoveElement, FS_EmptySet, FS_CardinalityType

\* A counter at zero means that nobody holds it: what Wait relies on.
LEMMA NoOne ==
  ASSUME NEW S, IsFiniteSet(S), Cardinality(S) = 0
  PROVE  S = {}
BY FS_EmptySet

\* The holders of each counter are finitely many.
LEMMA FiniteOn ==
  ASSUME NEW c \in Contexts
  PROVE  /\ IsFiniteSet(OpenOn(c))
         /\ IsFiniteSet(CountedOn(c))
         /\ IsFiniteSet(HoldingOn(c))
<1>1. OpenOn(c) \subseteq Extensions
  BY DEF OpenOn
<1>2. CountedOn(c) \subseteq Fetches /\ HoldingOn(c) \subseteq Fetches
  BY DEF CountedOn, HoldingOn
<1> QED BY <1>1, <1>2, FS_Subset, FiniteAssumption

\* A step that moves no holder and no counter keeps them in agreement.
LEMMA KeepCounters ==
  ASSUME Counters, UNCHANGED countVars,
         \A c \in Contexts : /\ OpenOn(c)' = OpenOn(c)
                             /\ CountedOn(c)' = CountedOn(c)
                             /\ HoldingOn(c)' = HoldingOn(c)
  PROVE  Counters'
BY DEF Counters, countVars

-----------------------------------------------------------------------------
(* Every action preserves the inductive invariant. *)

\* IOContextPool.Get gives a request a clean context that no other request,
\* extension or fetch refers to.
LEMMA GetStep ==
  ASSUME IInv, NEW r \in Requests, NEW c \in Contexts, Get(r, c)
  PROVE  IInv'
<1>1. TypeOK'
  BY DEF IInv, Get, countVars, extVars, opVars, goVars, TypeOK, CtxState
<1>2. Counters'
  <2>1. \A d \in Contexts : OpenOn(d)' = OpenOn(d)
    BY DEF IInv, Get, extVars, OpenOn, Ownership, Extending
  <2>2. \A d \in Contexts : CountedOn(d)' = CountedOn(d)
    BY DEF Get, goVars, CountedOn
  <2>3. \A d \in Contexts : HoldingOn(d)' = HoldingOn(d)
    BY DEF Get, goVars, HoldingOn
  <2> QED
    BY <2>1, <2>2, <2>3, KeepCounters DEF IInv, Get, countVars
<1>3. Ownership'
  BY NoneAssumption DEF IInv, Get, Ownership, Active, TypeOK
<1>4. Released'
  BY DEF IInv, Get, goVars, Released, CountedOn, TypeOK
<1>5. Extending'
  BY DEF IInv, Get, extVars, Extending, OpenExt, TypeOK, Ownership, Active
<1>6. Fetching'
  BY DEF IInv, Get, extVars, opVars, goVars, Fetching, Ownership
<1>7. NoPanic'
  BY DEF IInv, Get, goVars, NoPanic, Panicked
<1> QED BY <1>1, <1>2, <1>3, <1>4, <1>5, <1>6, <1>7 DEF IInv

\* IOContextPool.Put starts the release of a context that stays with its
\* request;
\* a handler that awaits its fetches leaves none outside an extension.
LEMMA PutStep ==
  ASSUME ~Abandon, IInv, NEW r \in Requests, Put(r)
  PROVE  IInv'
<1>1. TypeOK'
  BY DEF IInv, Put, fieldVars, countVars, extVars, opVars, goVars, TypeOK,
     CtxState, WaiterState, Ownership
<1>2. Counters'
  BY KeepCounters DEF IInv, Put, extVars, goVars, OpenOn, CountedOn, HoldingOn
<1>3. Ownership'
  BY DEF IInv, Put, fieldVars, Ownership, Active, TypeOK
<1>4. Released'
  BY DEF IInv, Put, fieldVars, goVars, Released, CountedOn, TypeOK, Ownership
<1>5. Extending'
  BY DEF IInv, Put, fieldVars, extVars, JsFree, Extending
<1>6. Fetching'
  BY DEF IInv, Put, extVars, opVars, goVars, Awaited, Fetching, Pending
<1>7. NoPanic'
  BY DEF IInv, Put, goVars, NoPanic, Panicked
<1> QED BY <1>1, <1>2, <1>3, <1>4, <1>5, <1>6, <1>7 DEF IInv

\* The cancellation of r.Context() touches no counter and no owner.
LEMMA EndRequestStep ==
  ASSUME IInv, NEW r \in Requests, EndRequest(r)
  PROVE  IInv'
<1>1. TypeOK'
  BY DEF IInv, EndRequest, poolVars, fieldVars, countVars, extVars, opVars,
     goVars, TypeOK
<1>2. Counters'
  BY KeepCounters DEF IInv, EndRequest, extVars, goVars, OpenOn, CountedOn,
     HoldingOn
<1>3. Ownership' /\ Released' /\ Extending' /\ Fetching' /\ NoPanic'
  BY DEF IInv, EndRequest, poolVars, fieldVars, extVars, opVars, goVars,
     Ownership, Released, CountedOn, Extending, OpenExt, Fetching, NoPanic,
     Panicked
<1> QED BY <1>1, <1>2, <1>3 DEF IInv

\* Evaluating the argument of waitUntil counts nothing yet.
LEMMA EnterExtensionStep ==
  ASSUME IInv, NEW x \in Extensions, NEW r \in Requests, EnterExtension(x, r)
  PROVE  IInv'
<1>1. TypeOK'
  BY DEF IInv, EnterExtension, httpVars, poolVars, fieldVars, countVars,
     opVars, goVars, TypeOK, ExtState
<1>2. Counters'
  <2>1. \A d \in Contexts : OpenOn(d)' = OpenOn(d)
    BY DEF EnterExtension, httpVars, OpenOn
  <2>2. \A d \in Contexts : CountedOn(d)' = CountedOn(d)
    BY DEF EnterExtension, goVars, CountedOn
  <2>3. \A d \in Contexts : HoldingOn(d)' = HoldingOn(d)
    BY DEF EnterExtension, goVars, HoldingOn
  <2> QED
    BY <2>1, <2>2, <2>3, KeepCounters DEF IInv, EnterExtension, countVars
<1>3. Extending'
  BY DEF IInv, EnterExtension, httpVars, fieldVars, Extending, OpenExt,
     TypeOK, Ownership
<1>4. Fetching'
  BY DEF IInv, EnterExtension, httpVars, opVars, goVars, Fetching
<1>5. Ownership' /\ Released' /\ NoPanic'
  BY DEF IInv, EnterExtension, httpVars, poolVars, fieldVars, goVars,
     Ownership, Released, CountedOn, NoPanic, Panicked
<1> QED BY <1>1, <1>2, <1>3, <1>4, <1>5 DEF IInv

\* ExtendContext raises extenderGroup for one more open extension, while its
\* request still owns the context.
LEMMA ExtendContextStep ==
  ASSUME IInv, NEW x \in Extensions, ExtendContext(x)
  PROVE  IInv'
<1>1. PICK c \in Contexts : c = ioContext[extReq[x]] /\ x \notin OpenOn(c)
  BY DEF IInv, ExtendContext, OpenOn, TypeOK, Extending
<1>2. Cardinality(OpenOn(c) \cup {x}) = Cardinality(OpenOn(c)) + 1
  BY <1>1, FiniteOn, CountUp
<1>3. TypeOK'
  BY <1>1 DEF IInv, ExtendContext, httpVars, poolVars, opVars, goVars, TypeOK,
     ExtState
<1>4. Counters'
  <2>1. OpenOn(c)' = OpenOn(c) \cup {x}
    BY <1>1 DEF IInv, ExtendContext, httpVars, OpenOn, TypeOK
  <2>2. \A d \in Contexts \ {c} : OpenOn(d)' = OpenOn(d)
    BY <1>1 DEF ExtendContext, httpVars, OpenOn
  <2>3. \A d \in Contexts : CountedOn(d)' = CountedOn(d)
    BY DEF ExtendContext, goVars, CountedOn
  <2>4. \A d \in Contexts : HoldingOn(d)' = HoldingOn(d)
    BY DEF ExtendContext, goVars, HoldingOn
  <2>5. /\ extenders'[c] = extenders[c] + 1
        /\ \A d \in Contexts \ {c} : extenders'[d] = extenders[d]
    BY <1>1 DEF IInv, TypeOK, ExtendContext
  <2>6. UNCHANGED <<fetchGroup, limiter>>
    BY DEF ExtendContext
  <2>7. extenders'[c] = Cardinality(OpenOn(c)')
    BY <1>1, <1>2, <2>1, <2>5 DEF IInv, Counters
  <2> QED
    BY <2>2, <2>3, <2>4, <2>5, <2>6, <2>7 DEF IInv, Counters
<1>5. Released'
  BY DEF IInv, ExtendContext, poolVars, goVars, Released, CountedOn, TypeOK,
     Ownership, Extending, OpenExt
<1>6. Extending'
  BY DEF IInv, ExtendContext, httpVars, Extending, OpenExt, TypeOK, Ownership,
     Released
<1>7. Fetching'
  BY DEF IInv, ExtendContext, httpVars, opVars, goVars, Fetching
<1>8. Ownership' /\ NoPanic'
  BY DEF IInv, ExtendContext, httpVars, poolVars, goVars, Ownership, NoPanic,
     Panicked
<1> QED BY <1>3, <1>4, <1>5, <1>6, <1>7, <1>8 DEF IInv

\* ConcludeExtend lowers extenderGroup for one open extension; every fetch it
\* awaited has settled by then.
LEMMA ConcludeExtendStep ==
  ASSUME ~Abandon, IInv, NEW x \in Extensions, ConcludeExtend(x)
  PROVE  IInv'
<1>1. PICK c \in Contexts : c = ioContext[extReq[x]] /\ x \in OpenOn(c)
  BY DEF IInv, ConcludeExtend, OpenOn, TypeOK, Extending
<1>2. /\ Cardinality(OpenOn(c) \ {x}) = Cardinality(OpenOn(c)) - 1
      /\ Cardinality(OpenOn(c)) \in Nat \ {0}
  BY <1>1, FiniteOn, CountDown
<1>3. extenders[c] \in Nat \ {0}
  BY <1>1, <1>2 DEF IInv, Counters
<1>4. extenders[c] - 1 \in Nat
  BY <1>3
<1>5. extenders' \in [Contexts -> Nat]
  BY <1>1, <1>4 DEF IInv, TypeOK, ConcludeExtend
<1>6. TypeOK'
  BY <1>5 DEF IInv, ConcludeExtend, httpVars, poolVars, fieldVars, opVars,
     goVars, TypeOK, ExtState
<1>7. Counters'
  <2>1. OpenOn(c)' = OpenOn(c) \ {x}
    BY DEF IInv, ConcludeExtend, httpVars, OpenOn, TypeOK
  <2>2. \A d \in Contexts \ {c} : OpenOn(d)' = OpenOn(d)
    BY <1>1 DEF ConcludeExtend, httpVars, OpenOn
  <2>3. \A d \in Contexts : CountedOn(d)' = CountedOn(d)
    BY DEF ConcludeExtend, goVars, CountedOn
  <2>4. \A d \in Contexts : HoldingOn(d)' = HoldingOn(d)
    BY DEF ConcludeExtend, goVars, HoldingOn
  <2>5. /\ extenders'[c] = extenders[c] - 1
        /\ \A d \in Contexts \ {c} : extenders'[d] = extenders[d]
    BY <1>1 DEF IInv, TypeOK, ConcludeExtend
  <2>6. UNCHANGED <<fetchGroup, limiter>>
    BY DEF ConcludeExtend
  <2>7. extenders'[c] = Cardinality(OpenOn(c)')
    BY <1>1, <1>2, <2>1, <2>5 DEF IInv, Counters
  <2> QED
    BY <2>2, <2>3, <2>4, <2>5, <2>6, <2>7 DEF IInv, Counters
<1>8. Extending'
  BY DEF IInv, ConcludeExtend, httpVars, fieldVars, JsFree, Extending
<1>9. Fetching'
  BY DEF IInv, ConcludeExtend, httpVars, opVars, goVars, Awaited, Fetching,
     Pending
<1>10. Ownership' /\ Released' /\ NoPanic'
  BY DEF IInv, ConcludeExtend, httpVars, poolVars, fieldVars, goVars,
     Ownership, Released, CountedOn, NoPanic, Panicked
<1> QED BY <1>6, <1>7, <1>8, <1>9, <1>10 DEF IInv

\* doFetch starts an operation under the live context of its request.
LEMMA DoFetchStep ==
  ASSUME IInv, NEW f \in Fetches, NEW r \in Requests, NEW t \in Extensions \cup {None},
         DoFetch(f, r, t)
  PROVE  IInv'
<1>1. PICK at \in {"spawned", "ended"}, to \in {"pending", "rejecting"} :
          /\ at = "spawned" => to = "pending"
          /\ phase' = [phase EXCEPT ![f] = at]
          /\ promise' = [promise EXCEPT ![f] = to]
          /\ opReq' = [opReq EXCEPT ![f] = r]
          /\ opTask' = [opTask EXCEPT ![f] = t]
          /\ phase[f] = "none" /\ MayRun(r, t)
          /\ UNCHANGED <<httpVars, poolVars, fieldVars, countVars, extVars,
                         token, bound>>
  BY DEF DoFetch
<1>2. TypeOK'
  BY <1>1 DEF IInv, httpVars, poolVars, fieldVars, countVars, extVars,
     TypeOK, PromiseState, Phase
<1>3. /\ \A g \in Fetches \ {f} : phase'[g] = phase[g]
      /\ phase'[f] = at
  BY <1>1 DEF IInv, TypeOK
<1>4. \A d \in Contexts : CountedOn(d)' = CountedOn(d)
  BY <1>1, <1>3 DEF CountedOn, Counted
<1>5. Counters'
  <2>1. \A d \in Contexts : OpenOn(d)' = OpenOn(d)
    BY <1>1 DEF httpVars, extVars, OpenOn
  <2>2. \A d \in Contexts : HoldingOn(d)' = HoldingOn(d)
    BY <1>1, <1>3 DEF HoldingOn, Holding, Counted
  <2> QED
    BY <1>1, <1>4, <2>1, <2>2, KeepCounters DEF IInv, countVars
<1>6. Released'
  BY <1>1, <1>4 DEF IInv, poolVars, fieldVars, Released
<1>7. Fetching'
  BY <1>1, NoneAssumption DEF IInv, httpVars, extVars, MayRun, Fetching,
     Counted, Holding, TypeOK
<1>8. NoPanic'
  BY <1>1, <1>3 DEF IInv, NoPanic, Panicked
<1>9. Ownership' /\ Extending'
  BY <1>1 DEF IInv, httpVars, poolVars, fieldVars, extVars, Ownership,
     Extending, OpenExt
<1> QED BY <1>2, <1>5, <1>6, <1>7, <1>8, <1>9 DEF IInv

\* A job that settles a promise moves no counter; it finds the ioContext.
LEMMA SettleStep ==
  ASSUME IInv, NEW f \in Fetches, Settle(f)
  PROVE  IInv'
<1>1. TypeOK'
  BY DEF IInv, Settle, httpVars, poolVars, fieldVars, countVars, extVars,
     goVars, TypeOK, PromiseState
<1>2. Counters'
  BY KeepCounters DEF IInv, Settle, httpVars, extVars, goVars, OpenOn,
     CountedOn, HoldingOn
<1>3. Fetching'
  BY DEF IInv, Settle, httpVars, extVars, goVars, Fetching, Pending
<1>4. Ownership' /\ Released' /\ Extending' /\ NoPanic'
  BY DEF IInv, Settle, httpVars, poolVars, fieldVars, extVars, goVars,
     Ownership, Released, CountedOn, Extending, OpenExt, NoPanic, Panicked
<1> QED BY <1>1, <1>2, <1>3, <1>4 DEF IInv

\* AcquireFetchToken binds the goroutine to the context of its request.
LEMMA CallAcquireStep ==
  ASSUME IInv, NEW f \in Fetches, CallAcquire(f)
  PROVE  IInv'
<1>1. TypeOK'
  BY DEF IInv, CallAcquire, httpVars, poolVars, fieldVars, countVars, extVars,
     opVars, Context, TypeOK, Phase, Fetching
<1>2. Counters'
  <2>1. \A d \in Contexts : OpenOn(d)' = OpenOn(d)
    BY DEF CallAcquire, httpVars, extVars, OpenOn
  <2>2. \A d \in Contexts : CountedOn(d)' = CountedOn(d)
    BY DEF CallAcquire, CountedOn, Counted
  <2>3. \A d \in Contexts : HoldingOn(d)' = HoldingOn(d)
    BY DEF CallAcquire, HoldingOn, Holding, Counted
  <2> QED
    BY <2>1, <2>2, <2>3, KeepCounters DEF IInv, CallAcquire, countVars
<1>3. Released'
  BY DEF IInv, CallAcquire, poolVars, fieldVars, Released, CountedOn, Counted
<1>4. Fetching'
  BY DEF IInv, CallAcquire, httpVars, extVars, opVars, Fetching, TypeOK
<1>5. NoPanic'
  BY DEF IInv, CallAcquire, NoPanic, Panicked
<1>6. Ownership' /\ Extending'
  BY DEF IInv, CallAcquire, httpVars, poolVars, fieldVars, extVars, Ownership,
     Extending, OpenExt
<1> QED BY <1>1, <1>2, <1>3, <1>4, <1>5, <1>6 DEF IInv

\* The semaphore grants a unit only below its limit, so the bound is kept.
LEMMA GrantStep ==
  ASSUME IInv, NEW f \in Fetches, Grant(f)
  PROVE  IInv'
<1>1. PICK c \in Contexts : c = token[f] /\ f \notin HoldingOn(c)
  BY DEF IInv, Grant, HoldingOn, Counted, Holding, TypeOK, Fetching
<1>2. Cardinality(HoldingOn(c) \cup {f}) = Cardinality(HoldingOn(c)) + 1
  BY <1>1, FiniteOn, CountUp
<1>3. TypeOK'
  BY <1>1 DEF IInv, Grant, httpVars, poolVars, fieldVars, extVars, opVars,
     TypeOK, Phase
<1>4. Counters'
  <2>1. HoldingOn(c)' = HoldingOn(c) \cup {f}
    BY <1>1 DEF IInv, Grant, HoldingOn, Holding, TypeOK
  <2>2. \A d \in Contexts \ {c} : HoldingOn(d)' = HoldingOn(d)
    BY <1>1 DEF Grant, HoldingOn
  <2>3. \A d \in Contexts : OpenOn(d)' = OpenOn(d)
    BY DEF Grant, httpVars, extVars, OpenOn
  <2>4. \A d \in Contexts : CountedOn(d)' = CountedOn(d)
    BY DEF Grant, CountedOn, Counted
  <2>5. /\ limiter'[c] = limiter[c] + 1
        /\ \A d \in Contexts \ {c} : limiter'[d] = limiter[d]
    BY <1>1 DEF IInv, TypeOK, Grant
  <2>6. UNCHANGED <<extenders, fetchGroup>>
    BY DEF Grant
  <2>7. limiter'[c] = Cardinality(HoldingOn(c)')
    BY <1>1, <1>2, <2>1, <2>5 DEF IInv, Counters
  <2>8. limiter'[c] <= Concurrent
    BY <1>1, <2>5, ConcurrentAssumption DEF IInv, TypeOK, Counters, Grant
  <2> QED
    BY <2>2, <2>3, <2>4, <2>5, <2>6, <2>7, <2>8 DEF IInv, Counters
<1>5. Released'
  BY DEF IInv, Grant, poolVars, fieldVars, Released, CountedOn, Counted
<1>6. Fetching'
  BY DEF IInv, Grant, httpVars, extVars, opVars, Fetching
<1>7. NoPanic'
  BY DEF IInv, Grant, NoPanic, Panicked
<1>8. Ownership' /\ Extending'
  BY DEF IInv, Grant, httpVars, poolVars, fieldVars, extVars, Ownership,
     Extending, OpenExt
<1> QED BY <1>3, <1>4, <1>5, <1>6, <1>7, <1>8 DEF IInv

\* A failed Acquire leaves the goroutine with no unit and no count.
LEMMA AcquireFailsStep ==
  ASSUME IInv, NEW f \in Fetches, AcquireFails(f)
  PROVE  IInv'
<1>1. TypeOK'
  BY DEF IInv, AcquireFails, httpVars, poolVars, fieldVars, countVars,
     extVars, TypeOK, PromiseState, Phase
<1>2. Counters'
  <2>1. \A d \in Contexts : OpenOn(d)' = OpenOn(d)
    BY DEF AcquireFails, httpVars, extVars, OpenOn
  <2>2. \A d \in Contexts : CountedOn(d)' = CountedOn(d)
    BY DEF AcquireFails, CountedOn, Counted
  <2>3. \A d \in Contexts : HoldingOn(d)' = HoldingOn(d)
    BY DEF AcquireFails, HoldingOn, Holding, Counted
  <2> QED
    BY <2>1, <2>2, <2>3, KeepCounters DEF IInv, AcquireFails, countVars
<1>3. Released'
  BY DEF IInv, AcquireFails, poolVars, fieldVars, Released, CountedOn, Counted
<1>4. Fetching'
  BY DEF IInv, AcquireFails, httpVars, extVars, Fetching, Pending, TypeOK
<1>5. NoPanic'
  BY DEF IInv, AcquireFails, NoPanic, Panicked
<1>6. Ownership' /\ Extending'
  BY DEF IInv, AcquireFails, httpVars, poolVars, fieldVars, extVars,
     Ownership, Extending, OpenExt
<1> QED BY <1>1, <1>2, <1>3, <1>4, <1>5, <1>6 DEF IInv

\* fetchGroup.Add(1) counts one more fetch, of a context not yet released.
LEMMA CountFetchStep ==
  ASSUME IInv, NEW f \in Fetches, CountFetch(f)
  PROVE  IInv'
<1>1. PICK c \in Contexts : c = token[f] /\ f \notin CountedOn(c)
  BY DEF IInv, CountFetch, CountedOn, Counted, TypeOK, Fetching
<1>2. Cardinality(CountedOn(c) \cup {f}) = Cardinality(CountedOn(c)) + 1
  BY <1>1, FiniteOn, CountUp
<1>3. TypeOK'
  BY <1>1 DEF IInv, CountFetch, httpVars, poolVars, fieldVars, extVars,
     opVars, TypeOK, Phase
<1>4. Counters'
  <2>1. CountedOn(c)' = CountedOn(c) \cup {f}
    BY <1>1 DEF IInv, CountFetch, CountedOn, Counted, TypeOK
  <2>2. \A d \in Contexts \ {c} : CountedOn(d)' = CountedOn(d)
    BY <1>1 DEF CountFetch, CountedOn
  <2>3. \A d \in Contexts : OpenOn(d)' = OpenOn(d)
    BY DEF CountFetch, httpVars, extVars, OpenOn
  <2>4. \A d \in Contexts : HoldingOn(d)' = HoldingOn(d)
    BY DEF CountFetch, HoldingOn, Holding, Counted
  <2>5. /\ fetchGroup'[c] = fetchGroup[c] + 1
        /\ \A d \in Contexts \ {c} : fetchGroup'[d] = fetchGroup[d]
    BY <1>1 DEF IInv, TypeOK, CountFetch
  <2>6. UNCHANGED <<extenders, limiter>>
    BY DEF CountFetch
  <2>7. fetchGroup'[c] = Cardinality(CountedOn(c)')
    BY <1>1, <1>2, <2>1, <2>5 DEF IInv, Counters
  <2> QED
    BY <2>2, <2>3, <2>4, <2>5, <2>6, <2>7 DEF IInv, Counters
<1>5. Released'
  BY DEF IInv, CountFetch, poolVars, fieldVars, Released, CountedOn, TypeOK,
     Ownership, Extending, Fetching, Pending, OpenExt
<1>6. Fetching'
  BY DEF IInv, CountFetch, httpVars, extVars, opVars, Fetching
<1>7. NoPanic'
  BY DEF IInv, CountFetch, NoPanic, Panicked
<1>8. Ownership' /\ Extending'
  BY DEF IInv, CountFetch, httpVars, poolVars, fieldVars, extVars, Ownership,
     Extending, OpenExt
<1> QED BY <1>3, <1>4, <1>5, <1>6, <1>7, <1>8 DEF IInv

\* NewRequestWithContext only reads the fields of the context.
LEMMA BuildRequestStep ==
  ASSUME IInv, NEW f \in Fetches, BuildRequest(f)
  PROVE  IInv'
<1>1. TypeOK'
  BY DEF IInv, BuildRequest, httpVars, poolVars, fieldVars, countVars,
     extVars, opVars, Context, TypeOK, Phase
<1>2. Counters'
  <2>1. \A d \in Contexts : OpenOn(d)' = OpenOn(d)
    BY DEF BuildRequest, httpVars, extVars, OpenOn
  <2>2. \A d \in Contexts : CountedOn(d)' = CountedOn(d)
    BY DEF BuildRequest, CountedOn, Counted
  <2>3. \A d \in Contexts : HoldingOn(d)' = HoldingOn(d)
    BY DEF BuildRequest, HoldingOn, Holding, Counted
  <2> QED
    BY <2>1, <2>2, <2>3, KeepCounters DEF IInv, BuildRequest, countVars
<1>3. Released'
  BY DEF IInv, BuildRequest, poolVars, fieldVars, Released, CountedOn, Counted
<1>4. Fetching'
  BY DEF IInv, BuildRequest, httpVars, extVars, opVars, Fetching, Counted
<1>5. NoPanic'
  BY DEF IInv, BuildRequest, NoPanic, Panicked
<1>6. Ownership' /\ Extending'
  BY DEF IInv, BuildRequest, httpVars, poolVars, fieldVars, extVars,
     Ownership, Extending, OpenExt
<1> QED BY <1>1, <1>2, <1>3, <1>4, <1>5, <1>6 DEF IInv

\* Posting the outcome hands the promise to the loop and moves no counter.
LEMMA PostStep ==
  ASSUME IInv, NEW f \in Fetches, Post(f)
  PROVE  IInv'
<1>1. TypeOK'
  BY DEF IInv, Post, httpVars, poolVars, fieldVars, countVars, extVars,
     TypeOK, PromiseState, Phase
<1>2. Counters'
  <2>1. \A d \in Contexts : OpenOn(d)' = OpenOn(d)
    BY DEF Post, httpVars, extVars, OpenOn
  <2>2. \A d \in Contexts : CountedOn(d)' = CountedOn(d)
    BY DEF Post, CountedOn, Counted
  <2>3. \A d \in Contexts : HoldingOn(d)' = HoldingOn(d)
    BY DEF Post, HoldingOn, Holding, Counted
  <2> QED
    BY <2>1, <2>2, <2>3, KeepCounters DEF IInv, Post, countVars
<1>3. Released'
  BY DEF IInv, Post, poolVars, fieldVars, Released, CountedOn, Counted
<1>4. Fetching'
  BY DEF IInv, Post, httpVars, extVars, Fetching, Pending, Counted, TypeOK
<1>5. NoPanic'
  BY DEF IInv, Post, NoPanic, Panicked
<1>6. Ownership' /\ Extending'
  BY DEF IInv, Post, httpVars, poolVars, fieldVars, extVars, Ownership,
     Extending, OpenExt
<1> QED BY <1>1, <1>2, <1>3, <1>4, <1>5, <1>6 DEF IInv

\* fetchGroup.Done lowers the count of a fetch that was counted.
LEMMA FetchGroupDoneStep ==
  ASSUME IInv, NEW f \in Fetches, FetchGroupDone(f)
  PROVE  IInv'
<1>1. PICK c \in Contexts : c = token[f] /\ f \in CountedOn(c)
  BY DEF IInv, FetchGroupDone, CountedOn, Counted, TypeOK, Fetching
<1>2. /\ Cardinality(CountedOn(c) \ {f}) = Cardinality(CountedOn(c)) - 1
      /\ Cardinality(CountedOn(c)) \in Nat \ {0}
  BY <1>1, FiniteOn, CountDown
<1>3. fetchGroup[c] \in Nat \ {0}
  BY <1>1, <1>2 DEF IInv, Counters
<1>4. fetchGroup[c] - 1 \in Nat
  BY <1>3
<1>5. fetchGroup' \in [Contexts -> Nat]
  BY <1>1, <1>4 DEF IInv, TypeOK, FetchGroupDone
<1>6. TypeOK'
  BY <1>5 DEF IInv, FetchGroupDone, httpVars, poolVars, fieldVars, extVars,
     opVars, TypeOK, Phase
<1>7. Counters'
  <2>1. CountedOn(c)' = CountedOn(c) \ {f}
    BY DEF IInv, FetchGroupDone, CountedOn, Counted, TypeOK
  <2>2. \A d \in Contexts \ {c} : CountedOn(d)' = CountedOn(d)
    BY <1>1 DEF FetchGroupDone, CountedOn
  <2>3. \A d \in Contexts : OpenOn(d)' = OpenOn(d)
    BY DEF FetchGroupDone, httpVars, extVars, OpenOn
  <2>4. \A d \in Contexts : HoldingOn(d)' = HoldingOn(d)
    BY DEF FetchGroupDone, HoldingOn, Holding, Counted
  <2>5. /\ fetchGroup'[c] = fetchGroup[c] - 1
        /\ \A d \in Contexts \ {c} : fetchGroup'[d] = fetchGroup[d]
    BY <1>1 DEF IInv, TypeOK, FetchGroupDone
  <2>6. UNCHANGED <<extenders, limiter>>
    BY DEF FetchGroupDone
  <2>7. fetchGroup'[c] = Cardinality(CountedOn(c)')
    BY <1>1, <1>2, <2>1, <2>5 DEF IInv, Counters
  <2> QED
    BY <2>2, <2>3, <2>4, <2>5, <2>6, <2>7 DEF IInv, Counters
<1>8. Released'
  BY DEF IInv, FetchGroupDone, poolVars, fieldVars, Released, CountedOn,
     Counted
<1>9. Fetching'
  BY DEF IInv, FetchGroupDone, httpVars, extVars, opVars, Fetching, Counted
<1>10. NoPanic'
  BY DEF IInv, FetchGroupDone, NoPanic, Panicked
<1>11. Ownership' /\ Extending'
  BY DEF IInv, FetchGroupDone, httpVars, poolVars, fieldVars, extVars,
     Ownership, Extending, OpenExt
<1> QED BY <1>6, <1>7, <1>8, <1>9, <1>10, <1>11 DEF IInv

\* limiter.Release gives back the unit the fetch holds.
LEMMA LimiterReleaseStep ==
  ASSUME IInv, NEW f \in Fetches, LimiterRelease(f)
  PROVE  IInv'
<1>1. PICK c \in Contexts : c = token[f] /\ f \in HoldingOn(c)
  BY DEF IInv, LimiterRelease, HoldingOn, Holding, TypeOK, Fetching
<1>2. /\ Cardinality(HoldingOn(c) \ {f}) = Cardinality(HoldingOn(c)) - 1
      /\ Cardinality(HoldingOn(c)) \in Nat \ {0}
  BY <1>1, FiniteOn, CountDown
<1>3. limiter[c] \in Nat \ {0}
  BY <1>1, <1>2 DEF IInv, Counters
<1>4. limiter[c] - 1 \in Nat
  BY <1>3
<1>5. limiter' \in [Contexts -> Nat]
  BY <1>1, <1>4 DEF IInv, TypeOK, LimiterRelease
<1>6. TypeOK'
  BY <1>5 DEF IInv, LimiterRelease, httpVars, poolVars, fieldVars, extVars,
     opVars, TypeOK, Phase
<1>7. Counters'
  <2>1. HoldingOn(c)' = HoldingOn(c) \ {f}
    BY DEF IInv, LimiterRelease, HoldingOn, Counted, Holding, TypeOK
  <2>2. \A d \in Contexts \ {c} : HoldingOn(d)' = HoldingOn(d)
    BY <1>1 DEF LimiterRelease, HoldingOn
  <2>3. \A d \in Contexts : OpenOn(d)' = OpenOn(d)
    BY DEF LimiterRelease, httpVars, extVars, OpenOn
  <2>4. \A d \in Contexts : CountedOn(d)' = CountedOn(d)
    BY DEF LimiterRelease, CountedOn, Counted
  <2>5. /\ limiter'[c] = limiter[c] - 1
        /\ \A d \in Contexts \ {c} : limiter'[d] = limiter[d]
    BY <1>1 DEF IInv, TypeOK, LimiterRelease
  <2>6. UNCHANGED <<extenders, fetchGroup>>
    BY DEF LimiterRelease
  <2>7. limiter'[c] = Cardinality(HoldingOn(c)')
    BY <1>1, <1>2, <2>1, <2>5 DEF IInv, Counters
  <2>8. limiter'[c] <= Concurrent
    BY <1>1, <2>5, ConcurrentAssumption DEF IInv, TypeOK, Counters, LimiterRelease
  <2> QED
    BY <2>2, <2>3, <2>4, <2>5, <2>6, <2>7, <2>8 DEF IInv, Counters
<1>8. Released'
  BY DEF IInv, LimiterRelease, poolVars, fieldVars, Released, CountedOn,
     Counted
<1>9. Fetching'
  BY DEF IInv, LimiterRelease, httpVars, extVars, opVars, Fetching, Counted,
     Holding
<1>10. NoPanic'
  BY DEF IInv, LimiterRelease, NoPanic, Panicked
<1>11. Ownership' /\ Extending'
  BY DEF IInv, LimiterRelease, httpVars, poolVars, fieldVars, extVars,
     Ownership, Extending, OpenExt
<1> QED BY <1>6, <1>7, <1>8, <1>9, <1>10, <1>11 DEF IInv

\* wait only chooses what to wait for.
LEMMA WaitStartStep ==
  ASSUME IInv, NEW c \in Contexts, WaitStart(c)
  PROVE  IInv'
<1>1. TypeOK'
  BY DEF IInv, WaitStart, httpVars, fieldVars, countVars, extVars, opVars,
     goVars, TypeOK, WaiterState
<1>2. Counters'
  BY KeepCounters DEF IInv, WaitStart, httpVars, extVars, goVars, OpenOn,
     CountedOn, HoldingOn
<1>3. Released'
  BY DEF IInv, WaitStart, fieldVars, goVars, Released, CountedOn
<1>4. Ownership' /\ Extending' /\ Fetching' /\ NoPanic'
  BY DEF IInv, WaitStart, httpVars, fieldVars, extVars, opVars, goVars,
     Ownership, Extending, OpenExt, Fetching, NoPanic, Panicked
<1> QED BY <1>1, <1>2, <1>3, <1>4 DEF IInv

\* extenderGroup.Wait returns only when no extension of the context is open.
LEMMA WaitEndStep ==
  ASSUME IInv, NEW c \in Contexts, WaitEnd(c)
  PROVE  IInv'
<1>1. TypeOK'
  BY DEF IInv, WaitEnd, httpVars, countVars, extVars, opVars, goVars, TypeOK,
     WaiterState
<1>2. Counters'
  BY KeepCounters DEF IInv, WaitEnd, httpVars, extVars, goVars, OpenOn,
     CountedOn, HoldingOn
<1>3. Released'
  BY DEF IInv, WaitEnd, goVars, Released, CountedOn, TypeOK
<1>4. Extending'
  <2>1. waiter[c] = "extWait" => OpenOn(c) = {}
    BY NoOne, FiniteOn DEF IInv, Counters, WaitEnd
  <2>2. \A x \in Extensions : ~(extState[x] = "open" /\ ioContext[extReq[x]] = c)
    BY <2>1 DEF IInv, WaitEnd, OpenOn, Released, Extending
  <2> QED
    BY <2>2 DEF IInv, WaitEnd, httpVars, extVars, Extending, OpenExt
<1>5. Ownership' /\ Fetching' /\ NoPanic'
  BY DEF IInv, WaitEnd, httpVars, extVars, opVars, goVars, Ownership,
     Fetching, NoPanic, Panicked
<1> QED BY <1>1, <1>2, <1>3, <1>4, <1>5 DEF IInv

\* release proceeds past the extended context only when it is cancelled.
LEMMA ReleaseCtxDoneStep ==
  ASSUME IInv, NEW c \in Contexts, ReleaseCtxDone(c)
  PROVE  IInv'
<1>1. TypeOK'
  BY DEF IInv, ReleaseCtxDone, httpVars, fieldVars, countVars, extVars,
     opVars, goVars, TypeOK, CtxState
<1>2. Counters'
  BY KeepCounters DEF IInv, ReleaseCtxDone, httpVars, extVars, goVars, OpenOn,
     CountedOn, HoldingOn
<1>3. Ownership'
  BY DEF IInv, ReleaseCtxDone, httpVars, fieldVars, Ownership, Active
<1>4. Released'
  BY DEF IInv, ReleaseCtxDone, fieldVars, goVars, Done, Released, CountedOn
<1>5. Extending' /\ Fetching' /\ NoPanic'
  BY DEF IInv, ReleaseCtxDone, httpVars, fieldVars, extVars, opVars, goVars,
     Extending, OpenExt, Fetching, NoPanic, Panicked
<1> QED BY <1>1, <1>2, <1>3, <1>4, <1>5 DEF IInv

\* fetchGroup.Wait returns only when no fetch of the context is counted.
LEMMA ReleaseFetchDoneStep ==
  ASSUME IInv, NEW c \in Contexts, ReleaseFetchDone(c)
  PROVE  IInv'
<1>1. TypeOK'
  BY DEF IInv, ReleaseFetchDone, httpVars, fieldVars, countVars, extVars,
     opVars, goVars, TypeOK, CtxState
<1>2. Counters'
  BY KeepCounters DEF IInv, ReleaseFetchDone, httpVars, extVars, goVars,
     OpenOn, CountedOn, HoldingOn
<1>3. Ownership'
  BY DEF IInv, ReleaseFetchDone, httpVars, fieldVars, Ownership, Active
<1>4. Released'
  <2>1. CountedOn(c) = {}
    BY NoOne, FiniteOn DEF IInv, Counters, ReleaseFetchDone
  <2> QED
    BY <2>1 DEF IInv, ReleaseFetchDone, fieldVars, goVars, Released, CountedOn
<1>5. Extending' /\ Fetching' /\ NoPanic'
  BY DEF IInv, ReleaseFetchDone, httpVars, fieldVars, extVars, opVars, goVars,
     Extending, OpenExt, Fetching, NoPanic, Panicked
<1> QED BY <1>1, <1>2, <1>3, <1>4, <1>5 DEF IInv

\* The cleanup functions run on a context nobody uses any more.
LEMMA CleanupStep ==
  ASSUME IInv, NEW c \in Contexts, Cleanup(c)
  PROVE  IInv'
<1>1. TypeOK'
  BY DEF IInv, Cleanup, fieldVars, countVars, extVars, opVars, goVars, TypeOK,
     CtxState, Ownership, Active
<1>2. Counters'
  <2>1. \A d \in Contexts : OpenOn(d)' = OpenOn(d)
    BY DEF IInv, Cleanup, extVars, OpenOn, Ownership, Active, Extending,
       Released
  <2>2. \A d \in Contexts : CountedOn(d)' = CountedOn(d)
    BY DEF Cleanup, goVars, CountedOn
  <2>3. \A d \in Contexts : HoldingOn(d)' = HoldingOn(d)
    BY DEF Cleanup, goVars, HoldingOn
  <2> QED
    BY <2>1, <2>2, <2>3, KeepCounters DEF IInv, Cleanup, countVars
<1>3. Ownership'
  BY DEF IInv, Cleanup, fieldVars, Ownership, Active, TypeOK
<1>4. Released'
  BY DEF IInv, Cleanup, fieldVars, goVars, Released, CountedOn
<1>5. Extending'
  BY DEF IInv, Cleanup, fieldVars, extVars, Extending, OpenExt, Ownership,
     Active, Released
<1>6. Fetching'
  BY DEF IInv, Cleanup, extVars, opVars, goVars, TypeOK, CountedOn, Ownership,
     Active, Released, Extending, OpenExt, Fetching, Pending
<1>7. NoPanic'
  BY DEF IInv, Cleanup, goVars, NoPanic, Panicked
<1> QED BY <1>1, <1>2, <1>3, <1>4, <1>5, <1>6, <1>7 DEF IInv

\* A context goes back to the pool with nothing of its request left in it.
LEMMA RecycleStep ==
  ASSUME IInv, NEW c \in Contexts, Recycle(c)
  PROVE  IInv'
<1>1. TypeOK'
  BY DEF IInv, Recycle, httpVars, countVars, extVars, opVars, goVars, TypeOK,
     CtxState
<1>2. Counters'
  BY KeepCounters DEF IInv, Recycle, httpVars, extVars, goVars, OpenOn,
     CountedOn, HoldingOn
<1>3. Ownership'
  BY DEF IInv, Recycle, httpVars, Ownership, Active
<1>4. Released'
  BY NoneAssumption DEF IInv, Recycle, httpVars, poolVars, fieldVars,
     countVars, extVars, opVars, goVars, JsFree, Awaited, MayRun, Context,
     Done, TypeOK, CtxState, WaiterState, ExtState, PromiseState, Phase,
     Counters, OpenOn, CountedOn, HoldingOn, Counted, Holding, Ownership,
     Active, Released, Extending, OpenExt, Fetching, Pending, NoPanic,
     Panicked
<1>5. Extending'
  BY NoneAssumption DEF IInv, Recycle, httpVars, poolVars, fieldVars,
     countVars, extVars, opVars, goVars, JsFree, Awaited, MayRun, Context,
     Done, TypeOK, CtxState, WaiterState, ExtState, PromiseState, Phase,
     Counters, OpenOn, CountedOn, HoldingOn, Counted, Holding, Ownership,
     Active, Released, Extending, OpenExt, Fetching, Pending, NoPanic,
     Panicked
<1>6. Fetching' /\ NoPanic'
  BY DEF IInv, Recycle, httpVars, poolVars, fieldVars, countVars, extVars,
     opVars, goVars, Fetching, Pending, Counted, Holding, NoPanic, Panicked
<1> QED BY <1>1, <1>2, <1>3, <1>4, <1>5, <1>6 DEF IInv
-----------------------------------------------------------------------------
(* The invariant and what follows from it. *)

\* Initially every counter is zero and nobody holds anything.
LEMMA InitIInv == Init => IInv
<1> SUFFICES ASSUME Init PROVE IInv
  OBVIOUS
<1>1. TypeOK
  BY DEF Init, TypeOK, CtxState, WaiterState, ExtState, PromiseState, Phase
<1>2. ASSUME NEW c \in Contexts
      PROVE  OpenOn(c) = {} /\ CountedOn(c) = {} /\ HoldingOn(c) = {}
  BY DEF Init, OpenOn, CountedOn, HoldingOn, Counted, Holding
<1>3. Counters
  <2>1. Cardinality({}) = 0 /\ 0 <= Concurrent
    BY FS_EmptySet, ConcurrentAssumption
  <2> QED BY <1>2, <2>1 DEF Init, Counters
<1>4. Ownership
  BY NoneAssumption DEF Init, Ownership, Active
<1>5. Released
  BY <1>2 DEF Init, Released
<1>6. Extending /\ Fetching
  BY DEF Init, Extending, Fetching, Counted, Holding, Pending
<1>7. NoPanic
  BY DEF Init, NoPanic, Panicked
<1> QED BY <1>1, <1>3, <1>4, <1>5, <1>6, <1>7 DEF IInv

\* While IInv holds, no goroutine and no job finds a nil ioContext.
LEMMA NoPanicStep ==
  ASSUME IInv, NEW f \in Fetches
  PROVE  ~Panic(f)
BY NoneAssumption
   DEF IInv, TypeOK, Ownership, Extending, Fetching, Pending, Counted, Panic,
       Phase, PromiseState

\* A stuttering step preserves IInv.
LEMMA Stutter ==
  ASSUME IInv, UNCHANGED vars
  PROVE  IInv'
<1> USE DEF vars, httpVars, poolVars, fieldVars, countVars, extVars, opVars,
            goVars
<1>1. Counters'
  BY KeepCounters DEF IInv, OpenOn, CountedOn, HoldingOn
<1>2. TypeOK' /\ Ownership' /\ Released' /\ Extending' /\ Fetching' /\ NoPanic'
  BY DEF IInv, TypeOK, Ownership, Released, CountedOn, Extending, OpenExt,
         Fetching, NoPanic, Panicked
<1> QED BY <1>1, <1>2 DEF IInv

\* Every step preserves IInv.
LEMMA NextIInv == ~Abandon /\ IInv /\ [Next]_vars => IInv'
<1> SUFFICES ASSUME ~Abandon, IInv, [Next]_vars PROVE IInv'
  OBVIOUS
<1>1. ASSUME NEW r \in Requests, HttpStep(r) PROVE IInv'
  BY <1>1, GetStep, PutStep, EndRequestStep DEF HttpStep
<1>2. CASE JsStep
  BY <1>2, EnterExtensionStep, ExtendContextStep, ConcludeExtendStep,
     DoFetchStep, SettleStep DEF JsStep
<1>3. ASSUME NEW f \in Fetches, FetchStep(f) PROVE IInv'
  BY <1>3, CallAcquireStep, GrantStep, AcquireFailsStep, CountFetchStep,
     BuildRequestStep, PostStep, FetchGroupDoneStep, LimiterReleaseStep
     DEF FetchStep
<1>4. ASSUME NEW c \in Contexts, WaiterStep(c) \/ ReleaserStep(c) PROVE IInv'
  BY <1>4, WaitStartStep, WaitEndStep, ReleaseCtxDoneStep,
     ReleaseFetchDoneStep, CleanupStep, RecycleStep
     DEF WaiterStep, ReleaserStep
<1>5. CASE UNCHANGED vars
  BY <1>5, Stutter
<1> QED BY <1>1, <1>2, <1>3, <1>4, <1>5, NoPanicStep DEF Next, Step

\* The inductive invariant holds in every reachable state.
THEOREM Invariance ==
  ASSUME ~Abandon
  PROVE  Spec => []IInv
BY InitIInv, NextIInv, PTL DEF Spec

\* Every variable keeps its type; the three counters never go below zero, so
\* no WaitGroup panics with a negative counter.
THEOREM TypeCorrect ==
  ASSUME ~Abandon
  PROVE  Spec => []TypeOK
<1>1. IInv => TypeOK
  BY DEF IInv
<1> QED BY <1>1, Invariance, PTL

\* JavaScript that awaits its fetches never makes a goroutine or a job of the
\* loop dereference a nil ioContext.
THEOREM NeverPanics ==
  ASSUME ~Abandon
  PROVE  Spec => []NoPanic
<1>1. IInv => NoPanic
  BY DEF IInv
<1> QED BY <1>1, Invariance, PTL

\* A context serves one request at a time.
THEOREM Exclusive ==
  ASSUME ~Abandon
  PROVE  Spec => []ExclusiveContext
<1>1. IInv => ExclusiveContext
  BY NoneAssumption DEF IInv, TypeOK, Ownership, Active, ExclusiveContext
<1> QED BY <1>1, Invariance, PTL

\* A context in the pool is clean: nothing of its last request is counted,
\* running or cancellable.
THEOREM PoolClean ==
  ASSUME ~Abandon
  PROVE  Spec => []CleanPool
<1>1. ASSUME IInv, NEW c \in Contexts, ctxState[c] = "pooled"
      PROVE  OpenOn(c) = {}
  BY <1>1, NoneAssumption
     DEF IInv, TypeOK, Ownership, Released, Extending, Active, OpenOn
<1>2. IInv => CleanPool
  BY <1>1, FS_EmptySet DEF IInv, Counters, Released, CleanPool
<1> QED BY <1>2, Invariance, PTL

\* What is still in use when release() runs its cleanup functions: nothing.
LEMMA NothingInUse ==
  ASSUME IInv, NEW c \in Contexts, ctxState[c] = "cleanup"
  PROVE  LET r == reqCtx[c]
         IN  /\ r \in Requests
             /\ reqState[r] = "returned"
             /\ OpenExt(r) = {}
             /\ InFlight(r) = {}
             /\ \A x \in Extensions : extReq[x] = r => extState[x] = "done"
<1>1. PICK r \in Requests :
        r = reqCtx[c] /\ ioContext[r] = c /\ reqState[r] = "returned"
  BY NoneAssumption DEF IInv, TypeOK, Ownership, Active
<1>2. extCtx[c] = "cancelled" /\ CountedOn(c) = {}
  BY DEF IInv, Released
<1>3. OpenExt(r) = {}
  BY <1>1, <1>2 DEF IInv, Extending, OpenExt
<1>4. ASSUME NEW x \in Extensions, extReq[x] = r PROVE extState[x] = "done"
  BY <1>1, <1>3, <1>4, NoneAssumption
     DEF IInv, TypeOK, ExtState, Extending, OpenExt
<1>5. ASSUME NEW f \in Fetches, opReq[f] = r PROVE promise[f] \notin Pending
  BY <1>1, <1>4, <1>5, NoneAssumption DEF IInv, TypeOK, Fetching
<1>6. ASSUME NEW f \in Fetches, opReq[f] = r PROVE phase[f] \notin Counted
  BY <1>1, <1>2, <1>6 DEF IInv, Fetching, CountedOn
<1> QED BY <1>1, <1>3, <1>4, <1>5, <1>6 DEF InFlight

\* The cleanup functions take nothing away from anybody.
THEOREM ReleaseIsSafe ==
  ASSUME ~Abandon
  PROVE  Spec => []SafeRelease
<1>1. IInv => SafeRelease
  BY NothingInUse DEF SafeRelease
<1> QED BY <1>1, Invariance, PTL

\* At most Concurrent fetches hold the limiter of a context, the late ones of
\* its previous request included.
THEOREM LimiterHolds ==
  ASSUME ~Abandon
  PROVE  Spec => []LimiterBound
<1>1. IInv => LimiterBound
  BY DEF IInv, Counters, HoldingOn, LimiterBound
<1> QED BY <1>1, Invariance, PTL

\* An open extension has a live extended context.
THEOREM ExtensionStaysLive ==
  ASSUME ~Abandon
  PROVE  Spec => []ExtendedStaysLive
<1>1. IInv => ExtendedStaysLive
  BY DEF IInv, Extending, ExtendedStaysLive
<1> QED BY <1>1, Invariance, PTL

-----------------------------------------------------------------------------
(* Refinement of Lease: the abstract state as functions of the concrete one. *)

\* Where the lease of a request stands, read off its goroutine and event.
LEMMA LeaseAt ==
  ASSUME TypeOK, NEW r \in Requests
  PROVE  /\ reqState[r] = "new" => lease[r] = "none"
         /\ reqState[r] = "running" => lease[r] = "held"
         /\ reqState[r] = "returned" =>
               lease[r] = IF ioContext[r] # None THEN "returned"
                                                 ELSE "reclaimed"
BY DEF TypeOK, lease

\* What holds a lease: its open extensions and its fetches in flight.
LEMMA HoldsAt ==
  ASSUME NEW r \in Requests, NEW h
  PROVE  h \in holds[r] <=>
            \/ h \in Extensions /\ extState[h] = "open" /\ extReq[h] = r
            \/ /\ h \in Fetches /\ opReq[h] = r
               /\ promise[h] \in Pending \/ phase[h] \in Counted
BY DEF holds, OpenExt, InFlight

\* No lease moves when no goroutine of a request and no event does.
LEMMA LeaseKept ==
  ASSUME UNCHANGED <<reqState, ioContext>>
  PROVE  UNCHANGED lease
BY DEF lease

\* No hold is taken or dropped while extensions and fetches stay as they are.
LEMMA HoldsKept ==
  ASSUME UNCHANGED <<extState, extReq, opReq>>,
         \A f \in Fetches :
            (promise[f] \in Pending \/ phase[f] \in Counted)'
               <=> (promise[f] \in Pending \/ phase[f] \in Counted)
  PROVE  UNCHANGED holds
BY DEF holds, OpenExt, InFlight

\* Code of a request that has an open extension, or whose handler runs, runs
\* under a lease that is alive.
LEMMA StillAlive ==
  ASSUME IInv, NEW r \in Requests,
         \/ reqState[r] = "running"
         \/ OpenExt(r) # {}
  PROVE  L!Alive(r)
<1>1. CASE reqState[r] = "running"
  BY <1>1, LeaseAt DEF IInv, L!Alive
<1>2. CASE OpenExt(r) # {}
  <2>1. PICK x \in Extensions : extState[x] = "open" /\ extReq[x] = r
    BY <1>2 DEF OpenExt
  <2>2. ioContext[r] # None /\ reqState[r] # "new"
    BY <2>1 DEF IInv, Extending, Ownership
  <2>3. lease[r] \in {"held", "returned"}
    BY <2>2, LeaseAt DEF IInv, TypeOK
  <2>4. holds[r] # {}
    BY <2>1, HoldsAt
  <2> QED BY <2>3, <2>4 DEF L!Alive
<1> QED BY <1>1, <1>2

-----------------------------------------------------------------------------
(* The steps that move the abstract state. *)

\* Get grants the lease.
LEMMA GetGrants ==
  ASSUME IInv, NEW r \in Requests, NEW c \in Contexts, Get(r, c)
  PROVE  L!Next
<1>1. reqState[r] = "new" /\ reqState' = [reqState EXCEPT ![r] = "running"]
      /\ ioContext' = [ioContext EXCEPT ![r] = c]
  BY DEF Get
<1>2. lease[r] = "none"
  BY <1>1, LeaseAt DEF IInv
<1>3. lease' = [lease EXCEPT ![r] = "held"]
  BY <1>1 DEF IInv, TypeOK, lease
<1>4. UNCHANGED holds
  BY HoldsKept DEF Get, extVars, opVars, goVars
<1> QED BY <1>2, <1>3, <1>4 DEF L!Next, L!Grant

\* Put returns it.
LEMMA PutReturns ==
  ASSUME IInv, NEW r \in Requests, Put(r)
  PROVE  L!Next
<1>1. /\ reqState[r] = "running"
      /\ reqState' = [reqState EXCEPT ![r] = "returned"]
      /\ ioContext' = ioContext
  BY DEF Put
<1>2. lease[r] = "held"
  BY <1>1, LeaseAt DEF IInv
<1>3. ioContext[r] # None
  BY <1>1 DEF IInv, Ownership
<1>4. lease' = [lease EXCEPT ![r] = "returned"]
  BY <1>1, <1>3 DEF IInv, TypeOK, lease
<1>5. UNCHANGED holds
  BY HoldsKept DEF Put, extVars, opVars, goVars
<1> QED BY <1>2, <1>4, <1>5 DEF L!Next, L!Return

\* Cleanup reclaims it, and nothing holds it any more.
LEMMA CleanupReclaims ==
  ASSUME IInv, NEW c \in Contexts, Cleanup(c)
  PROVE  L!Next
<1>1. PICK r \in Requests :
        r = reqCtx[c] /\ ioContext[r] = c /\ reqState[r] = "returned"
  BY NoneAssumption DEF IInv, TypeOK, Ownership, Active, Cleanup
<1>2. reqState' = reqState /\ ioContext' = [ioContext EXCEPT ![r] = None]
  BY <1>1 DEF Cleanup
<1>3. c # None
  BY NoneAssumption
<1>4. lease[r] = "returned"
  BY <1>1, <1>3, LeaseAt DEF IInv
<1>5. lease' = [lease EXCEPT ![r] = "reclaimed"]
  BY <1>1, <1>2, <1>3 DEF IInv, TypeOK, lease
<1>6. holds[r] = {}
  BY <1>1, NothingInUse DEF Cleanup, holds
<1>7. UNCHANGED holds
  BY HoldsKept DEF Cleanup, extVars, opVars, goVars
<1> QED BY <1>4, <1>5, <1>6, <1>7 DEF L!Next, L!Reclaim

\* ExtendContext takes a hold under a lease that is alive.
LEMMA ExtendHolds ==
  ASSUME IInv, NEW x \in Extensions, ExtendContext(x)
  PROVE  L!Next
<1> DEFINE r == extReq[x]
<1>1. extState[x] = "iife" /\ extState' = [extState EXCEPT ![x] = "open"]
      /\ UNCHANGED <<httpVars, extReq, opVars, goVars>>
  BY DEF ExtendContext
<1>2. r \in Requests /\ (reqState[r] = "running" \/ OpenExt(r) # {})
  BY <1>1, NoneAssumption DEF IInv, TypeOK, Extending
<1>3. L!Alive(r)
  BY <1>2, StillAlive
<1>4. \A q \in Requests : x \notin holds[q]
  BY <1>1, HoldsAt, DisjointAssumption
<1>5. holds' = [holds EXCEPT ![r] = @ \cup {x}]
  <2>1. ASSUME NEW q \in Requests
        PROVE  holds'[q] = IF q = r THEN holds[q] \cup {x} ELSE holds[q]
    BY <1>1 DEF IInv, TypeOK, holds, OpenExt, InFlight, opVars, goVars
  <2> QED BY <2>1 DEF holds
<1>6. UNCHANGED lease
  BY <1>1, LeaseKept DEF httpVars
<1> QED BY <1>2, <1>3, <1>4, <1>5, <1>6 DEF L!Next, L!Hold

\* ConcludeExtend drops it.
LEMMA ConcludeDrops ==
  ASSUME IInv, NEW x \in Extensions, ConcludeExtend(x)
  PROVE  L!Next
<1> DEFINE r == extReq[x]
<1>1. extState[x] = "open" /\ extState' = [extState EXCEPT ![x] = "done"]
      /\ UNCHANGED <<httpVars, extReq, opVars, goVars>>
  BY DEF ConcludeExtend
<1>2. r \in Requests
  BY <1>1, NoneAssumption DEF IInv, TypeOK, Extending
<1>3. x \in holds[r]
  BY <1>1, <1>2, HoldsAt
<1>4. holds' = [holds EXCEPT ![r] = @ \ {x}]
  <2>1. ASSUME NEW q \in Requests
        PROVE  holds'[q] = IF q = r THEN holds[q] \ {x} ELSE holds[q]
    BY <1>1, DisjointAssumption
       DEF IInv, TypeOK, holds, OpenExt, InFlight, opVars, goVars
  <2> QED BY <2>1 DEF holds
<1>5. UNCHANGED lease
  BY <1>1, LeaseKept DEF httpVars
<1> QED BY <1>2, <1>3, <1>4, <1>5 DEF L!Next, L!Drop

\* doFetch takes a hold under a lease that is alive.
LEMMA DoFetchHolds ==
  ASSUME IInv, NEW f \in Fetches, NEW r \in Requests,
         NEW t \in Extensions \cup {None}, DoFetch(f, r, t)
  PROVE  L!Next
<1>1. PICK at \in {"spawned", "ended"}, to \in {"pending", "rejecting"} :
          /\ phase[f] = "none" /\ phase' = [phase EXCEPT ![f] = at]
          /\ promise' = [promise EXCEPT ![f] = to]
          /\ opReq' = [opReq EXCEPT ![f] = r]
          /\ MayRun(r, t)
          /\ UNCHANGED <<httpVars, extVars>>
  BY DEF DoFetch
<1>2. opReq[f] = None
  BY <1>1 DEF IInv, Fetching
<1>3. reqState[r] = "running" \/ OpenExt(r) # {}
  BY <1>1, NoneAssumption DEF IInv, MayRun, OpenExt, Extending
<1>4. L!Alive(r)
  BY <1>3, StillAlive
<1>5. \A q \in Requests : f \notin holds[q]
  BY <1>2, HoldsAt, DisjointAssumption, NoneAssumption
<1>6. holds' = [holds EXCEPT ![r] = @ \cup {f}]
  <2>1. ASSUME NEW q \in Requests
        PROVE  holds'[q] = IF q = r THEN holds[q] \cup {f} ELSE holds[q]
    BY <1>1, <1>2, NoneAssumption
       DEF IInv, TypeOK, holds, OpenExt, InFlight, extVars, Pending, Counted
  <2> QED BY <2>1 DEF holds
<1>7. UNCHANGED lease
  BY <1>1, LeaseKept DEF httpVars
<1> QED BY <1>4, <1>5, <1>6, <1>7 DEF L!Next, L!Hold

\* A step that ends what keeps a fetch in flight drops its hold; a step that
\* ends one of two reasons changes nothing.
LEMMA FetchDrops ==
  ASSUME IInv, NEW f \in Fetches, opReq[f] # None,
         promise[f] \in Pending \/ phase[f] \in Counted,
         UNCHANGED <<reqState, ioContext, extVars, opReq>>,
         \A g \in Fetches \ {f} : promise'[g] = promise[g] /\ phase'[g] = phase[g]
  PROVE  [L!Next]_(L!vars)
<1> DEFINE r == opReq[f]
<1>1. r \in Requests
  BY DEF IInv, TypeOK
<1>2. UNCHANGED lease
  BY LeaseKept
<1>3. CASE (promise[f] \in Pending \/ phase[f] \in Counted)'
  BY <1>2, <1>3, HoldsKept DEF extVars, L!vars
<1>4. CASE ~(promise[f] \in Pending \/ phase[f] \in Counted)'
  <2>1. f \in holds[r]
    BY <1>1, HoldsAt
  <2>2. ASSUME NEW q \in Requests
        PROVE  holds'[q] = IF q = r THEN holds[q] \ {f} ELSE holds[q]
    BY <1>4, DisjointAssumption
       DEF holds, OpenExt, InFlight, extVars
  <2>3. holds' = [holds EXCEPT ![r] = @ \ {f}]
    BY <2>2 DEF holds
  <2> QED BY <1>1, <1>2, <2>1, <2>3 DEF L!Next, L!Drop
<1> QED BY <1>3, <1>4

-----------------------------------------------------------------------------
(* The refinement. *)

\* A step of a fetch's goroutine or of the job it posts.
LEMMA FetchRefines ==
  ASSUME IInv, NEW f \in Fetches, FetchStep(f) \/ Settle(f)
  PROVE  [L!Next]_(L!vars)
<1> USE DEF httpVars, extVars, opVars
<1>1. CASE Settle(f) \/ FetchGroupDone(f) \/ AcquireFails(f) \/ Post(f)
  <2>1. UNCHANGED <<reqState, ioContext, extVars, opReq>>
    BY <1>1 DEF Settle, FetchGroupDone, AcquireFails, Post
  <2>2. \A g \in Fetches \ {f} : promise'[g] = promise[g] /\ phase'[g] = phase[g]
    BY <1>1 DEF IInv, TypeOK, Settle, FetchGroupDone, AcquireFails, Post, goVars
  <2>3. opReq[f] # None
    BY <1>1 DEF IInv, TypeOK, Fetching, Settle, FetchGroupDone, AcquireFails,
                Post
  <2>4. promise[f] \in Pending \/ phase[f] \in Counted
    BY <1>1 DEF IInv, Fetching, Pending, Counted, Settle, FetchGroupDone,
                AcquireFails, Post
  <2> QED BY <2>1, <2>2, <2>3, <2>4, FetchDrops
<1>2. CASE CallAcquire(f) \/ Grant(f) \/ CountFetch(f) \/ BuildRequest(f)
           \/ LimiterRelease(f)
  <2>1. UNCHANGED <<reqState, ioContext, extState, extReq, opReq, promise>>
    BY <1>2 DEF CallAcquire, Grant, CountFetch, BuildRequest, LimiterRelease
  <2>2. \A g \in Fetches :
           (promise[g] \in Pending \/ phase[g] \in Counted)'
              <=> (promise[g] \in Pending \/ phase[g] \in Counted)
    BY <1>2, <2>1 DEF IInv, TypeOK, Fetching, Pending, Counted, CallAcquire,
                      Grant, CountFetch, BuildRequest, LimiterRelease
  <2>3. UNCHANGED L!vars
    BY <2>1, <2>2, HoldsKept, LeaseKept DEF L!vars
  <2> QED BY <2>3
<1> QED BY <1>1, <1>2 DEF FetchStep

\* Every step of IOContext is a step of Lease or leaves its state alone.
LEMMA NextRefines == IInv /\ [Next]_vars => [L!Next]_(L!vars)
<1> SUFFICES ASSUME IInv, [Next]_vars PROVE [L!Next]_(L!vars)
  OBVIOUS
<1>1. ASSUME NEW r \in Requests, HttpStep(r) PROVE [L!Next]_(L!vars)
  <2>1. CASE EndRequest(r)
    BY <2>1, LeaseKept, HoldsKept
       DEF EndRequest, extVars, opVars, goVars, L!vars
  <2> QED BY <1>1, <2>1, GetGrants, PutReturns DEF HttpStep
<1>2. CASE JsStep
  <2>1. ASSUME NEW x \in Extensions, NEW r \in Requests, EnterExtension(x, r)
        PROVE  UNCHANGED L!vars
    <3>1. UNCHANGED lease
      BY <2>1, LeaseKept DEF EnterExtension, httpVars
    <3>2. extState[x] = "none" /\ extState' = [extState EXCEPT ![x] = "iife"]
          /\ extReq' = [extReq EXCEPT ![x] = r]
          /\ UNCHANGED <<opReq, promise, phase>>
      BY <2>1 DEF EnterExtension, opVars, goVars
    <3>3. UNCHANGED holds
      BY <3>2 DEF IInv, TypeOK, holds, OpenExt, InFlight
    <3> QED BY <3>1, <3>3 DEF L!vars
  <2> QED BY <1>2, <2>1, ExtendHolds, ConcludeDrops, DoFetchHolds,
             FetchRefines DEF JsStep
<1>3. ASSUME NEW f \in Fetches, FetchStep(f) PROVE [L!Next]_(L!vars)
  BY <1>3, FetchRefines
<1>4. ASSUME NEW c \in Contexts, WaiterStep(c) \/ ReleaserStep(c)
      PROVE  [L!Next]_(L!vars)
  <2>1. CASE Cleanup(c)
    BY <2>1, CleanupReclaims
  <2>2. CASE ~Cleanup(c)
    <3>1. UNCHANGED <<httpVars, extVars, opVars, goVars>>
      BY <1>4, <2>2 DEF WaiterStep, ReleaserStep, WaitStart, WaitEnd,
                        ReleaseCtxDone, ReleaseFetchDone, Recycle
    <3> QED BY <3>1, LeaseKept, HoldsKept
            DEF httpVars, extVars, opVars, goVars, L!vars
  <2> QED BY <2>1, <2>2
<1>5. CASE UNCHANGED vars
  BY <1>5, LeaseKept, HoldsKept
     DEF vars, httpVars, extVars, opVars, goVars, L!vars
<1> QED BY <1>1, <1>2, <1>3, <1>4, <1>5, NoPanicStep DEF Next, Step

\* IOContext starts where Lease starts.
LEMMA InitRefines == Init => L!Init
BY NoneAssumption
   DEF Init, L!Init, lease, holds, OpenExt, InFlight, Pending, Counted

\* The goroutines, the loop, the wait groups and the two contexts of an
\* IOContext together keep the promise of Lease: nothing is reclaimed under a
\* hold, and after the handler no hold is taken but under another one.
THEOREM Refinement ==
  ASSUME ~Abandon
  PROVE  Spec => ImplementsLease
<1>1. Init => L!Init
  BY InitRefines
<1>2. IInv /\ [Next]_vars => [L!Next]_(L!vars)
  BY NextRefines
<1>3. Spec => []IInv
  BY Invariance
<1> QED BY <1>1, <1>2, <1>3, PTL DEF Spec, ImplementsLease, L!Spec

-----------------------------------------------------------------------------
(* The rule of sync.WaitGroup. *)

\* Both wait groups rise from zero only before their Wait: the extender group
\* under the handler, the fetch group before release has waited for it.
THEOREM WaitGroups ==
  ASSUME ~Abandon
  PROVE  Spec => WaitGroupRule
<1> DEFINE Rule ==
      \A c \in Contexts :
          /\ extenders[c] = 0 /\ extenders'[c] > 0 => ctxState[c] = "leased"
          /\ fetchGroup[c] = 0 /\ fetchGroup'[c] > 0 =>
                ctxState[c] \in {"leased", "ctxWait"}
<1>1. ASSUME IInv, NEW x \in Extensions, ExtendContext(x) PROVE Rule
  <2> DEFINE r == extReq[x]
  <2>1. /\ extState[x] = "iife" /\ UNCHANGED fetchGroup
        /\ extenders' = [extenders EXCEPT ![ioContext[r]] = @ + 1]
    BY <1>1 DEF ExtendContext
  <2>2. r \in Requests /\ (reqState[r] = "running" \/ OpenExt(r) # {})
    BY <1>1, <2>1, NoneAssumption DEF IInv, TypeOK, Extending
  <2>3. ASSUME NEW c \in Contexts, extenders[c] = 0, c = ioContext[r]
        PROVE  OpenExt(r) = {}
    <3>1. OpenOn(c) = {}
      BY <1>1, <2>3, NoOne, FiniteOn DEF IInv, Counters
    <3> QED BY <2>3, <3>1 DEF OpenExt, OpenOn
  <2>4. ASSUME NEW c \in Contexts, extenders[c] = 0, extenders'[c] > 0
        PROVE  ctxState[c] = "leased"
    <3>1. c = ioContext[r]
      BY <1>1, <2>1, <2>4 DEF IInv, TypeOK
    <3> QED BY <1>1, <2>2, <2>3, <2>4, <3>1 DEF IInv, Ownership
  <2> QED BY <1>1, <2>1, <2>4 DEF IInv, TypeOK
<1>2. ASSUME IInv, NEW f \in Fetches, CountFetch(f) PROVE Rule
  <2>1. /\ phase[f] = "granted" /\ UNCHANGED extenders
        /\ fetchGroup' = [fetchGroup EXCEPT ![token[f]] = @ + 1]
    BY <1>2 DEF CountFetch
  <2>2. PICK r \in Requests : r = opReq[f] /\ token[f] = ioContext[r]
                              /\ token[f] # None /\ promise[f] = "pending"
    BY <1>2, <2>1, NoneAssumption DEF IInv, TypeOK, Fetching
  <2>3. ctxState[token[f]] \in {"leased", "ctxWait"}
    <3>1. CASE opTask[f] = None
      BY <1>2, <2>2, <3>1 DEF IInv, Ownership, Fetching, Pending
    <3>2. CASE opTask[f] # None
      <4>1. OpenExt(r) # {} \/ reqState[r] = "running"
        BY <1>2, <2>2, <3>2 DEF IInv, TypeOK, Fetching, Pending, Extending,
                                 OpenExt
      <4>2. CASE reqState[r] = "running"
        BY <1>2, <2>2, <4>2 DEF IInv, Ownership
      <4>3. CASE OpenExt(r) # {}
        <5>1. extCtx[token[f]] = "live"
          BY <1>2, <2>2, <4>3 DEF IInv, Extending, OpenExt
        <5> QED BY <1>2, <2>2, <5>1
                DEF IInv, TypeOK, Ownership, Active, Released
      <4> QED BY <4>1, <4>2, <4>3
    <3> QED BY <3>1, <3>2
  <2> QED BY <1>2, <2>1, <2>3 DEF IInv, TypeOK
<1>3. IInv /\ [Next]_vars => Rule
  <2> SUFFICES ASSUME IInv, IInv', [Next]_vars PROVE Rule
    BY NextIInv
  <2>1. CASE \A c \in Contexts :
                extenders'[c] <= extenders[c] /\ fetchGroup'[c] <= fetchGroup[c]
    BY <2>1 DEF IInv, TypeOK
  <2>2. CASE UNCHANGED <<extenders, fetchGroup>>
    BY <2>1, <2>2 DEF IInv, TypeOK
  <2>3. ASSUME NEW r \in Requests, HttpStep(r)
        PROVE  UNCHANGED <<extenders, fetchGroup>>
    BY <2>3 DEF HttpStep, Get, Put, EndRequest, countVars
  <2>4. ASSUME NEW f \in Fetches, FetchStep(f), ~CountFetch(f)
        PROVE  \A c \in Contexts :
                extenders'[c] <= extenders[c] /\ fetchGroup'[c] <= fetchGroup[c]
    BY <2>4 DEF IInv, TypeOK, FetchStep, CallAcquire, Grant, AcquireFails,
                BuildRequest, Post, FetchGroupDone, LimiterRelease, countVars
  <2>5. ASSUME NEW x \in Extensions, ConcludeExtend(x)
        PROVE  \A c \in Contexts :
                extenders'[c] <= extenders[c] /\ fetchGroup'[c] <= fetchGroup[c]
    BY <2>5 DEF IInv, TypeOK, ConcludeExtend
  <2>6. ASSUME NEW c \in Contexts, WaiterStep(c) \/ ReleaserStep(c)
        PROVE  UNCHANGED <<extenders, fetchGroup>>
    BY <2>6 DEF WaiterStep, ReleaserStep, WaitStart, WaitEnd, ReleaseCtxDone,
                ReleaseFetchDone, Cleanup, Recycle, countVars
  <2>7. ASSUME JsStep, ~(\E x \in Extensions : ExtendContext(x)),
               ~(\E x \in Extensions : ConcludeExtend(x))
        PROVE  UNCHANGED <<extenders, fetchGroup>>
    BY <2>7 DEF JsStep, EnterExtension, DoFetch, Settle, countVars
  <2>8. CASE UNCHANGED vars
    BY <2>2, <2>8 DEF vars, countVars
  <2> QED BY <1>1, <1>2, <2>1, <2>2, <2>3, <2>4, <2>5, <2>6, <2>7, <2>8,
             NoPanicStep DEF Next, Step
<1>4. Spec => []IInv
  BY Invariance
<1> QED BY <1>3, <1>4, PTL DEF Spec, WaitGroupRule
=============================================================================
