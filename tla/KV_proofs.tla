------------------------------- MODULE KV_proofs -------------------------------
(***************************************************************************)
(* Theorems about KV, for any sets of requests, carriers and extensions    *)
(* and any bounds: mappers stay bound to the request whose operations use  *)
(* them, and no get loses an update.                                       *)
(***************************************************************************)
EXTENDS KV, SequenceTheorems, TLAPS

-----------------------------------------------------------------------------
(* Operations as elements of a sequence. *)

\* An operation has its type and a number up to MaxOps.
LEMMA OpFacts ==
    ASSUME TypeOK
    PROVE  /\ Ops = 1 .. Len(op) /\ Len(op) \in Nat /\ Ops \subseteq 1 .. MaxOps
           /\ \A q \in Ops : op[q] \in OpType
           /\ store \in 1 .. MaxOps \cup {None}
<1>1. /\ op \in Seq(OpType) /\ Len(op) <= MaxOps /\ MaxOps \in Nat
      /\ store \in Ops \cup {None}
  BY BoundsAssumption DEF TypeOK
<1>2. Ops = 1 .. Len(op) /\ Len(op) \in Nat
  BY <1>1, LenProperties DEF Ops
<1>3. \A q \in Ops : op[q] \in OpType
  BY <1>1, <1>2, ElementOfSeq
<1> QED
  BY <1>1, <1>2, <1>3

\* A call adds an operation to the others.
LEMMA Called ==
    ASSUME TypeOK, Len(op) < MaxOps, NEW o \in OpType, op' = Append(op, o)
    PROVE  LET n == Len(op) + 1 IN
           /\ op' \in Seq(OpType) /\ Len(op') <= MaxOps
           /\ Ops' = Ops \cup {n} /\ n \notin Ops
           /\ op'[n] = o /\ \A q \in Ops : op'[q] = op[q]
<1>1. op \in Seq(OpType) /\ MaxOps \in Nat
  BY BoundsAssumption DEF TypeOK
<1>2. Ops = 1 .. Len(op) /\ Len(op) \in Nat
  BY OpFacts
<1>3. /\ op' \in Seq(OpType) /\ Len(op') = Len(op) + 1
      /\ op'[Len(op) + 1] = o
      /\ \A q \in 1 .. Len(op) : op'[q] = op[q]
  BY <1>1, AppendProperties
<1>4. Ops' = 1 .. Len(op) + 1
  BY <1>3, LenProperties DEF Ops
<1> QED
  BY <1>1, <1>2, <1>3, <1>4

\* A step of one operation changes none of the others.
LEMMA Changed ==
    ASSUME TypeOK, NEW q \in Ops, NEW o \in OpType, op' = [op EXCEPT ![q] = o]
    PROVE  /\ op' \in Seq(OpType) /\ Len(op') <= MaxOps /\ Ops' = Ops
           /\ op'[q] = o /\ \A p \in Ops \ {q} : op'[p] = op[p]
<1>1. op \in Seq(OpType) /\ Len(op) <= MaxOps /\ q \in 1 .. Len(op)
  BY OpFacts DEF TypeOK
<1>2. op' \in Seq(OpType) /\ Len(op') = Len(op)
  BY <1>1, ExceptSeq
<1>3. Ops' = Ops
  BY <1>1, <1>2, LenProperties DEF Ops
<1>4. op'[q] = o /\ \A p \in Ops \ {q} : op'[p] = op[p]
  BY DEF Ops
<1> QED
  BY <1>1, <1>2, <1>3, <1>4

\* What the goroutine of an operation, or the job it posts, does to it.
LEMMA OpSteps ==
    ASSUME TypeOK, NEW q \in Ops, OpStep(q)
    PROVE  /\ UNCHANGED <<carrier, free, bound, leaseVars>>
           /\ store' \in Ops \cup {None}
           /\ \E o \in OpType :
                 /\ op' = [op EXCEPT ![q] = o]
                 /\ o.at # "called"
                 /\ o.kind = op[q].kind /\ o.by = op[q].by
                 /\ o.task = op[q].task /\ o.awaited = op[q].awaited
                 /\ o.before = op[q].before
<1>1. /\ op[q] \in OpType /\ store \in 1 .. MaxOps \cup {None}
      /\ store \in Ops \cup {None}
  BY OpFacts DEF TypeOK
<1>2. CASE OpStep(q) /\ ~Settle(q) /\ ~Panic(q)
  <2>1. PICK v \in 1 .. MaxOps \cup {None}, b \in BOOLEAN : Done(q, v, b)
    BY <1>1, <1>2 DEF OpStep, Get, Put, Del, Fails
  <2> DEFINE o == [op[q] EXCEPT !.at = "posted", !.value = v, !.ok = b]
  <2>2. o \in OpType /\ op' = [op EXCEPT ![q] = o]
    BY <1>1, <2>1 DEF Done, OpType
  <2>3. /\ o.at # "called" /\ o.kind = op[q].kind /\ o.by = op[q].by
        /\ o.task = op[q].task /\ o.awaited = op[q].awaited
        /\ o.before = op[q].before
    BY <1>1 DEF OpType
  <2>4. store' \in Ops \cup {None}
    BY <1>1, <1>2 DEF OpStep, Get, Put, Del, Fails
  <2>5. UNCHANGED <<carrier, free, bound, leaseVars>>
    BY <2>1 DEF Done
  <2> HIDE DEF o
  <2> QED
    BY <2>2, <2>3, <2>4, <2>5
<1>3. ASSUME NEW to \in {"settled", "panicked"},
             op' = [op EXCEPT ![q].at = to],
             UNCHANGED <<carrier, free, bound, store, leaseVars>>
      PROVE  /\ UNCHANGED <<carrier, free, bound, leaseVars>>
             /\ store' \in Ops \cup {None}
             /\ \E o \in OpType :
                   /\ op' = [op EXCEPT ![q] = o]
                   /\ o.at # "called"
                   /\ o.kind = op[q].kind /\ o.by = op[q].by
                   /\ o.task = op[q].task /\ o.awaited = op[q].awaited
                   /\ o.before = op[q].before
  <2> DEFINE o == [op[q] EXCEPT !.at = to]
  <2>1. o \in OpType /\ op' = [op EXCEPT ![q] = o]
    BY <1>1, <1>3 DEF OpType
  <2>2. /\ o.at # "called" /\ o.kind = op[q].kind /\ o.by = op[q].by
        /\ o.task = op[q].task /\ o.awaited = op[q].awaited
        /\ o.before = op[q].before
    BY <1>1 DEF OpType
  <2> HIDE DEF o
  <2> QED
    BY <1>1, <1>3, <2>1, <2>2
<1>4. CASE Settle(q)
  BY <1>3, <1>4 DEF Settle
<1>5. CASE Panic(q)
  BY <1>3, <1>5 DEF Panic
<1> QED
  BY <1>2, <1>4, <1>5

-----------------------------------------------------------------------------
(* Bindings. *)

\* The operations keep the bindings that they rely on as long as no request
\* gives up what they need: its carrier, its binding, the task that awaits.
LEMMA BindingsKept ==
    ASSUME BindingsInv, UNCHANGED <<op, store>>, L!TypeOK',
           carrier' \in [Requests -> Carriers \cup {None}],
           bound' \in [Carriers -> Requests \cup {None}],
           free' \subseteq Carriers,
           OwnCarrier', FreeUnbound',
           \A q \in Ops : (op[q].at = "called" /\ op[q].awaited) =>
               LET r == op[q].by IN
               /\ carrier'[r] = carrier[r] /\ bound'[carrier[r]] = r
               /\ Runs(r, op[q].task) => Runs(r, op[q].task)'
    PROVE  BindingsInv'
<1>1. TypeOK'
  <2>1. op' \in Seq(OpType) /\ Len(op') <= MaxOps /\ store' \in Ops' \cup {None}
    BY DEF BindingsInv, TypeOK, Ops
  <2> QED
    BY <2>1 DEF TypeOK
<1>2. OwnContext'
  <2> SUFFICES ASSUME NEW q \in Ops, op[q].at = "called", op[q].awaited
               PROVE  /\ bound'[carrier'[op[q].by]] = op[q].by
                      /\ Runs(op[q].by, op[q].task)'
    BY DEF OwnContext, Found, Ops, Runs
  <2> QED
    BY DEF BindingsInv, OwnContext
<1> QED
  BY <1>1, <1>2 DEF BindingsInv

\* A task that runs is one of a request that has a carrier.
LEMMA RunsServed ==
    ASSUME OwnCarrier, NEW r \in Requests, NEW task, Runs(r, task)
    PROVE  Serving(r) /\ carrier[r] \in Carriers \ free
  BY DEF OwnCarrier, Runs, Serving

\* An awaited operation that waits for its turn is one of a request that has a
\* carrier.
LEMMA CallerServed ==
    ASSUME BindingsInv, NEW q \in Ops, op[q].at = "called", op[q].awaited
    PROVE  /\ op[q].by \in Requests /\ Serving(op[q].by)
           /\ carrier[op[q].by] \in Carriers \ free
           /\ bound[carrier[op[q].by]] = op[q].by
           /\ Runs(op[q].by, op[q].task)
<1>1. op[q] \in OpType
  BY OpFacts DEF BindingsInv
<1>2. op[q].by \in Requests
  BY <1>1 DEF OpType
<1> QED
  BY <1>2, RunsServed DEF BindingsInv, OwnContext, Found

\* A carrier from the pool is bound to nobody.
LEMMA BeginStep ==
    ASSUME BindingsInv, NEW r \in Requests, NEW c \in Carriers, Begin(r, c)
    PROVE  BindingsInv'
<1>1. /\ c \in free /\ lease[r] = "none" /\ UNCHANGED <<bound, op, store, holds>>
      /\ lease' = [lease EXCEPT ![r] = "held"]
      /\ carrier' = [carrier EXCEPT ![r] = c] /\ free' = free \ {c}
  BY DEF Begin, L!Grant
<1>2. /\ lease'[r] = "held" /\ carrier'[r] = c
      /\ \A q \in Requests \ {r} : lease'[q] = lease[q] /\ carrier'[q] = carrier[q]
  BY <1>1 DEF BindingsInv, TypeOK, L!TypeOK
<1>3. /\ L!TypeOK' /\ carrier' \in [Requests -> Carriers \cup {None}]
      /\ free' \subseteq Carriers /\ bound' \in [Carriers -> Requests \cup {None}]
  BY <1>1 DEF BindingsInv, TypeOK, L!TypeOK, L!LeaseState
<1>4. OwnCarrier'
  <2>1. bound'[c] = None
    BY <1>1 DEF BindingsInv, FreeUnbound
  <2>2. \A q \in Requests \ {r} : Serving(q) => carrier[q] \in Carriers \ free
    BY DEF BindingsInv, OwnCarrier
  <2>3. \A q \in Requests \ {r} :
            Serving(q) => /\ bound[carrier[q]] \in {None, q}
                          /\ \A p \in Requests \ {q} :
                                Serving(p) => carrier[p] # carrier[q]
    BY DEF BindingsInv, OwnCarrier
  <2>4. \A q \in Requests : holds[q] # {} => Serving(q)
    BY DEF BindingsInv, OwnCarrier
  <2> QED
    BY <1>1, <1>2, <2>1, <2>2, <2>3, <2>4 DEF OwnCarrier, Serving
<1>5. FreeUnbound'
  BY <1>1 DEF BindingsInv, FreeUnbound
<1>6. \A q \in Ops : (op[q].at = "called" /\ op[q].awaited) =>
          LET p == op[q].by IN
          /\ carrier'[p] = carrier[p] /\ bound'[carrier[p]] = p
          /\ Runs(p, op[q].task) => Runs(p, op[q].task)'
  <2> SUFFICES ASSUME NEW q \in Ops, op[q].at = "called", op[q].awaited
               PROVE  LET p == op[q].by IN
                      /\ carrier'[p] = carrier[p] /\ bound'[carrier[p]] = p
                      /\ Runs(p, op[q].task) => Runs(p, op[q].task)'
    OBVIOUS
  <2>1. /\ op[q].by \in Requests \ {r}
        /\ bound[carrier[op[q].by]] = op[q].by
    BY <1>1, CallerServed DEF Serving
  <2> QED
    BY <1>1, <1>2, <2>1 DEF Runs
<1> QED
  BY <1>1, <1>3, <1>4, <1>5, <1>6, BindingsKept

\* The reset of a carrier comes after every task of its request.
LEMMA ResetStep ==
    ASSUME BindingsInv, NEW r \in Requests, Reset(r)
    PROVE  BindingsInv'
<1>1. /\ lease[r] = "returned" /\ holds[r] = {}
      /\ UNCHANGED <<carrier, op, store, holds>>
      /\ lease' = [lease EXCEPT ![r] = "reclaimed"]
      /\ bound' = [bound EXCEPT ![carrier[r]] = None]
      /\ free' = free \cup {carrier[r]}
  BY DEF Reset, L!Reclaim, GiveBack
<1>2. carrier[r] \in Carriers \ free
  BY <1>1 DEF BindingsInv, OwnCarrier, Serving
<1>3. /\ lease'[r] = "reclaimed" /\ bound'[carrier[r]] = None
      /\ \A q \in Requests \ {r} : lease'[q] = lease[q]
      /\ \A c \in Carriers \ {carrier[r]} : bound'[c] = bound[c]
  BY <1>1, <1>2 DEF BindingsInv, TypeOK, L!TypeOK
<1>4. /\ L!TypeOK' /\ carrier' \in [Requests -> Carriers \cup {None}]
      /\ free' \subseteq Carriers /\ bound' \in [Carriers -> Requests \cup {None}]
  BY <1>1, <1>2 DEF BindingsInv, TypeOK, L!TypeOK, L!LeaseState
<1>5. \A q \in Requests \ {r} :
          Serving(q) => /\ carrier[q] \in Carriers \ free
                        /\ carrier[q] # carrier[r]
  BY <1>1 DEF BindingsInv, OwnCarrier, Serving
<1>6. OwnCarrier'
  <2>1. \A q \in Requests : holds[q] # {} => Serving(q) /\ q # r
    BY <1>1 DEF BindingsInv, OwnCarrier
  <2>2. \A q \in Requests \ {r} :
            Serving(q) => /\ bound[carrier[q]] \in {None, q}
                          /\ \A p \in Requests \ {q} :
                                Serving(p) => carrier[p] # carrier[q]
    BY DEF BindingsInv, OwnCarrier
  <2> QED
    BY <1>1, <1>3, <1>5, <2>1, <2>2 DEF OwnCarrier, Serving
<1>7. FreeUnbound'
  BY <1>1, <1>3, <1>4 DEF BindingsInv, FreeUnbound
<1>8. \A q \in Ops : (op[q].at = "called" /\ op[q].awaited) =>
          LET p == op[q].by IN
          /\ carrier'[p] = carrier[p] /\ bound'[carrier[p]] = p
          /\ Runs(p, op[q].task) => Runs(p, op[q].task)'
  <2> SUFFICES ASSUME NEW q \in Ops, op[q].at = "called", op[q].awaited
               PROVE  LET p == op[q].by IN
                      /\ carrier'[p] = carrier[p] /\ bound'[carrier[p]] = p
                      /\ Runs(p, op[q].task) => Runs(p, op[q].task)'
    OBVIOUS
  <2>1. /\ op[q].by \in Requests \ {r} /\ Serving(op[q].by)
        /\ bound[carrier[op[q].by]] = op[q].by
    BY <1>1, CallerServed DEF Runs
  <2> QED
    BY <1>1, <1>3, <1>5, <2>1 DEF Found, Runs
<1> QED
  BY <1>1, <1>4, <1>6, <1>7, <1>8, BindingsKept

\* Binding a mapper again binds it to the same request.
LEMMA AccessStep ==
    ASSUME BindingsInv, NEW r \in Requests, NEW task, AccessKV(r, task)
    PROVE  BindingsInv'
<1>1. /\ bound' = [bound EXCEPT ![carrier[r]] = r]
      /\ UNCHANGED <<carrier, free, op, store, lease, holds>>
  BY DEF AccessKV, leaseVars
<1>2. Serving(r) /\ carrier[r] \in Carriers \ free
  BY RunsServed DEF AccessKV, BindingsInv
<1>3. /\ bound'[carrier[r]] = r
      /\ \A c \in Carriers \ {carrier[r]} : bound'[c] = bound[c]
  BY <1>1, <1>2 DEF BindingsInv, TypeOK
<1>4. /\ L!TypeOK' /\ carrier' \in [Requests -> Carriers \cup {None}]
      /\ free' \subseteq Carriers /\ bound' \in [Carriers -> Requests \cup {None}]
  BY <1>1 DEF BindingsInv, TypeOK, L!TypeOK
<1>5. OwnCarrier'
  <2>1. \A q \in Requests :
            /\ holds[q] # {} => Serving(q)
            /\ Serving(q) => /\ carrier[q] \in Carriers \ free
                             /\ bound[carrier[q]] \in {None, q}
                             /\ \A p \in Requests \ {q} :
                                   Serving(p) => carrier[p] # carrier[q]
    BY DEF BindingsInv, OwnCarrier
  <2> QED
    BY <1>1, <1>2, <1>3, <2>1 DEF OwnCarrier, Serving
<1>6. FreeUnbound'
  BY <1>1, <1>2, <1>3, <1>4 DEF BindingsInv, FreeUnbound
<1>7. \A q \in Ops : (op[q].at = "called" /\ op[q].awaited) =>
          LET p == op[q].by IN
          /\ carrier'[p] = carrier[p] /\ bound'[carrier[p]] = p
          /\ Runs(p, op[q].task) => Runs(p, op[q].task)'
  <2> SUFFICES ASSUME NEW q \in Ops, op[q].at = "called", op[q].awaited
               PROVE  LET p == op[q].by IN
                      /\ carrier'[p] = carrier[p] /\ bound'[carrier[p]] = p
                      /\ Runs(p, op[q].task) => Runs(p, op[q].task)'
    OBVIOUS
  <2>1. /\ op[q].by \in Requests /\ carrier[op[q].by] \in Carriers
        /\ bound[carrier[op[q].by]] = op[q].by
        /\ Serving(op[q].by)
    BY CallerServed
  <2>2. op[q].by # r => carrier[op[q].by] # carrier[r]
    BY <1>2, <2>1 DEF BindingsInv, OwnCarrier
  <2> QED
    BY <1>1, <1>3, <2>1, <2>2 DEF Runs
<1> QED
  BY <1>1, <1>4, <1>5, <1>6, <1>7, BindingsKept

\* Handler and extensions come and go with what they await.
LEMMA TaskStep ==
    ASSUME BindingsInv, NEW r \in Requests,
           \/ Return(r)
           \/ \E x \in Extensions : WaitUntil(r, x) \/ Conclude(r, x)
    PROVE  BindingsInv'
<1>1. UNCHANGED <<carrier, free, bound, op, store>>
  BY DEF Return, WaitUntil, Conclude
<1>2. L!TypeOK'
  BY DEF Return, WaitUntil, Conclude, L!Return, L!Hold, L!Drop, BindingsInv,
         TypeOK, L!TypeOK, L!LeaseState
<1>3. \A q \in Requests : Serving(q)' <=> Serving(q)
  BY DEF Return, WaitUntil, Conclude, L!Return, L!Hold, L!Drop, BindingsInv,
         TypeOK, L!TypeOK, Serving
<1>4. \A q \in Requests : holds'[q] # {} => Serving(q)
  <2>1. \A q \in Requests : holds[q] # {} => Serving(q)
    BY DEF BindingsInv, OwnCarrier
  <2>2. CASE Return(r)
    BY <2>1, <2>2 DEF Return, L!Return
  <2>3. ASSUME NEW x \in Extensions, WaitUntil(r, x)
        PROVE  \A q \in Requests : holds'[q] # {} => Serving(q)
    BY <2>1, <2>3 DEF WaitUntil, L!Hold, L!Alive, Serving, BindingsInv, TypeOK,
                      L!TypeOK
  <2>4. ASSUME NEW x \in Extensions, Conclude(r, x)
        PROVE  \A q \in Requests : holds'[q] # {} => Serving(q)
    BY <2>1, <2>4 DEF Conclude, L!Drop, BindingsInv, TypeOK, L!TypeOK
  <2> QED
    BY <2>2, <2>3, <2>4
<1>5. OwnCarrier' /\ FreeUnbound'
  BY <1>1, <1>3, <1>4 DEF BindingsInv, OwnCarrier, FreeUnbound
<1>6. \A q \in Ops : (op[q].at = "called" /\ op[q].awaited) =>
          Runs(op[q].by, op[q].task)'
  <2> SUFFICES ASSUME NEW q \in Ops, op[q].at = "called", op[q].awaited
               PROVE  Runs(op[q].by, op[q].task)'
    OBVIOUS
  <2>1. op[q].by \in Requests /\ Runs(op[q].by, op[q].task)
    BY CallerServed
  <2>2. CASE Return(r)
    <3>1. op[q].by # r \/ op[q].task # Handler
      BY <2>2 DEF Return, Awaited
    <3> QED
      BY <2>1, <2>2, <3>1
         DEF Return, L!Return, Runs, BindingsInv, TypeOK, L!TypeOK
  <2>3. ASSUME NEW x \in Extensions, WaitUntil(r, x)
        PROVE  Runs(op[q].by, op[q].task)'
    BY <2>1, <2>3
       DEF WaitUntil, L!Hold, Runs, BindingsInv, TypeOK, L!TypeOK
  <2>4. ASSUME NEW x \in Extensions, Conclude(r, x)
        PROVE  Runs(op[q].by, op[q].task)'
    <3>1. op[q].by # r \/ op[q].task # x
      BY <2>4 DEF Conclude, Awaited
    <3> QED
      BY <2>1, <2>4, <3>1
         DEF Conclude, L!Drop, Runs, BindingsInv, TypeOK, L!TypeOK
  <2> QED
    BY <2>2, <2>3, <2>4
<1>7. \A q \in Ops : (op[q].at = "called" /\ op[q].awaited) =>
          bound[carrier[op[q].by]] = op[q].by
  BY CallerServed
<1> QED
  BY <1>1, <1>2, <1>5, <1>6, <1>7, BindingsKept DEF BindingsInv, TypeOK

\* A new operation is called by a task that runs, on a mapper that is bound.
LEMMA CallStep ==
    ASSUME BindingsInv, NEW r \in Requests, NEW task \in Tasks,
           NEW kind \in {"get", "put", "del"}, NEW awaited \in BOOLEAN,
           CallOp(r, task, kind, awaited)
    PROVE  /\ BindingsInv'
           /\ \E o \in OpType :
                 /\ op' = Append(op, o) /\ store' = store /\ Len(op) < MaxOps
                 /\ o.at = "called" /\ ~o.ok
                 /\ o.before = {p \in Ops : op[p].at = "settled"}
<1> DEFINE o == [at |-> "called", kind |-> kind, by |-> r, task |-> task,
                 awaited |-> awaited, value |-> None, ok |-> FALSE,
                 before |-> {p \in Ops : op[p].at = "settled"}]
           n == Len(op) + 1
<1>1. /\ Runs(r, task) /\ bound[carrier[r]] = r /\ Len(op) < MaxOps
      /\ op' = Append(op, o)
      /\ UNCHANGED <<carrier, free, bound, store, lease, holds>>
  BY DEF CallOp, leaseVars
<1>2. TypeOK /\ Ops \subseteq 1 .. MaxOps
  BY OpFacts DEF BindingsInv
<1>3. o \in OpType
  BY <1>2 DEF OpType
<1>4. /\ o.at = "called" /\ ~o.ok /\ o.by = r /\ o.task = task
      /\ o.before = {p \in Ops : op[p].at = "settled"}
  OBVIOUS
<1> HIDE DEF o
<1>5. /\ op' \in Seq(OpType) /\ Len(op') <= MaxOps
      /\ Ops' = Ops \cup {n} /\ n \notin Ops
      /\ op'[n] = o /\ \A q \in Ops : op'[q] = op[q]
  BY <1>1, <1>2, <1>3, Called
<1>6. TypeOK'
  <2>1. L!TypeOK'
    BY <1>1, <1>2 DEF TypeOK, L!TypeOK
  <2>2. store' \in Ops' \cup {None}
    BY <1>1, <1>2, <1>5 DEF TypeOK
  <2> QED
    BY <1>1, <1>2, <1>5, <2>1, <2>2 DEF TypeOK
<1>7. OwnContext'
  <2> SUFFICES ASSUME NEW q \in Ops', op'[q].at = "called", op'[q].awaited
               PROVE  (Found(q) = op[q].by /\ Runs(op[q].by, op[q].task))'
    BY DEF OwnContext
  <2>1. CASE q = n
    BY <1>1, <1>4, <1>5, <2>1 DEF Found, Runs
  <2>2. CASE q \in Ops
    <3>1. op'[q] = op[q] /\ op[q].at = "called" /\ op[q].awaited
      BY <1>5, <2>2
    <3>2. bound[carrier[op[q].by]] = op[q].by /\ Runs(op[q].by, op[q].task)
      BY <2>2, <3>1, CallerServed
    <3> QED
      BY <1>1, <3>1, <3>2 DEF Found, Runs
  <2> QED
    BY <1>5, <2>1, <2>2
<1>8. OwnCarrier' /\ FreeUnbound'
  BY <1>1 DEF BindingsInv, OwnCarrier, FreeUnbound, Serving
<1> QED
  BY <1>1, <1>3, <1>4, <1>6, <1>7, <1>8 DEF BindingsInv

\* The steps of an operation bind nothing.
LEMMA OpBindingsStep ==
    ASSUME BindingsInv, NEW q \in Ops, OpStep(q)
    PROVE  BindingsInv'
<1>1. TypeOK
  BY DEF BindingsInv
<1>2. /\ UNCHANGED <<carrier, free, bound, lease, holds>>
      /\ store' \in Ops \cup {None}
  BY <1>1, OpSteps DEF leaseVars
<1>3. PICK o \in OpType : op' = [op EXCEPT ![q] = o] /\ o.at # "called"
  BY <1>1, OpSteps
<1>4. /\ op' \in Seq(OpType) /\ Len(op') <= MaxOps /\ Ops' = Ops
      /\ op'[q] = o /\ \A p \in Ops \ {q} : op'[p] = op[p]
  BY <1>1, <1>3, Changed
<1>5. TypeOK'
  <2>1. L!TypeOK'
    BY <1>1, <1>2 DEF TypeOK, L!TypeOK
  <2> QED
    BY <1>1, <1>2, <1>4, <2>1 DEF TypeOK
<1>6. OwnContext'
  <2> SUFFICES ASSUME NEW p \in Ops, op'[p].at = "called", op'[p].awaited
               PROVE  (Found(p) = op[p].by /\ Runs(op[p].by, op[p].task))'
    BY <1>4 DEF OwnContext
  <2>1. p # q
    BY <1>3, <1>4
  <2> QED
    BY <1>2, <1>4, <2>1, CallerServed DEF Found, Runs
<1>7. OwnCarrier' /\ FreeUnbound'
  BY <1>2 DEF BindingsInv, OwnCarrier, FreeUnbound, Serving
<1> QED
  BY <1>5, <1>6, <1>7 DEF BindingsInv

\* Doing nothing keeps the bindings.
LEMMA StutterBindings ==
    ASSUME BindingsInv, UNCHANGED vars
    PROVE  BindingsInv'
<1>1. UNCHANGED <<carrier, free, bound, op, store, lease, holds>>
  BY DEF vars, leaseVars
<1>2. TypeOK'
  BY <1>1 DEF BindingsInv, TypeOK, L!TypeOK, Ops
<1>3. OwnCarrier' /\ FreeUnbound'
  BY <1>1 DEF BindingsInv, OwnCarrier, FreeUnbound, Serving
<1>4. OwnContext'
  BY <1>1 DEF BindingsInv, OwnContext, Found, Runs, Ops
<1> QED
  BY <1>2, <1>3, <1>4 DEF BindingsInv

\* Whenever the goroutine of an awaited operation gets to run, its proxy has
\* the IOContext of the request that called it.
THEOREM Bindings == Spec => []BindingsInv
<1>1. Init => BindingsInv
  <2> SUFFICES ASSUME Init PROVE BindingsInv
    OBVIOUS
  <2>1. op \in Seq(OpType) /\ Len(op) = 0 /\ Ops = {}
    BY DEF Init, Ops
  <2>2. TypeOK
    BY <2>1, BoundsAssumption DEF Init, TypeOK, L!Init, L!TypeOK, L!LeaseState
  <2>3. OwnCarrier /\ FreeUnbound
    BY DEF Init, L!Init, OwnCarrier, FreeUnbound, Serving
  <2>4. OwnContext
    BY <2>1 DEF OwnContext
  <2> QED
    BY <2>2, <2>3, <2>4 DEF BindingsInv
<1>2. BindingsInv /\ [Next]_vars => BindingsInv'
  <2>1. ASSUME BindingsInv, NEW r \in Requests, Step(r)
        PROVE  BindingsInv'
    BY <2>1, BeginStep, TaskStep, ResetStep, AccessStep, CallStep DEF Step
  <2>2. ASSUME BindingsInv, NEW q \in Ops, OpStep(q)
        PROVE  BindingsInv'
    BY <2>2, OpBindingsStep
  <2> QED
    BY <2>1, <2>2, StutterBindings DEF Next
<1> QED
  BY <1>1, <1>2, PTL DEF Spec

-----------------------------------------------------------------------------
(* Values. *)

\* The goroutine of an operation has done it, or has failed: it read the store
\* and changed it in one step.
LEMMA DoneKeepsCurrent ==
    ASSUME TypeOK, ReadsCurrent, NEW q \in Ops, op[q].at = "called",
           NEW v \in 1 .. MaxOps \cup {None}, NEW b \in BOOLEAN,
           op' = [op EXCEPT ![q] = [op[q] EXCEPT !.at = "posted",
                                                 !.value = v, !.ok = b]],
           op[q].kind = "get" /\ b => v = store,
           \/ store' = store /\ (op[q].kind = "get" \/ ~b)
           \/ store' = q /\ op[q].kind = "put"
           \/ store' = None /\ op[q].kind = "del" /\ b
    PROVE  ReadsCurrent'
<1> DEFINE o == [op[q] EXCEPT !.at = "posted", !.value = v, !.ok = b]
<1>1. /\ q \in Nat /\ op[q] \in OpType /\ None \notin Nat
      /\ \A p \in Ops : op[p].before \subseteq 1 .. MaxOps
  BY OpFacts, BoundsAssumption, NoneAssumption DEF OpType
<1>2. /\ o \in OpType /\ o.at = "posted" /\ o.ok = b /\ o.value = v
      /\ o.kind = op[q].kind /\ o.before = op[q].before
  BY <1>1 DEF OpType
<1>3. op' = [op EXCEPT ![q] = o]
  OBVIOUS
<1> HIDE DEF o
<1>4. Ops' = Ops /\ op'[q] = o /\ \A p \in Ops \ {q} : op'[p] = op[p]
  BY <1>2, <1>3, Changed
<1>5. ~op[q].ok /\ \A p \in Ops : q \notin op[p].before
  BY DEF ReadsCurrent, SettledBefore
<1>6. \A p \in Ops : op'[p].before = op[p].before /\ op'[p].kind = op[p].kind
  BY <1>2, <1>4
<1>7. SettledBefore'
  BY <1>2, <1>4, <1>5 DEF ReadsCurrent, SettledBefore
<1>8. /\ Wrote(q)' <=> op[q].kind \in {"put", "del"} /\ b
      /\ \A p \in Ops \ {q} : Wrote(p)' <=> Wrote(p)
  BY <1>2, <1>4 DEF Wrote
<1>9. ASSUME NEW w, NEW p \in Ops \ {q}, Current(w, p)
      PROVE  Current(w, p)'
  <2> SUFFICES ASSUME Wrote(p)
               PROVE  /\ w \notin op[p].before
                      /\ (w = None /\ op[p].kind = "put") =>
                            \E d \in Ops : /\ op'[d].kind = "del" /\ Wrote(d)'
                                           /\ d \notin op[p].before
    BY <1>4, <1>8 DEF Current
  <2>1. w \notin op[p].before
    BY <1>9 DEF Current
  <2>2. ASSUME w = None, op[p].kind = "put"
        PROVE  \E d \in Ops : /\ op'[d].kind = "del" /\ Wrote(d)'
                              /\ d \notin op[p].before
    <3>1. PICK d \in Ops : op[d].kind = "del" /\ Wrote(d) /\ d \notin op[p].before
      BY <1>9, <2>2 DEF Current
    <3>2. d # q
      BY <1>5, <3>1 DEF Wrote
    <3> QED
      BY <1>4, <1>8, <3>1, <3>2
  <2> QED
    BY <2>1, <2>2
<1>10. \A p \in Ops : Current(store, p)'
  <2> SUFFICES ASSUME NEW p \in Ops, Wrote(p)'
               PROVE  /\ store' \notin op[p].before
                      /\ (store' = None /\ op[p].kind = "put") =>
                            \E d \in Ops : /\ op'[d].kind = "del" /\ Wrote(d)'
                                           /\ d \notin op[p].before
    BY <1>4, <1>6 DEF Current
  <2>1. CASE store' = q /\ op[q].kind = "put"
    BY <1>1, <1>5, <2>1
  <2>2. CASE store' = None /\ op[q].kind = "del" /\ b
    <3>1. op'[q].kind = "del" /\ Wrote(q)' /\ q \notin op[p].before
      BY <1>5, <1>6, <1>8, <2>2
    <3> QED
      BY <1>1, <2>2, <3>1
  <2>3. CASE store' = store /\ (op[q].kind = "get" \/ ~b)
    <3>1. p # q
      BY <1>8, <2>3
    <3>2. Current(store, p)
      BY DEF ReadsCurrent
    <3>3. Current(store, p)'
      <4>1. \A w : Current(w, p) => Current(w, p)'
        BY <1>9, <3>1
      <4> QED
        BY <2>3, <3>2, <4>1 DEF Current
    <3> QED
      BY <1>4, <1>6, <3>3 DEF Current
  <2> QED
    BY <2>1, <2>2, <2>3
<1>11. ASSUME NEW g \in Ops, op'[g].kind = "get",
              op'[g].at \in {"posted", "settled"}, op'[g].ok,
              NEW p \in op[g].before
       PROVE  Current(op[g].value, p)'
  <2>1. p \in Ops \ {q}
    BY <1>5 DEF ReadsCurrent, SettledBefore
  <2>2. CASE g = q
    <3>1. op'[g].value = store
      BY <1>2, <1>4, <1>11, <2>2
    <3>2. Current(store, p)
      BY <2>1 DEF ReadsCurrent
    <3>3. \A w : Current(w, p) => Current(w, p)'
      BY <1>9, <2>1
    <3> QED
      BY <3>1, <3>2, <3>3 DEF Current
  <2>3. CASE g # q
    <3>1. op'[g] = op[g]
      BY <1>4, <2>3
    <3>2. Current(op[g].value, p)
      BY <1>11, <3>1 DEF ReadsCurrent
    <3>3. \A w : Current(w, p) => Current(w, p)'
      BY <1>9, <2>1
    <3> QED
      BY <3>1, <3>2, <3>3 DEF Current
  <2> QED
    BY <2>2, <2>3
<1> QED
  BY <1>4, <1>6, <1>7, <1>10, <1>11 DEF ReadsCurrent

\* An operation whose promise is settled, or that ends the process, reads and
\* writes nothing.
LEMMA AtKeepsCurrent ==
    ASSUME TypeOK, ReadsCurrent, NEW q \in Ops, NEW to \in {"settled", "panicked"},
           op' = [op EXCEPT ![q].at = to], store' = store,
           op[q].at = IF to = "settled" THEN "posted" ELSE "called"
    PROVE  ReadsCurrent'
<1> DEFINE o == [op[q] EXCEPT !.at = to]
<1>1. op[q] \in OpType
  BY OpFacts
<1>2. /\ o \in OpType /\ o.at = to /\ o.ok = op[q].ok /\ o.value = op[q].value
      /\ o.kind = op[q].kind /\ o.before = op[q].before
      /\ op' = [op EXCEPT ![q] = o]
  BY <1>1 DEF OpType
<1> HIDE DEF o
<1>3. Ops' = Ops /\ op'[q] = o /\ \A p \in Ops \ {q} : op'[p] = op[p]
  BY <1>2, Changed
<1>4. /\ \A p \in Ops : /\ op'[p].before = op[p].before
                        /\ op'[p].kind = op[p].kind /\ op'[p].ok = op[p].ok
                        /\ op'[p].value = op[p].value
      /\ \A p \in Ops : op[p].at = "settled" => op'[p].at = "settled"
      /\ \A p \in Ops : op[p].ok /\ op'[p].at \in {"posted", "settled"} =>
                            op[p].at \in {"posted", "settled"}
  BY <1>2, <1>3
<1>5. SettledBefore'
  <2>1. to = "panicked" => ~op[q].ok
    BY DEF ReadsCurrent, SettledBefore
  <2> QED
    BY <1>2, <1>3, <1>4, <2>1 DEF ReadsCurrent, SettledBefore
<1>6. \A w, p : p \in Ops /\ Current(w, p) => Current(w, p)'
  <2>1. \A p \in Ops : Wrote(p)' <=> Wrote(p)
    BY <1>4 DEF Wrote
  <2> QED
    BY <1>3, <1>4, <2>1 DEF Current
<1>7. \A p \in Ops : Current(store, p)'
  BY <1>6 DEF ReadsCurrent, Current
<1>8. ASSUME NEW g \in Ops, op'[g].kind = "get",
             op'[g].at \in {"posted", "settled"}, op'[g].ok,
             NEW p \in op[g].before
      PROVE  Current(op[g].value, p)'
  <2>1. p \in Ops
    BY DEF ReadsCurrent, SettledBefore
  <2>2. Current(op[g].value, p)
    BY <1>4, <1>8 DEF ReadsCurrent
  <2>3. op'[g].value = op[g].value
    BY <1>4
  <2> QED
    BY <1>6, <2>1, <2>2, <2>3 DEF Current
<1> QED
  BY <1>3, <1>4, <1>5, <1>7, <1>8 DEF ReadsCurrent

\* A call has done nothing yet, and what it comes after is settled.
LEMMA CallKeepsCurrent ==
    ASSUME TypeOK, ReadsCurrent, Len(op) < MaxOps, NEW o \in OpType,
           op' = Append(op, o), store' = store,
           o.at = "called", ~o.ok,
           o.before = {p \in Ops : op[p].at = "settled"}
    PROVE  ReadsCurrent'
<1> DEFINE n == Len(op) + 1
<1>1. /\ Ops' = Ops \cup {n} /\ n \notin Ops
      /\ op'[n] = o /\ \A q \in Ops : op'[q] = op[q]
  BY Called
<1> HIDE DEF n
<1>2. SettledBefore'
  <2>1. \A q \in Ops :
            /\ op'[q].ok => op'[q].at \in {"posted", "settled"}
            /\ \A p \in op'[q].before : p \in Ops /\ op'[p].at = "settled"
    <3>1. \A q \in Ops :
              /\ op[q].ok => op[q].at \in {"posted", "settled"}
              /\ \A p \in op[q].before : p \in Ops /\ op[p].at = "settled"
      BY DEF ReadsCurrent, SettledBefore
    <3>2. \A q \in Ops : op'[q] = op[q]
      BY <1>1
    <3> QED
      BY <3>1, <3>2
  <2>2. /\ ~op'[n].ok
        /\ \A p \in op'[n].before : p \in Ops /\ op'[p].at = "settled"
    BY <1>1
  <2> QED
    BY <1>1, <2>1, <2>2 DEF SettledBefore
<1>3. \A p \in Ops' : /\ Wrote(p)' => p \in Ops
                      /\ p \in Ops => (Wrote(p)' <=> Wrote(p))
  BY <1>1 DEF Wrote
<1>4. \A w, p : p \in Ops /\ Current(w, p) => Current(w, p)'
  BY <1>1, <1>3 DEF Current
<1>5. \A p \in Ops' : Current(store, p)'
  <2> SUFFICES ASSUME NEW p \in Ops' PROVE Current(store, p)'
    OBVIOUS
  <2>1. CASE p \in Ops
    <3>1. Current(store, p)
      BY <2>1 DEF ReadsCurrent
    <3> QED
      BY <1>4, <2>1, <3>1 DEF Current
  <2>2. CASE p \notin Ops
    BY <1>3, <2>2 DEF Current
  <2> QED
    BY <2>1, <2>2
<1>6. ASSUME NEW g \in Ops', op'[g].kind = "get",
             op'[g].at \in {"posted", "settled"}, op'[g].ok,
             NEW p \in op'[g].before
      PROVE  Current(op[g].value, p)'
  <2>1. g \in Ops /\ op'[g] = op[g]
    BY <1>1, <1>6
  <2>2. p \in Ops
    BY <2>1 DEF ReadsCurrent, SettledBefore
  <2>3. Current(op[g].value, p)
    BY <1>6, <2>1 DEF ReadsCurrent
  <2>4. \A w : Current(w, p) => Current(w, p)'
    BY <1>4, <2>2
  <2> QED
    BY <2>1, <2>3, <2>4 DEF Current
<1> QED
  BY <1>2, <1>5, <1>6 DEF ReadsCurrent

\* A step that leaves the operations and the store alone loses no update.
LEMMA StutterCurrent ==
    ASSUME ReadsCurrent, UNCHANGED <<op, store>>
    PROVE  ReadsCurrent'
<1>1. Ops' = Ops
  BY DEF Ops
<1>2. SettledBefore'
  BY <1>1 DEF ReadsCurrent, SettledBefore
<1>3. \A w, p : Current(w, p)' <=> Current(w, p)
  BY <1>1 DEF Current, Wrote
<1> QED
  BY <1>1, <1>2, <1>3 DEF ReadsCurrent, Current, Wrote

\* No get loses an update: it never finds what a write that was settled before
\* it was called has overwritten, nor misses what can only still be there.
THEOREM NoLostUpdate == Spec => []ReadsCurrent
<1>1. Init => ReadsCurrent
  <2>1. Init => Ops = {}
    BY DEF Init, Ops
  <2> QED
    BY <2>1 DEF ReadsCurrent, SettledBefore
<1>2. BindingsInv /\ ReadsCurrent /\ [Next]_vars => ReadsCurrent'
  <2> SUFFICES ASSUME BindingsInv, ReadsCurrent, [Next]_vars
               PROVE  ReadsCurrent'
    OBVIOUS
  <2>1. TypeOK
    BY DEF BindingsInv
  <2>2. CASE UNCHANGED vars
    BY <2>2, StutterCurrent DEF vars
  <2>3. ASSUME NEW r \in Requests, NEW task \in Tasks,
               NEW kind \in {"get", "put", "del"}, NEW awaited \in BOOLEAN,
               CallOp(r, task, kind, awaited)
        PROVE  ReadsCurrent'
    BY <2>1, <2>3, CallStep, CallKeepsCurrent
  <2>4. ASSUME NEW r \in Requests, Step(r)
        PROVE  ReadsCurrent'
    BY <2>3, <2>4, StutterCurrent
       DEF Step, Begin, WaitUntil, Conclude, Return, Reset, GiveBack, AccessKV
  <2>5. ASSUME NEW q \in Ops, OpStep(q)
        PROVE  ReadsCurrent'
    <3>1. op[q] \in OpType /\ store \in 1 .. MaxOps \cup {None}
      BY <2>1, OpFacts
    <3>2. ASSUME NEW v \in 1 .. MaxOps \cup {None}, NEW b \in BOOLEAN,
                 Done(q, v, b)
          PROVE  /\ op[q].at = "called"
                 /\ op' = [op EXCEPT ![q] = [op[q] EXCEPT !.at = "posted",
                                                          !.value = v, !.ok = b]]
      BY <3>1, <3>2 DEF Done
    <3>3. CASE Get(q)
      <4>1. Done(q, store, TRUE)
        BY <3>3 DEF Get
      <4> QED
        BY <2>1, <3>1, <3>3, <3>2, <4>1, DoneKeepsCurrent DEF Get
    <3>4. CASE Put(q)
      <4>1. Done(q, None, TRUE)
        BY <3>4 DEF Put
      <4> QED
        BY <2>1, <3>1, <3>4, <3>2, <4>1, DoneKeepsCurrent DEF Put
    <3>5. CASE Del(q)
      <4>1. Done(q, store, TRUE)
        BY <3>5 DEF Del
      <4> QED
        BY <2>1, <3>1, <3>5, <3>2, <4>1, DoneKeepsCurrent DEF Del
    <3>6. CASE Fails(q)
      <4>1. Done(q, None, FALSE)
        BY <3>6 DEF Fails
      <4> QED
        BY <2>1, <3>1, <3>6, <3>2, <4>1, DoneKeepsCurrent DEF Fails
    <3>7. CASE Settle(q)
      BY <2>1, <3>7, AtKeepsCurrent DEF Settle
    <3>8. CASE Panic(q)
      BY <2>1, <3>8, AtKeepsCurrent DEF Panic
    <3> QED
      BY <2>5, <3>3, <3>4, <3>5, <3>6, <3>7, <3>8 DEF OpStep
  <2> QED
    BY <2>2, <2>4, <2>5 DEF Next
<1> QED
  BY <1>1, <1>2, Bindings, PTL DEF Spec
=============================================================================
