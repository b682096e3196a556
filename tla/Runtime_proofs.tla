---------------------------- MODULE Runtime_proofs ----------------------------
(***************************************************************************)
(* Theorems about Runtime, for any number of shards, of requests and of    *)
(* LoadScript calls: IInv is inductive, the safety properties follow from  *)
(* it, and requests are spread round-robin.                                *)
(***************************************************************************)
EXTENDS Runtime, FiniteSetTheorems, TLAPS

-----------------------------------------------------------------------------
(* Numbers. *)

\* Shards are numbered from zero, and a counter modulo NumShards is one.
LEMMA ShardNumbers ==
    /\ NumShards \in Nat \ {0} /\ CounterSize \in Nat \ {0}
    /\ \A s : s \in Shards <=> s \in Int /\ 0 <= s /\ s < NumShards
    /\ \A n \in Nat : n % NumShards \in Shards
    /\ \A n \in Nat : n % CounterSize \in 0 .. CounterSize - 1
  BY ShardsAssumption, CounterAssumption DEF Shards

\* A number is known by its quotient and its remainder.
LEMMA Remainder ==
    ASSUME NEW N \in Nat \ {0}, NEW a \in Nat, NEW d \in Int,
           NEW k \in 0 .. N - 1, a = N * d + k
    PROVE  a % N = k
  OBVIOUS

\* The counter plus one, which wraps around at CounterSize, goes to the next
\* shard, if it wraps around with the shards.
LEMMA NextRemainder ==
    ASSUME CounterSize % NumShards = 0, NEW x \in 0 .. CounterSize - 1
    PROVE  LET k == x % NumShards
               m == ((x + 1) % CounterSize) % NumShards
           IN  /\ k \in Shards
               /\ m = IF k = NumShards - 1 THEN 0 ELSE k + 1
<1> DEFINE N == NumShards
           k == x % N
           d == x \div N
           m == CounterSize \div N
<1>1. N \in Nat \ {0} /\ CounterSize \in Nat \ {0}
  BY ShardsAssumption, CounterAssumption
<1>2. /\ k \in 0 .. N - 1 /\ d \in Nat /\ x = N * d + k
      /\ m \in Nat /\ CounterSize = N * m
  BY <1>1
<1> HIDE DEF N, k, d, m
<1>3. CASE k = N - 1
  <2>1. x + 1 = N * (d + 1) + 0
    BY <1>1, <1>2, <1>3
  <2>2. (x + 1) % N = 0
    BY <1>1, <1>2, <2>1, Remainder
  <2> QED
    BY <1>1, <1>2, <1>3, <2>2 DEF Shards, N, k
<1>4. CASE k # N - 1
  <2>1. x + 1 = N * d + (k + 1) /\ k + 1 \in 0 .. N - 1
    BY <1>1, <1>2, <1>4
  <2>2. (x + 1) % N = k + 1
    BY <1>1, <1>2, <2>1, Remainder
  <2> QED
    BY <1>1, <1>2, <1>4, <2>2 DEF Shards, N, k
<1> QED
  BY <1>3, <1>4

-----------------------------------------------------------------------------
(* Requests. *)

\* What running jobs does to an instance: an interrupt is taken notice of, a loop
\* that was told to stop comes nearer to it.
Ending == {"stopping", "leaving", "stopped"}

Runs(j) ==
    /\ inst'[j].loop = inst[j].loop \/ {inst[j].loop, inst'[j].loop} \subseteq Ending
    /\ inst'[j].script = inst[j].script
    /\ inst'[j].interrupted => inst[j].interrupted

\* A step of requests leaves the instances where they are.
LEMMA RequestsKeep ==
    ASSUME IInv, UNCHANGED <<shards, adm>>, TypeOK',
           \A r \in Requests : Routed(r)',
           \A j \in Instances : Runs(j)
    PROVE  IInv'
<1>1. \A p \in Admins : InProgress(p)'
  <2> SUFFICES ASSUME NEW p \in Admins PROVE InProgress(p)'
    OBVIOUS
  <2>1. InProgress(p) /\ adm[p].fresh \in Instances \cup {None}
    BY DEF IInv, TypeOK, AdminType
  <2> QED
    BY <2>1 DEF InProgress, Runs
<1>2. HeldApart' /\ PassedReady'
  BY DEF IInv, HeldApart, PassedReady, Unstopped
<1>3. \A j \in Instances :
          /\ inst'[j].loop = "running" <=> inst[j].loop = "running"
          /\ inst'[j].loop = "none" <=> inst[j].loop = "none"
  BY DEF Runs, Ending
<1>4. HeldRuns'
  BY <1>3 DEF IInv, HeldRuns
<1>5. InterruptedOut'
  BY <1>3 DEF IInv, InterruptedOut, Runs
<1>6. InstalledRuns'
  <2>1. \A s \in Shards : shards[s] \in Instances \cup {None}
    BY DEF IInv, TypeOK
  <2> QED
    BY <1>3, <2>1 DEF IInv, InstalledRuns, Runs
<1> QED
  BY <1>1, <1>2, <1>4, <1>5, <1>6 DEF IInv

\* A step of one request, with what it does to the loop of its instance.
LEMMA OneRequest ==
    ASSUME IInv, NEW r \in Requests, NEW a \in RequestType,
           req' = [req EXCEPT ![r] = a],
           a.shard \in Shards,
           a.at \notin {"new", "routed", "answered"} => a.inst \in Instances,
           UNCHANGED <<shards, adm>>,
           nextShard' \in 0 .. CounterSize - 1,
           hits' \in [Shards -> Nat],
           inst' \in [Instances -> InstanceType],
           \A j \in Instances : Runs(j)
    PROVE  IInv'
<1>1. TypeOK'
  <2>1. req' \in [Requests -> RequestType]
    BY DEF IInv, TypeOK
  <2> QED
    BY <2>1 DEF IInv, TypeOK
<1>2. \A q \in Requests : Routed(q)'
  <2>1. req'[r] = a /\ \A q \in Requests \ {r} : req'[q] = req[q]
    BY DEF IInv, TypeOK
  <2> QED
    BY <2>1 DEF IInv, Routed
<1> QED
  BY <1>1, <1>2, RequestsKeep

\* A step that leaves the instances alone, or has a loop take up a job or end it.
LEMMA JobRuns ==
    ASSUME IInv,
           \/ inst' = inst
           \/ \E j \in Instances : \E c \in InstanceType :
                 /\ inst' = [inst EXCEPT ![j] = c]
                 /\ c.loop = inst[j].loop \/ {inst[j].loop, c.loop} \subseteq Ending
                 /\ c.script = inst[j].script
                 /\ c.interrupted => inst[j].interrupted
    PROVE  inst' \in [Instances -> InstanceType] /\ \A i \in Instances : Runs(i)
<1>1. inst \in [Instances -> InstanceType]
  BY DEF IInv, TypeOK
<1>2. CASE inst' = inst
  BY <1>1, <1>2 DEF Runs
<1>3. ASSUME NEW j \in Instances, NEW c \in InstanceType,
             inst' = [inst EXCEPT ![j] = c],
             c.loop = inst[j].loop \/ {inst[j].loop, c.loop} \subseteq Ending,
             c.script = inst[j].script,
             c.interrupted => inst[j].interrupted
      PROVE  inst' \in [Instances -> InstanceType] /\ \A i \in Instances : Runs(i)
  <2>1. inst'[j] = c /\ \A i \in Instances \ {j} : inst'[i] = inst[i]
    BY <1>1, <1>3
  <2> QED
    BY <1>1, <1>3, <2>1 DEF Runs
<1> QED
  BY <1>2, <1>3

\* What the invariant says of a request.
LEMMA RequestFacts ==
    ASSUME IInv, NEW r \in Requests
    PROVE  /\ req[r] \in RequestType
           /\ req[r].at # "new" => req[r].shard \in Shards
           /\ req[r].at \notin {"new", "routed", "answered"} =>
                 /\ req[r].inst \in Instances
                 /\ inst[req[r].inst] \in InstanceType
  BY DEF IInv, TypeOK, Routed

\* A new request takes the next shard.
LEMMA RouteStep ==
    ASSUME IInv, NEW r \in Requests, Route(r)
    PROVE  IInv'
<1> DEFINE n == (nextShard + 1) % CounterSize
           s == n % NumShards
           a == [req[r] EXCEPT !.at = "routed", !.shard = s]
<1>1. n \in 0 .. CounterSize - 1 /\ s \in Shards
  <2>1. nextShard + 1 \in Nat
    BY ShardNumbers DEF IInv, TypeOK
  <2>2. n \in 0 .. CounterSize - 1
    BY <2>1, ShardNumbers
  <2>3. n \in Nat
    BY <2>2, ShardNumbers
  <2> HIDE DEF n
  <2> QED
    BY <2>2, <2>3, ShardNumbers
<1>2. /\ nextShard' = n /\ hits' = [hits EXCEPT ![s] = @ + 1]
      /\ UNCHANGED <<shards, inst, adm>>
      /\ req' = [req EXCEPT ![r].at = "routed", ![r].shard = s]
  BY DEF Route, RouteTo
<1> HIDE DEF n, s
<1>3. /\ a \in RequestType /\ a.shard = s /\ a.at = "routed"
      /\ req' = [req EXCEPT ![r] = a]
  BY <1>1, <1>2, RequestFacts DEF RequestType, IInv, TypeOK
<1>4. hits' \in [Shards -> Nat]
  BY <1>1, <1>2 DEF IInv, TypeOK
<1>5. inst' \in [Instances -> InstanceType] /\ \A i \in Instances : Runs(i)
  BY <1>2, JobRuns
<1> HIDE DEF a
<1> QED
  BY <1>1, <1>2, <1>3, <1>4, <1>5, OneRequest

\* A request that only moves on, or takes what its shard points to.
LEMMA MoveOn ==
    ASSUME IInv, NEW r \in Requests, req[r].at # "new",
           NEW a \in RequestType, req' = [req EXCEPT ![r] = a],
           a.shard = req[r].shard,
           a.at \notin {"new", "routed", "answered"} => a.inst \in Instances,
           UNCHANGED <<shards, counters, adm>>,
           inst' \in [Instances -> InstanceType],
           \A j \in Instances : Runs(j)
    PROVE  IInv'
<1>1. req[r].shard \in Shards
  BY RequestFacts
<1>2. nextShard' \in 0 .. CounterSize - 1 /\ hits' \in [Shards -> Nat]
  BY DEF counters, IInv, TypeOK
<1> QED
  BY <1>1, <1>2, OneRequest

\* The steps of a request that run no job.
LEMMA HttpMoves ==
    ASSUME IInv, NEW r \in Requests,
           LoadInstance(r) \/ Dispatch(r) \/ NextServed(r)
    PROVE  IInv'
<1> DEFINE Moves(i, to) ==
               req' = [req EXCEPT ![r] = [req[r] EXCEPT !.inst = i, !.at = to]]
<1>1. /\ req[r] \in RequestType /\ req \in [Requests -> RequestType]
      /\ req[r].inst \in Instances \cup {None}
      /\ req[r].at \notin {"new", "routed", "answered"} =>
            req[r].inst \in Instances
  BY RequestFacts DEF IInv, TypeOK, RequestType
<1>2. /\ req[r].at # "new"
      /\ UNCHANGED <<shards, counters, inst, adm>>
      /\ \E i \in Instances \cup {None},
            to \in {"loaded", "queued", "running", "answered"} :
             Moves(i, to) /\ (to # "answered" => i \in Instances)
  <2>1. CASE LoadInstance(r)
    <3>1. /\ req[r].at = "routed" /\ UNCHANGED <<shards, counters, inst, adm>>
          /\ shards[req[r].shard] \in Instances \cup {None}
      BY <2>1, RequestFacts DEF LoadInstance, IInv, TypeOK
    <3>2. PICK i \in Instances \cup {None}, to \in {"answered", "loaded"} :
              /\ to # "answered" => i \in Instances
              /\ req' = [req EXCEPT ![r].inst = i, ![r].at = to]
      BY <2>1, <3>1 DEF LoadInstance
    <3>3. Moves(i, to)
      BY <1>1, <3>2
    <3> QED
      BY <3>1, <3>2, <3>3
  <2>2. CASE Dispatch(r)
    <3>1. PICK to \in {"answered", "queued"} : req' = [req EXCEPT ![r].at = to]
      BY <2>2 DEF Dispatch
    <3>2. Moves(req[r].inst, to)
      BY <1>1, <3>1 DEF RequestType
    <3> QED
      BY <1>1, <2>2, <3>2 DEF Dispatch
  <2>3. CASE NextServed(r)
    <3>1. PICK to \in {"answered", "running"} : req' = [req EXCEPT ![r].at = to]
      BY <2>3 DEF NextServed
    <3>2. Moves(req[r].inst, to)
      BY <1>1, <3>1 DEF RequestType
    <3> QED
      BY <1>1, <2>3, <3>2 DEF NextServed
  <2> QED
    BY <2>1, <2>2, <2>3
<1>3. PICK i \in Instances \cup {None},
           to \in {"loaded", "queued", "running", "answered"} :
          Moves(i, to) /\ (to # "answered" => i \in Instances)
  BY <1>2
<1> DEFINE a == [req[r] EXCEPT !.inst = i, !.at = to]
<1>4. /\ a \in RequestType /\ req' = [req EXCEPT ![r] = a]
      /\ a.shard = req[r].shard /\ a.at = to /\ a.inst = i
  BY <1>1, <1>3 DEF RequestType
<1>5. inst' \in [Instances -> InstanceType] /\ \A j \in Instances : Runs(j)
  BY <1>2, JobRuns
<1> HIDE DEF a
<1> QED
  BY <1>2, <1>3, <1>4, <1>5, MoveOn

\* The steps of a request on the loop of its instance.
LEMMA JobMoves ==
    ASSUME IInv, NEW r \in Requests, RunJob(r) \/ JobStep(r)
    PROVE  IInv'
<1> DEFINE j == req[r].inst
<1>1. /\ req[r] \in RequestType /\ req \in [Requests -> RequestType]
      /\ inst \in [Instances -> InstanceType]
      /\ req[r].at \in {"queued", "awaiting", "running"}
      /\ j \in Instances /\ inst[j] \in InstanceType
  <2>1. req[r].at \in {"queued", "awaiting", "running"}
    BY DEF RunJob, JobStep, EndJob, Abort, InvokeNext, InJob
  <2> QED
    BY <2>1, RequestFacts DEF IInv, TypeOK
<1> HIDE DEF j
<1>2. UNCHANGED <<shards, counters, adm>>
  BY DEF RunJob, JobStep, EndJob, Abort, InvokeNext
<1>3. \E a \in RequestType :
          /\ req' = [req EXCEPT ![r] = a]
          /\ a.shard = req[r].shard /\ a.inst = j
  <2>1. CASE RunJob(r)
    <3> DEFINE a == [req[r] EXCEPT !.resumed = (req[r].at = "awaiting"),
                                   !.at = "running"]
    <3>1. a \in RequestType /\ a.shard = req[r].shard /\ a.inst = j
      BY <1>1 DEF RequestType, j
    <3>2. req' = [req EXCEPT ![r] = a]
      BY <1>1, <2>1 DEF RunJob, RequestType
    <3> QED
      BY <3>1, <3>2
  <2>2. ASSUME NEW to \in {"answered", "awaiting", "lost"},
               req' = [req EXCEPT ![r].at = to]
        PROVE  \E a \in RequestType :
                   /\ req' = [req EXCEPT ![r] = a]
                   /\ a.shard = req[r].shard /\ a.inst = j
    <3> DEFINE a == [req[r] EXCEPT !.at = to]
    <3>1. a \in RequestType /\ a.shard = req[r].shard /\ a.inst = j
      BY <1>1 DEF RequestType, j
    <3>2. req' = [req EXCEPT ![r] = a]
      BY <1>1, <2>2 DEF RequestType
    <3> QED
      BY <3>1, <3>2
  <2>3. CASE EndJob(r)
    BY <2>2, <2>3 DEF EndJob
  <2>4. CASE Abort(r)
    BY <2>2, <2>4 DEF Abort
  <2>5. ASSUME NEW q \in Chained, InvokeNext(r, q)
        PROVE  \E a \in RequestType :
                   /\ req' = [req EXCEPT ![r] = a]
                   /\ a.shard = req[r].shard /\ a.inst = j
    <3> DEFINE a == [req[r] EXCEPT !.at = "serving", !.next = q]
    <3>1. a \in RequestType /\ a.shard = req[r].shard /\ a.inst = j
      BY <1>1 DEF RequestType, j
    <3>2. req' = [req EXCEPT ![r] = a]
      BY <1>1, <2>5 DEF InvokeNext, RequestType
    <3> QED
      BY <3>1, <3>2
  <2> QED
    BY <2>1, <2>3, <2>4, <2>5 DEF JobStep
<1>4. \E c \in InstanceType :
          /\ inst' = [inst EXCEPT ![j] = c]
          /\ c.loop = inst[j].loop /\ c.script = inst[j].script
          /\ c.interrupted => inst[j].interrupted
  <2>1. ASSUME NEW x \in Requests \cup {None}, NEW b \in SUBSET Requests,
               NEW i \in BOOLEAN, i => inst[j].interrupted,
               inst' = [inst EXCEPT ![j] = [inst[j] EXCEPT !.running = x,
                                               !.batch = b, !.interrupted = i]]
        PROVE  \E c \in InstanceType :
                   /\ inst' = [inst EXCEPT ![j] = c]
                   /\ c.loop = inst[j].loop /\ c.script = inst[j].script
                   /\ c.interrupted => inst[j].interrupted
    <3> DEFINE c == [inst[j] EXCEPT !.running = x, !.batch = b,
                                    !.interrupted = i]
    <3>1. /\ c \in InstanceType /\ c.loop = inst[j].loop
          /\ c.script = inst[j].script /\ c.interrupted = i
      BY <1>1 DEF InstanceType
    <3> QED
      BY <2>1, <3>1
  <2>2. inst[j].batch \in SUBSET Requests /\ inst[j].interrupted \in BOOLEAN
    BY <1>1 DEF InstanceType
  <2>3. CASE RunJob(r)
    <3>1. inst' = [inst EXCEPT ![j] = [inst[j] EXCEPT !.running = r,
                      !.batch = inst[j].batch \ {r},
                      !.interrupted = inst[j].interrupted]]
      BY <1>1, <2>3 DEF RunJob, InstanceType, j
    <3> QED
      BY <2>1, <2>2, <3>1
  <2>4. ASSUME NEW x \in Requests \cup {None},
               inst' = [inst EXCEPT ![j].running = x]
        PROVE  \E c \in InstanceType :
                   /\ inst' = [inst EXCEPT ![j] = c]
                   /\ c.loop = inst[j].loop /\ c.script = inst[j].script
                   /\ c.interrupted => inst[j].interrupted
    <3>1. inst' = [inst EXCEPT ![j] = [inst[j] EXCEPT !.running = x,
                      !.batch = inst[j].batch,
                      !.interrupted = inst[j].interrupted]]
      BY <1>1, <2>4 DEF InstanceType
    <3> QED
      BY <2>1, <2>2, <3>1
  <2>5. CASE EndJob(r)
    BY <2>4, <2>5 DEF EndJob, j
  <2>6. CASE Abort(r)
    <3>1. inst' = [inst EXCEPT ![j] = [inst[j] EXCEPT !.running = None,
                      !.batch = inst[j].batch, !.interrupted = FALSE]]
      BY <1>1, <2>6 DEF Abort, InstanceType, j
    <3> QED
      BY <2>1, <2>2, <3>1
  <2>7. ASSUME NEW q \in Chained, InvokeNext(r, q)
        PROVE  \E c \in InstanceType :
                   /\ inst' = [inst EXCEPT ![j] = c]
                   /\ c.loop = inst[j].loop /\ c.script = inst[j].script
                   /\ c.interrupted => inst[j].interrupted
    <3> DEFINE x == IF inst[j].handler = "express" THEN r ELSE None
    <3>1. x \in Requests \cup {None} /\ inst' = [inst EXCEPT ![j].running = x]
      BY <2>7 DEF InvokeNext, j
    <3> HIDE DEF x
    <3> QED
      BY <2>4, <3>1
  <2> QED
    BY <2>3, <2>5, <2>6, <2>7 DEF JobStep
<1>5. inst' \in [Instances -> InstanceType] /\ \A i \in Instances : Runs(i)
  BY <1>1, <1>4, JobRuns
<1>6. req[r].at # "new"
  BY <1>1
<1> QED
  BY <1>1, <1>2, <1>3, <1>5, <1>6, MoveOn

\* The steps of a loop: only one that was told to stop comes nearer to it.
LEMMA LoopStepKeeps ==
    ASSUME IInv, NEW j \in Instances, LoopStep(j)
    PROVE  IInv'
<1>1. inst \in [Instances -> InstanceType] /\ inst[j] \in InstanceType
  BY DEF IInv, TypeOK
<1>2. UNCHANGED <<shards, counters, req, adm>>
  BY DEF LoopStep, TakeJobs, LoopExits
<1>3. \E c \in InstanceType :
          /\ inst' = [inst EXCEPT ![j] = c]
          /\ c.loop = inst[j].loop \/ {inst[j].loop, c.loop} \subseteq Ending
          /\ c.script = inst[j].script
          /\ c.interrupted => inst[j].interrupted
  <2>1. CASE TakeJobs(j)
    <3>1. PICK jobs \in SUBSET Requests :
              inst' = [inst EXCEPT ![j].batch = jobs, ![j].loop =
                          IF @ = "stopping" THEN "leaving" ELSE @]
      BY <2>1 DEF TakeJobs
    <3> DEFINE to == IF inst[j].loop = "stopping" THEN "leaving" ELSE inst[j].loop
               c == [inst[j] EXCEPT !.batch = jobs, !.loop = to]
    <3>2. inst' = [inst EXCEPT ![j] = c]
      BY <1>1, <3>1 DEF InstanceType
    <3>3. /\ c \in InstanceType /\ c.script = inst[j].script
          /\ c.interrupted = inst[j].interrupted /\ c.loop = to
      BY <1>1 DEF InstanceType
    <3>4. to = inst[j].loop \/ {inst[j].loop, to} \subseteq Ending
      BY DEF Ending
    <3> HIDE DEF c, to
    <3> QED
      BY <3>2, <3>3, <3>4
  <2>2. CASE LoopExits(j)
    <3> DEFINE c == [inst[j] EXCEPT !.loop = "stopped"]
    <3>1. /\ c \in InstanceType /\ c.script = inst[j].script
          /\ c.interrupted = inst[j].interrupted /\ c.loop = "stopped"
      BY <1>1 DEF InstanceType
    <3>2. inst' = [inst EXCEPT ![j] = c] /\ {inst[j].loop, "stopped"} \subseteq Ending
      BY <1>1, <2>2 DEF LoopExits, Ending, InstanceType
    <3> HIDE DEF c
    <3> QED
      BY <3>1, <3>2
  <2> QED
    BY <2>1, <2>2 DEF LoopStep
<1>4. inst' \in [Instances -> InstanceType] /\ \A i \in Instances : Runs(i)
  BY <1>3, JobRuns
<1>5. TypeOK' /\ \A r \in Requests : Routed(r)'
  BY <1>2, <1>4 DEF IInv, TypeOK, Routed, counters
<1> QED
  BY <1>2, <1>4, <1>5, RequestsKeep

-----------------------------------------------------------------------------
(* LoadScript and Stop. *)

\* What the invariant says of a call of LoadScript or Stop.
LEMMA AdminFacts ==
    ASSUME IInv, NEW p \in Admins
    PROVE  /\ adm[p] \in AdminType /\ InProgress(p)
           /\ adm[p].pc # "done" => adm[p].idx \in Shards
           /\ adm[p].idx \in 0 .. NumShards
  BY ShardNumbers DEF IInv, TypeOK, AdminType, InProgress

\* A step of call p that leaves the instances alone and holds the same ones.
LEMMA AdminKeeps ==
    ASSUME IInv, NEW p \in Admins, NEW a \in AdminType,
           adm' = [adm EXCEPT ![p] = a],
           UNCHANGED <<shards, counters, inst, req>>,
           a.fresh = adm[p].fresh, a.old = adm[p].old, a.idx = adm[p].idx,
           adm[p].pc \notin {"stop", "halt", "done"},
           a.pc \notin {"idle", "stop", "halt", "done"},
           a.pc \in {"load", "swap"} => a.fresh # None,
           a.pc = "swap" => inst[a.fresh].script # None,
           a.fresh # None => a.pc \in {"load", "swap", "error"}
    PROVE  IInv'
<1>1. adm'[p] = a /\ \A q \in Admins \ {p} : adm'[q] = adm[q]
  BY DEF IInv, TypeOK
<1>2. TypeOK'
  BY DEF IInv, TypeOK, counters
<1>3. \A q \in Admins : /\ adm'[q].fresh = adm[q].fresh
                        /\ adm'[q].old = adm[q].old
                        /\ adm'[q].idx = adm[q].idx
  BY <1>1
<1>4. \A q \in Admins : InProgress(q)'
  BY <1>1 DEF IInv, InProgress
<1>5. HeldApart'
  BY <1>3 DEF IInv, HeldApart
<1>6. HeldRuns' /\ InterruptedOut' /\ InstalledRuns'
  BY <1>3 DEF IInv, HeldRuns, InterruptedOut, InstalledRuns
<1>7. PassedReady'
  BY <1>1 DEF IInv, PassedReady, Unstopped
<1>8. \A r \in Requests : Routed(r)'
  BY DEF IInv, Routed
<1> QED
  BY <1>2, <1>4, <1>5, <1>6, <1>7, <1>8 DEF IInv

\* Compiling, and what fails without touching an instance.
LEMMA GoesStep ==
    ASSUME IInv, NEW l \in Loaders,
           Compile(l) \/ CompileFails(l) \/ LoadProgramFails(l)
    PROVE  IInv'
<1>1. l \in Admins /\ adm[l] \in AdminType /\ InProgress(l)
  BY AdminFacts DEF Admins
<1>2. PICK to \in {"build", "error"} :
          /\ adm' = [adm EXCEPT ![l].pc = to]
          /\ UNCHANGED <<shards, counters, inst, req>>
          /\ adm[l].pc \in {"idle", "load"}
          /\ adm[l].pc = "load" => to = "error"
  BY DEF Compile, CompileFails, LoadProgramFails, Goes
<1> DEFINE a == [adm[l] EXCEPT !.pc = to]
<1>3. /\ a \in AdminType /\ adm' = [adm EXCEPT ![l] = a] /\ a.pc = to
      /\ a.fresh = adm[l].fresh /\ a.old = adm[l].old /\ a.idx = adm[l].idx
  BY <1>1, <1>2 DEF AdminType, IInv, TypeOK
<1> HIDE DEF a
<1>4. a.fresh # None => a.pc = "error"
  BY <1>1, <1>2, <1>3 DEF InProgress
<1> QED
  BY <1>1, <1>2, <1>3, <1>4, AdminKeeps

\* An instance that is not built yet is held nowhere.
LEMMA NewIsFree ==
    ASSUME IInv, Unbuilt # {}
    PROVE  /\ NewInstance \in Instances /\ NewInstance # None
           /\ inst[NewInstance] \in InstanceType
           /\ inst[NewInstance].loop = "none"
           /\ ~inst[NewInstance].interrupted
           /\ \A s \in Shards : shards[s] # NewInstance
           /\ \A p \in Admins : NewInstance \notin {adm[p].fresh, adm[p].old}
<1>1. NewInstance \in Unbuilt
  BY DEF NewInstance
<1>2. /\ NewInstance \in Instances /\ inst[NewInstance] \in InstanceType
      /\ inst[NewInstance].loop = "none"
  BY <1>1 DEF Unbuilt, IInv, TypeOK
<1> HIDE DEF NewInstance
<1> QED
  BY <1>2, NoneAssumption DEF IInv, HeldRuns, InterruptedOut

\* A new instance is held by the LoadScript call that has built it.
LEMMA GetInstanceStep ==
    ASSUME IInv, NEW l \in Loaders, GetInstance(l)
    PROVE  IInv'
<1> DEFINE j == NewInstance
           a == [adm[l] EXCEPT !.fresh = j, !.pc = "load"]
<1>1. l \in Admins /\ adm[l] \in AdminType /\ InProgress(l)
  BY AdminFacts DEF Admins
<1>2. /\ j \in Instances /\ j # None /\ inst[j] \in InstanceType
      /\ inst[j].loop = "none" /\ ~inst[j].interrupted
      /\ \A s \in Shards : shards[s] # j
      /\ \A p \in Admins : j \notin {adm[p].fresh, adm[p].old}
  BY NewIsFree DEF GetInstance, Build
<1>3. /\ adm[l].pc = "build"
      /\ inst' = [inst EXCEPT ![j].loop = "running"]
      /\ adm' = [adm EXCEPT ![l].fresh = j, ![l].pc = "load"]
      /\ UNCHANGED <<counters, req, shards>>
  BY DEF GetInstance, Build
<1> HIDE DEF j
<1>4. /\ adm' = [adm EXCEPT ![l] = a] /\ a \in AdminType
      /\ a.fresh = j /\ a.pc = "load" /\ a.old = adm[l].old
      /\ a.idx = adm[l].idx
  BY <1>1, <1>2, <1>3 DEF AdminType, IInv, TypeOK
<1> HIDE DEF a
<1>5. adm'[l] = a /\ \A p \in Admins \ {l} : adm'[p] = adm[p]
  BY <1>1, <1>4 DEF IInv, TypeOK
<1>6. /\ inst' \in [Instances -> InstanceType]
      /\ \A i \in Instances \ {j} : inst'[i] = inst[i]
      /\ inst'[j].loop = "running" /\ ~inst'[j].interrupted
  BY <1>2, <1>3 DEF IInv, TypeOK, InstanceType
<1>7. TypeOK'
  <2>1. adm' \in [Admins -> AdminType]
    BY <1>4 DEF IInv, TypeOK
  <2> QED
    BY <1>3, <1>6, <2>1 DEF IInv, TypeOK, counters
<1>8. \A r \in Requests : Routed(r)'
  BY <1>3 DEF IInv, Routed
<1>9. \A p \in Admins : InProgress(p)'
  <2> SUFFICES ASSUME NEW p \in Admins PROVE InProgress(p)'
    OBVIOUS
  <2>1. CASE p = l
    BY <1>1, <1>2, <1>3, <1>4, <1>5, <2>1 DEF InProgress
  <2>2. CASE p # l
    <3>1. InProgress(p) /\ adm[p].fresh \in Instances \cup {None}
      BY AdminFacts DEF AdminType
    <3> QED
      BY <1>2, <1>5, <1>6, <2>2, <3>1 DEF InProgress
  <2> QED
    BY <2>1, <2>2
<1>10. adm[l].fresh = None /\ adm[l].old = None
  BY <1>1, <1>3 DEF InProgress
<1>11. HeldApart'
  <2>1. \A p \in Admins :
            /\ adm'[p].old = adm[p].old
            /\ adm'[p].fresh = IF p = l THEN j ELSE adm[p].fresh
    BY <1>4, <1>5
  <2>2. \A s \in Shards :
            shards[s] # None =>
                /\ \A t \in Shards \ {s} : shards[t] # shards[s]
                /\ \A p \in Admins : shards[s] \notin {adm'[p].fresh, adm'[p].old}
    BY <1>2, <2>1 DEF IInv, HeldApart
  <2>3. \A p, q \in Admins :
            /\ adm'[p].fresh # None => adm'[p].fresh # adm'[q].old
            /\ adm'[p].fresh # None /\ p # q => adm'[p].fresh # adm'[q].fresh
            /\ adm'[p].old # None /\ p # q => adm'[p].old # adm'[q].old
    BY <1>2, <2>1 DEF IInv, HeldApart
  <2> QED
    BY <1>3, <2>2, <2>3 DEF HeldApart
<1>12. HeldRuns'
  <2> SUFFICES ASSUME NEW i \in Instances
               PROVE  inst'[i].loop = "running" <=>
                          \/ \E s \in Shards : shards[s] = i
                          \/ \E p \in Admins : i \in {adm'[p].fresh, adm'[p].old}
    BY <1>3 DEF HeldRuns
  <2>1. CASE i = j
    BY <1>1, <1>4, <1>5, <1>6, <2>1
  <2>2. CASE i # j
    <3>1. inst[i].loop = "running" <=>
              \/ \E s \in Shards : shards[s] = i
              \/ \E p \in Admins : i \in {adm[p].fresh, adm[p].old}
      BY DEF IInv, HeldRuns
    <3>2. i # None /\ inst'[i] = inst[i]
      BY <1>6, <2>2, NoneAssumption
    <3>3. \A p \in Admins : i \in {adm'[p].fresh, adm'[p].old} <=>
                              i \in {adm[p].fresh, adm[p].old}
      BY <1>4, <1>5, <1>10, <2>2, <3>2
    <3> QED
      BY <3>1, <3>2, <3>3
  <2> QED
    BY <2>1, <2>2
<1>13. InstalledRuns'
  <2>1. \A s \in Shards :
            shards[s] \in Instances \cup {None} /\ shards[s] # j
    BY <1>2 DEF IInv, TypeOK
  <2>2. \A s \in Shards : shards[s] # None => inst'[shards[s]] = inst[shards[s]]
    BY <1>6, <2>1
  <2> QED
    BY <1>3, <2>2 DEF IInv, InstalledRuns
<1>14. PassedReady'
  <2>1. Unstopped' => Unstopped
    BY <1>5 DEF Unstopped
  <2>2. \A k \in Loaders : /\ adm'[k].idx = adm[k].idx
                           /\ adm'[k].pc \in {"stop", "halt"} =>
                                 adm[k].pc \in {"stop", "halt"}
    BY <1>4, <1>5 DEF Admins
  <2> QED
    BY <1>3, <2>1, <2>2 DEF IInv, PassedReady
<1>15. InterruptedOut'
  <2> SUFFICES ASSUME NEW i \in Instances, inst'[i].interrupted
               PROVE  /\ inst'[i].loop # "none"
                      /\ \A s \in Shards : shards[s] # i
                      /\ \A p \in Admins : adm'[p].fresh # i
    BY <1>3 DEF InterruptedOut
  <2>1. i # j /\ inst'[i] = inst[i]
    BY <1>6
  <2>2. /\ inst[i].loop # "none"
        /\ \A s \in Shards : shards[s] # i
        /\ \A p \in Admins : adm[p].fresh # i
    BY <2>1 DEF IInv, InterruptedOut
  <2>3. \A p \in Admins : adm'[p].fresh # i
    BY <1>4, <1>5, <2>1, <2>2
  <2> QED
    BY <2>1, <2>2, <2>3
<1> QED
  BY <1>7, <1>8, <1>9, <1>11, <1>12, <1>13, <1>14, <1>15 DEF IInv

\* A failed build leaves an instance that stops and that nobody holds.
LEMMA GetInstanceFailsStep ==
    ASSUME IInv, NEW l \in Loaders, GetInstanceFails(l)
    PROVE  IInv'
<1> DEFINE j == NewInstance
           a == [adm[l] EXCEPT !.pc = "error"]
<1>1. l \in Admins /\ adm[l] \in AdminType /\ InProgress(l)
  BY AdminFacts DEF Admins
<1>2. /\ j \in Instances /\ j # None /\ inst[j] \in InstanceType
      /\ inst[j].loop = "none" /\ ~inst[j].interrupted
      /\ \A s \in Shards : shards[s] # j
      /\ \A p \in Admins : j \notin {adm[p].fresh, adm[p].old}
  BY NewIsFree DEF GetInstanceFails, BuildFails
<1>3. /\ adm[l].pc = "build"
      /\ inst' = [inst EXCEPT ![j].loop = "stopping"]
      /\ adm' = [adm EXCEPT ![l].pc = "error"]
      /\ UNCHANGED <<counters, req, shards>>
  BY DEF GetInstanceFails, BuildFails
<1> HIDE DEF j
<1>4. /\ adm' = [adm EXCEPT ![l] = a] /\ a \in AdminType
      /\ a.pc = "error" /\ a.old = adm[l].old /\ a.fresh = adm[l].fresh
      /\ a.idx = adm[l].idx
  BY <1>1, <1>3 DEF AdminType, IInv, TypeOK
<1> HIDE DEF a
<1>5. adm'[l] = a /\ \A p \in Admins \ {l} : adm'[p] = adm[p]
  BY <1>1, <1>4 DEF IInv, TypeOK
<1>6. /\ inst' \in [Instances -> InstanceType]
      /\ \A i \in Instances \ {j} : inst'[i] = inst[i]
      /\ inst'[j].loop = "stopping" /\ ~inst'[j].interrupted
  BY <1>2, <1>3 DEF IInv, TypeOK, InstanceType
<1>7. TypeOK'
  BY <1>3, <1>4, <1>6 DEF IInv, TypeOK, counters
<1>8. \A r \in Requests : Routed(r)'
  BY <1>3 DEF IInv, Routed
<1>9. \A p \in Admins : InProgress(p)'
  <2> SUFFICES ASSUME NEW p \in Admins PROVE InProgress(p)'
    OBVIOUS
  <2>1. CASE p = l
    BY <1>1, <1>3, <1>4, <1>5, <2>1 DEF InProgress
  <2>2. CASE p # l
    <3>1. InProgress(p) /\ adm[p].fresh \in Instances \cup {None}
      BY AdminFacts DEF AdminType
    <3> QED
      BY <1>2, <1>5, <1>6, <2>2, <3>1 DEF InProgress
  <2> QED
    BY <2>1, <2>2
<1>10. \A p \in Admins : adm'[p].fresh = adm[p].fresh /\ adm'[p].old = adm[p].old
  BY <1>4, <1>5
<1>11. HeldApart'
  BY <1>3, <1>10 DEF IInv, HeldApart
<1>12. HeldRuns' /\ InterruptedOut'
  BY <1>2, <1>3, <1>6, <1>10 DEF IInv, HeldRuns, InterruptedOut
<1>13. InstalledRuns'
  BY <1>2, <1>3, <1>6 DEF IInv, TypeOK, InstalledRuns
<1>14. PassedReady'
  BY <1>3, <1>4, <1>5 DEF IInv, PassedReady, Unstopped
<1> QED
  BY <1>7, <1>8, <1>9, <1>11, <1>12, <1>13, <1>14 DEF IInv

\* The program runs on the instance that is held to be swapped in.
LEMMA LoadProgramStep ==
    ASSUME IInv, NEW l \in Loaders, LoadProgram(l)
    PROVE  IInv'
<1> DEFINE j == adm[l].fresh
           a == [adm[l] EXCEPT !.pc = "swap"]
<1>1. l \in Admins /\ adm[l] \in AdminType /\ InProgress(l) /\ l # None
  BY AdminFacts, NoneAssumption DEF Admins
<1>2. PICK h \in {"unset", "express", "event"} :
          /\ adm[l].pc = "load"
          /\ inst' = [inst EXCEPT ![j].script = l, ![j].handler = h]
          /\ adm' = [adm EXCEPT ![l].pc = "swap"]
          /\ UNCHANGED <<shards, counters, req>>
  BY DEF LoadProgram
<1>3. j \in Instances /\ j # None /\ inst[j] \in InstanceType
  BY <1>1, <1>2 DEF InProgress, AdminType, IInv, TypeOK
<1>4. /\ adm' = [adm EXCEPT ![l] = a] /\ a \in AdminType
      /\ a.pc = "swap" /\ a.old = adm[l].old /\ a.fresh = j
      /\ a.idx = adm[l].idx
  BY <1>1, <1>2 DEF AdminType, IInv, TypeOK
<1> HIDE DEF a
<1>5. adm'[l] = a /\ \A p \in Admins \ {l} : adm'[p] = adm[p]
  BY <1>1, <1>4 DEF IInv, TypeOK
<1>6. /\ inst' \in [Instances -> InstanceType]
      /\ \A i \in Instances \ {j} : inst'[i] = inst[i]
      /\ inst'[j].loop = inst[j].loop /\ inst'[j].script = l
      /\ inst'[j].interrupted = inst[j].interrupted
  BY <1>2, <1>3 DEF IInv, TypeOK, InstanceType
<1>7. TypeOK'
  BY <1>2, <1>4, <1>6 DEF IInv, TypeOK, counters
<1>8. \A r \in Requests : Routed(r)'
  BY <1>2 DEF IInv, Routed
<1>9. \A p \in Admins : InProgress(p)'
  <2> SUFFICES ASSUME NEW p \in Admins PROVE InProgress(p)'
    OBVIOUS
  <2>1. CASE p = l
    BY <1>1, <1>2, <1>3, <1>4, <1>5, <1>6, <2>1 DEF InProgress
  <2>2. CASE p # l
    <3>1. InProgress(p) /\ adm[p].fresh \in Instances \cup {None}
      BY AdminFacts DEF AdminType
    <3> QED
      BY <1>1, <1>5, <1>6, <2>2, <3>1 DEF InProgress
  <2> QED
    BY <2>1, <2>2
<1>10. \A p \in Admins : adm'[p].fresh = adm[p].fresh /\ adm'[p].old = adm[p].old
  BY <1>4, <1>5
<1>11. HeldApart'
  BY <1>2, <1>10 DEF IInv, HeldApart
<1>12. HeldRuns' /\ InterruptedOut'
  BY <1>2, <1>6, <1>10 DEF IInv, HeldRuns, InterruptedOut
<1>13. InstalledRuns'
  BY <1>1, <1>2, <1>6 DEF IInv, TypeOK, InstalledRuns
<1>14. PassedReady'
  BY <1>2, <1>4, <1>5 DEF IInv, PassedReady, Unstopped
<1> QED
  BY <1>7, <1>8, <1>9, <1>11, <1>12, <1>13, <1>14 DEF IInv

\* What a shard pointed to is held by the call that has swapped it out, and the
\* shard holds what the call has built, if anything.
LEMMA SwapInStep ==
    ASSUME IInv, NEW p \in Admins, NEW from \in {"idle", "swap"}, NEW new,
           SwapIn(p, from, new), new = adm[p].fresh,
           from = "idle" => p \notin Loaders
    PROVE  IInv'
<1> DEFINE s == adm[p].idx
           a == [adm[p] EXCEPT !.fresh = None, !.old = shards[s], !.pc = "stop"]
<1>1. /\ adm[p] \in AdminType /\ InProgress(p) /\ adm[p].pc = from
      /\ s \in Shards /\ shards[s] \in Instances \cup {None}
      /\ new \in Instances \cup {None}
      /\ adm[p].old = None
      /\ from = "swap" => new # None /\ inst[new].script # None
      /\ from = "idle" => new = None
  <2>1. adm[p] \in AdminType /\ InProgress(p) /\ adm[p].pc = from /\ s \in Shards
    BY AdminFacts DEF SwapIn
  <2> QED
    BY <2>1 DEF InProgress, AdminType, IInv, TypeOK
<1>2. /\ shards' = [shards EXCEPT ![s] = new]
      /\ adm' = [adm EXCEPT ![p] = a]
      /\ UNCHANGED <<counters, inst, req>>
  BY <1>1 DEF SwapIn, AdminType, IInv, TypeOK
<1>3. /\ a \in AdminType /\ a.fresh = None /\ a.old = shards[s] /\ a.pc = "stop"
      /\ a.idx = s
  BY <1>1 DEF AdminType
<1> HIDE DEF a
<1>4. /\ adm'[p] = a /\ \A q \in Admins \ {p} : adm'[q] = adm[q]
      /\ shards'[s] = new /\ \A t \in Shards \ {s} : shards'[t] = shards[t]
  BY <1>1, <1>2 DEF IInv, TypeOK
<1>5. TypeOK'
  BY <1>1, <1>2, <1>3 DEF IInv, TypeOK, counters
<1>6. \A r \in Requests : Routed(r)'
  BY <1>2 DEF IInv, Routed
<1>7. \A q \in Admins : InProgress(q)'
  <2> SUFFICES ASSUME NEW q \in Admins PROVE InProgress(q)'
    OBVIOUS
  <2>1. CASE q = p
    BY <1>1, <1>3, <1>4, <2>1, ShardNumbers DEF InProgress
  <2>2. CASE q # p
    BY <1>2, <1>4, <2>2 DEF IInv, InProgress
  <2> QED
    BY <2>1, <2>2
<1>8. HeldApart'
  <2>1. \A t \in Shards :
            shards[t] # None =>
                /\ \A u \in Shards \ {t} : shards[u] # shards[t]
                /\ \A q \in Admins : shards[t] \notin {adm[q].fresh, adm[q].old}
    BY DEF IInv, HeldApart
  <2>2. \A q, u \in Admins :
            /\ adm[q].fresh # None => adm[q].fresh # adm[u].old
            /\ adm[q].fresh # None /\ q # u => adm[q].fresh # adm[u].fresh
            /\ adm[q].old # None /\ q # u => adm[q].old # adm[u].old
    BY DEF IInv, HeldApart
  <2>3. \A t \in Shards :
            shards'[t] # None =>
                /\ \A u \in Shards \ {t} : shards'[u] # shards'[t]
                /\ \A q \in Admins : shards'[t] \notin {adm'[q].fresh, adm'[q].old}
    <3> SUFFICES ASSUME NEW t \in Shards, shards'[t] # None
                 PROVE  /\ \A u \in Shards \ {t} : shards'[u] # shards'[t]
                        /\ \A q \in Admins :
                              shards'[t] \notin {adm'[q].fresh, adm'[q].old}
      OBVIOUS
    <3>1. CASE t = s
      BY <1>1, <1>3, <1>4, <2>1, <2>2, <3>1
    <3>2. CASE t # s
      BY <1>1, <1>3, <1>4, <2>1, <2>2, <3>2
    <3> QED
      BY <3>1, <3>2
  <2>4. \A q, u \in Admins :
            /\ adm'[q].fresh # None => adm'[q].fresh # adm'[u].old
            /\ adm'[q].fresh # None /\ q # u => adm'[q].fresh # adm'[u].fresh
            /\ adm'[q].old # None /\ q # u => adm'[q].old # adm'[u].old
    BY <1>1, <1>3, <1>4, <2>1, <2>2
  <2> QED
    BY <2>3, <2>4 DEF HeldApart
<1>9. HeldRuns'
  <2> SUFFICES ASSUME NEW j \in Instances
               PROVE  inst'[j].loop = "running" <=>
                          \/ \E t \in Shards : shards'[t] = j
                          \/ \E q \in Admins : j \in {adm'[q].fresh, adm'[q].old}
    BY DEF HeldRuns
  <2>1. inst[j].loop = "running" <=>
            \/ \E t \in Shards : shards[t] = j
            \/ \E q \in Admins : j \in {adm[q].fresh, adm[q].old}
    BY DEF IInv, HeldRuns
  <2>2. j # None
    BY NoneAssumption
  <2>3. (\E t \in Shards : shards[t] = j) =>
            \/ \E t \in Shards : shards'[t] = j
            \/ \E q \in Admins : j \in {adm'[q].fresh, adm'[q].old}
    BY <1>1, <1>3, <1>4
  <2>4. (\E q \in Admins : j \in {adm[q].fresh, adm[q].old}) =>
            \/ \E t \in Shards : shards'[t] = j
            \/ \E q \in Admins : j \in {adm'[q].fresh, adm'[q].old}
    BY <1>1, <1>4, <2>2
  <2>5. \/ \E t \in Shards : shards'[t] = j
        \/ \E q \in Admins : j \in {adm'[q].fresh, adm'[q].old}
        => \/ \E t \in Shards : shards[t] = j
           \/ \E q \in Admins : j \in {adm[q].fresh, adm[q].old}
    BY <1>1, <1>3, <1>4, <2>2
  <2> QED
    BY <1>2, <2>1, <2>3, <2>4, <2>5
<1>10. InstalledRuns'
  <2>1. ASSUME new # None
        PROVE  /\ inst[new].loop = "running" /\ inst[new].script # None
               /\ ~inst[new].interrupted
    BY <1>1, <2>1 DEF IInv, HeldRuns, InterruptedOut
  <2> QED
    BY <1>1, <1>2, <1>4, <2>1 DEF IInv, InstalledRuns
<1>11. PassedReady'
  <2> SUFFICES ASSUME Unstopped', NEW l \in Loaders, NEW t \in Shards,
                      \/ t < adm'[l].idx
                      \/ t = adm'[l].idx /\ adm'[l].pc \in {"stop", "halt"}
               PROVE  shards'[t] # None
    BY DEF PassedReady
  <2>1. p \in Loaders /\ new # None
    BY <1>1, <1>3, <1>4 DEF Unstopped
  <2>2. Unstopped
    BY <1>4, <2>1 DEF Unstopped
  <2>3. l \in Admins
    BY DEF Admins
  <2>4. t # s => \/ t < adm[l].idx
                 \/ t = adm[l].idx /\ adm[l].pc \in {"stop", "halt"}
    BY <1>3, <1>4, <2>3
  <2> QED
    BY <1>4, <2>1, <2>2, <2>4 DEF IInv, PassedReady
<1>12. InterruptedOut'
  <2> SUFFICES ASSUME NEW j \in Instances, inst[j].interrupted
               PROVE  /\ inst[j].loop # "none"
                      /\ \A t \in Shards : shards'[t] # j
                      /\ \A q \in Admins : adm'[q].fresh # j
    BY <1>2 DEF InterruptedOut
  <2>1. /\ inst[j].loop # "none"
        /\ \A t \in Shards : shards[t] # j
        /\ \A q \in Admins : adm[q].fresh # j
        /\ j # None
    BY NoneAssumption DEF IInv, InterruptedOut
  <2>2. \A q \in Admins : adm'[q].fresh # j
    BY <1>3, <1>4, <2>1
  <2> QED
    BY <1>4, <2>1, <2>2
<1> QED
  BY <1>5, <1>6, <1>7, <1>8, <1>9, <1>10, <1>11, <1>12 DEF IInv

\* What is interrupted is held by the call that has swapped it out, and by nothing
\* else.
LEMMA InterruptStep ==
    ASSUME IInv, NEW p \in Admins, Interrupt(p)
    PROVE  IInv'
<1> DEFINE j == adm[p].old
           a == [adm[p] EXCEPT !.pc = "halt"]
           c == [inst[j] EXCEPT !.interrupted = TRUE]
<1>1. /\ adm[p] \in AdminType /\ InProgress(p) /\ adm[p].pc = "stop"
      /\ j \in Instances /\ j # None /\ adm[p].fresh = None
      /\ inst[j] \in InstanceType /\ inst[j].loop = "running"
      /\ UNCHANGED <<shards, counters, req>>
  <2>1. /\ adm[p] \in AdminType /\ InProgress(p) /\ adm[p].pc = "stop"
        /\ j # None /\ UNCHANGED <<shards, counters, req>>
    BY AdminFacts DEF Interrupt
  <2>2. j \in Instances /\ adm[p].fresh = None
    BY <2>1 DEF AdminType, InProgress
  <2> QED
    BY <2>1, <2>2 DEF IInv, TypeOK, HeldRuns
<1>2. /\ \A s \in Shards : shards[s] # j
      /\ \A q \in Admins : adm[q].fresh # j
  BY <1>1 DEF IInv, HeldApart
<1>3. inst' = [inst EXCEPT ![j] = c] /\ adm' = [adm EXCEPT ![p] = a]
  BY <1>1 DEF Interrupt, IInv, TypeOK, InstanceType, AdminType
<1>4. /\ c \in InstanceType /\ c.loop = "running" /\ c.script = inst[j].script
      /\ a \in AdminType /\ a.pc = "halt" /\ a.fresh = None /\ a.old = j
      /\ a.idx = adm[p].idx
  BY <1>1 DEF InstanceType, AdminType
<1> HIDE DEF j, a, c
<1>5. /\ adm'[p] = a /\ \A q \in Admins \ {p} : adm'[q] = adm[q]
      /\ inst'[j] = c /\ \A i \in Instances \ {j} : inst'[i] = inst[i]
  BY <1>1, <1>3 DEF IInv, TypeOK
<1>6. /\ \A q \in Admins : /\ adm'[q].fresh = adm[q].fresh
                           /\ adm'[q].old = adm[q].old
                           /\ adm'[q].idx = adm[q].idx
      /\ \A i \in Instances : /\ inst'[i].loop = inst[i].loop
                              /\ inst'[i].script = inst[i].script
  BY <1>1, <1>4, <1>5 DEF j
<1>7. TypeOK' /\ \A r \in Requests : Routed(r)'
  BY <1>1, <1>3, <1>4 DEF IInv, TypeOK, Routed, counters
<1>8. \A q \in Admins : InProgress(q)'
  <2> SUFFICES ASSUME NEW q \in Admins PROVE InProgress(q)'
    OBVIOUS
  <2>1. CASE q = p
    BY <1>1, <1>4, <1>5, <2>1 DEF InProgress
  <2>2. CASE q # p
    <3>1. InProgress(q) /\ adm[q].fresh \in Instances \cup {None}
      BY AdminFacts DEF AdminType
    <3> QED
      BY <1>5, <1>6, <2>2, <3>1 DEF InProgress
  <2> QED
    BY <2>1, <2>2
<1>9. HeldApart' /\ HeldRuns'
  BY <1>1, <1>6 DEF IInv, HeldApart, HeldRuns
<1>10. InterruptedOut'
  BY <1>1, <1>2, <1>4, <1>5, <1>6 DEF IInv, InterruptedOut
<1>11. InstalledRuns'
  <2>1. \A s \in Shards : shards[s] # None => shards[s] \in Instances \ {j}
    BY <1>2 DEF IInv, TypeOK
  <2> QED
    BY <1>1, <1>5, <2>1 DEF IInv, InstalledRuns
<1>12. PassedReady'
  <2>1. Unstopped' => Unstopped
    BY <1>1, <1>4, <1>5, <1>6 DEF Unstopped
  <2>2. \A l \in Loaders : adm'[l].pc \in {"stop", "halt"} <=>
                           adm[l].pc \in {"stop", "halt"}
    BY <1>1, <1>4, <1>5 DEF Admins
  <2>3. \A l \in Loaders : adm'[l].idx = adm[l].idx
    BY <1>6 DEF Admins
  <2> QED
    BY <1>1, <2>1, <2>2, <2>3 DEF IInv, PassedReady
<1> QED
  BY <1>7, <1>8, <1>9, <1>10, <1>11, <1>12 DEF IInv

\* An instance that has been swapped out is stopped and let go of.
LEMMA StopOldStep ==
    ASSUME IInv, NEW p \in Admins, StopOld(p)
    PROVE  IInv'
<1> DEFINE j == adm[p].old
           again == IF p = Stopper THEN "idle" ELSE "build"
           to == IF adm[p].idx + 1 < NumShards THEN again ELSE "done"
           a == [adm[p] EXCEPT !.old = None, !.idx = @ + 1, !.pc = to]
<1>1. /\ adm[p] \in AdminType /\ InProgress(p) /\ adm[p].pc \in {"stop", "halt"}
      /\ adm[p].idx \in Shards /\ adm[p].fresh = None
      /\ j \in Instances \cup {None}
  <2>1. adm[p] \in AdminType /\ InProgress(p) /\ adm[p].pc \in {"stop", "halt"}
    BY AdminFacts DEF StopOld
  <2> QED
    BY <2>1, AdminFacts DEF InProgress, AdminType
<1>2. /\ UNCHANGED <<shards, counters, req>>
      /\ adm' = [adm EXCEPT ![p] = a]
  BY <1>1 DEF StopOld, AdminType, IInv, TypeOK
<1>3. /\ to \in {"idle", "build", "done"} /\ a \in AdminType
      /\ to = "done" <=> adm[p].idx + 1 = NumShards
      /\ to = "idle" => p = Stopper
  <2>1. adm[p].idx \in Nat /\ NumShards \in Nat /\ adm[p].idx < NumShards
    BY <1>1, ShardNumbers
  <2>2. to \in {"idle", "build", "done"} /\ (to = "idle" => p = Stopper)
    OBVIOUS
  <2>3. to = "done" <=> adm[p].idx + 1 = NumShards
    BY <2>1
  <2>4. adm[p].idx + 1 \in 0 .. NumShards
    BY <2>1
  <2> HIDE DEF to
  <2> QED
    BY <1>1, <2>2, <2>3, <2>4 DEF AdminType
<1>4. /\ a.fresh = None /\ a.old = None /\ a.pc = to /\ a.idx = adm[p].idx + 1
  BY <1>1 DEF AdminType
<1> HIDE DEF a, to
<1>5. adm'[p] = a /\ \A q \in Admins \ {p} : adm'[q] = adm[q]
  BY <1>2 DEF IInv, TypeOK
<1>6. /\ inst' \in [Instances -> InstanceType]
      /\ \A i \in Instances : /\ inst'[i].script = inst[i].script
                              /\ inst'[i].interrupted = inst[i].interrupted
      /\ \A i \in Instances \ {j} : inst'[i] = inst[i]
      /\ j # None => inst'[j].loop \notin {"none", "running"}
  <2>1. CASE j = None
    BY <2>1 DEF StopOld, IInv, TypeOK
  <2>2. CASE j # None
    <3>1. j \in Instances /\ inst[j] \in InstanceType /\ inst[j].loop = "running"
      BY <1>1, <2>2 DEF IInv, HeldRuns, TypeOK
    <3>2. PICK loop \in {"stopping", "leaving"} :
              inst' = [inst EXCEPT ![j].loop = loop]
      BY <2>2 DEF StopOld
    <3> DEFINE c == [inst[j] EXCEPT !.loop = loop]
    <3>3. inst' = [inst EXCEPT ![j] = c]
      BY <3>1, <3>2 DEF InstanceType
    <3>4. /\ c \in InstanceType /\ c.loop = loop /\ c.script = inst[j].script
          /\ c.interrupted = inst[j].interrupted
      BY <3>1 DEF InstanceType
    <3> HIDE DEF c
    <3> QED
      BY <3>1, <3>3, <3>4 DEF IInv, TypeOK
  <2> QED
    BY <2>1, <2>2
<1>7. TypeOK'
  <2>1. adm' \in [Admins -> AdminType]
    BY <1>2, <1>3 DEF IInv, TypeOK
  <2> QED
    BY <1>2, <1>6, <2>1 DEF IInv, TypeOK, counters
<1>8. \A r \in Requests : Routed(r)'
  BY <1>2 DEF IInv, Routed
<1>9. \A q \in Admins : InProgress(q)'
  <2> SUFFICES ASSUME NEW q \in Admins PROVE InProgress(q)'
    OBVIOUS
  <2>1. CASE q = p
    BY <1>3, <1>4, <1>5, <2>1 DEF InProgress
  <2>2. CASE q # p
    <3>1. InProgress(q) /\ adm[q].fresh \in Instances \cup {None}
      BY AdminFacts DEF AdminType
    <3> QED
      BY <1>5, <1>6, <2>2, <3>1 DEF InProgress
  <2> QED
    BY <2>1, <2>2
<1>10. \A q \in Admins :
           /\ adm'[q].fresh = adm[q].fresh
           /\ adm'[q].old = IF q = p THEN None ELSE adm[q].old
  BY <1>1, <1>4, <1>5
<1>11. HeldApart'
  <2>1. \A s \in Shards :
            shards[s] # None =>
                /\ \A t \in Shards \ {s} : shards[t] # shards[s]
                /\ \A q \in Admins : shards[s] \notin {adm'[q].fresh, adm'[q].old}
    BY <1>10 DEF IInv, HeldApart
  <2>2. \A q, u \in Admins :
            /\ adm'[q].fresh # None => adm'[q].fresh # adm'[u].old
            /\ adm'[q].fresh # None /\ q # u => adm'[q].fresh # adm'[u].fresh
            /\ adm'[q].old # None /\ q # u => adm'[q].old # adm'[u].old
    BY <1>10 DEF IInv, HeldApart
  <2> QED
    BY <1>2, <2>1, <2>2 DEF HeldApart
<1>12. \A s \in Shards : shards[s] # None => shards[s] # j
  BY DEF IInv, HeldApart
<1>13. HeldRuns'
  <2> SUFFICES ASSUME NEW i \in Instances
               PROVE  inst'[i].loop = "running" <=>
                          \/ \E s \in Shards : shards[s] = i
                          \/ \E q \in Admins : i \in {adm'[q].fresh, adm'[q].old}
    BY <1>2 DEF HeldRuns
  <2>0. i # None
    BY NoneAssumption
  <2>1. CASE i = j
    <3>1. \A s \in Shards : shards[s] # i
      BY <1>12, <2>0, <2>1
    <3>2. \A q \in Admins : i \notin {adm'[q].fresh, adm'[q].old}
      BY <1>10, <2>0, <2>1 DEF IInv, HeldApart
    <3> QED
      BY <1>6, <2>0, <2>1, <3>1, <3>2
  <2>2. CASE i # j
    <3>1. inst[i].loop = "running" <=>
              \/ \E s \in Shards : shards[s] = i
              \/ \E q \in Admins : i \in {adm[q].fresh, adm[q].old}
      BY DEF IInv, HeldRuns
    <3>2. inst'[i] = inst[i]
      BY <1>6, <2>2
    <3>3. \A q \in Admins : i \in {adm'[q].fresh, adm'[q].old} <=>
                              i \in {adm[q].fresh, adm[q].old}
      BY <1>10, <2>0, <2>2
    <3> QED
      BY <3>1, <3>2, <3>3
  <2> QED
    BY <2>1, <2>2
<1>14. InstalledRuns'
  <2>1. \A s \in Shards : shards[s] # None => inst'[shards[s]] = inst[shards[s]]
    <3>1. \A s \in Shards : shards[s] \in Instances \cup {None}
      BY DEF IInv, TypeOK
    <3> QED
      BY <1>6, <1>12, <3>1
  <2> QED
    BY <1>2, <2>1 DEF IInv, InstalledRuns
<1>15. PassedReady'
  <2> SUFFICES ASSUME Unstopped', NEW l \in Loaders, NEW t \in Shards,
                      \/ t < adm'[l].idx
                      \/ t = adm'[l].idx /\ adm'[l].pc \in {"stop", "halt"}
               PROVE  shards[t] # None
    BY <1>2 DEF PassedReady
  <2>1. p \in Loaders
    <3>1. adm'[p].idx # 0
      <4>1. adm[p].idx \in Nat
        BY <1>1, ShardNumbers
      <4> QED
        BY <1>4, <1>5, <4>1
    <3> QED
      BY <3>1 DEF Unstopped
  <2>2. Unstopped
    BY <1>5, <2>1 DEF Unstopped
  <2>3. l \in Admins
    BY DEF Admins
  <2>4. \/ t < adm[l].idx
        \/ t = adm[l].idx /\ adm[l].pc \in {"stop", "halt"}
    <3>1. CASE l = p
      <4>1. t < adm[l].idx + 1 /\ t \in Int /\ adm[l].idx \in Int
        BY <1>1, <1>3, <1>4, <1>5, <3>1, ShardNumbers
      <4> QED
        BY <1>1, <3>1, <4>1
    <3>2. CASE l # p
      BY <1>5, <2>3, <3>2
    <3> QED
      BY <3>1, <3>2
  <2> QED
    BY <2>2, <2>4 DEF IInv, PassedReady
<1>16. InterruptedOut'
  <2>1. \A i \in Instances : inst'[i].loop = "none" => inst[i].loop = "none"
    BY <1>6, NoneAssumption
  <2> QED
    BY <1>2, <1>6, <1>10, <2>1 DEF IInv, InterruptedOut
<1> QED
  BY <1>7, <1>8, <1>9, <1>11, <1>13, <1>14, <1>15, <1>16 DEF IInv

-----------------------------------------------------------------------------
(* The invariant. *)

\* A new runtime has no instance, and every call is at its beginning.
LEMMA InitHolds == Init => IInv
<1> SUFFICES ASSUME Init PROVE IInv
  OBVIOUS
<1>1. \A s \in Shards : shards[s] = None
  BY DEF Init
<1>2. \A j \in Instances :
          /\ inst[j] = [loop |-> "none", script |-> None, handler |-> "unset",
                        batch |-> {}, running |-> None, interrupted |-> FALSE]
          /\ j # None
  BY NoneAssumption DEF Init
<1>3. \A r \in Requests :
          req[r] = [at |-> "new", resumed |-> FALSE, shard |-> -1, inst |-> None,
                    next |-> None]
  BY DEF Init
<1>4. \A p \in Admins :
          adm[p] = [pc |-> "idle", idx |-> 0, fresh |-> None, old |-> None]
  BY DEF Init
<1>5. TypeOK
  <2>1. nextShard \in 0 .. CounterSize - 1 /\ 0 \in 0 .. NumShards
    BY ShardNumbers DEF Init
  <2>2. shards \in [Shards -> Instances \cup {None}] /\ hits \in [Shards -> Nat]
    BY DEF Init
  <2>3. inst \in [Instances -> InstanceType]
    BY DEF Init, InstanceType
  <2>4. req \in [Requests -> RequestType]
    BY DEF Init, RequestType
  <2>5. adm \in [Admins -> AdminType]
    BY <2>1 DEF Init, AdminType
  <2> QED
    BY <2>1, <2>2, <2>3, <2>4, <2>5 DEF TypeOK
<1>6. \A r \in Requests : Routed(r)
  BY <1>3 DEF Routed
<1>7. \A p \in Admins : InProgress(p)
  BY <1>4, ShardNumbers DEF InProgress
<1>8. HeldApart /\ InstalledRuns
  BY <1>1, <1>4 DEF HeldApart, InstalledRuns
<1>9. HeldRuns /\ InterruptedOut
  BY <1>1, <1>2, <1>4 DEF HeldRuns, InterruptedOut
<1>10. PassedReady
  <2>1. \A l \in Loaders : adm[l].idx = 0 /\ adm[l].pc = "idle"
    BY <1>4 DEF Admins
  <2> QED
    BY <2>1, ShardNumbers DEF PassedReady
<1> QED
  BY <1>5, <1>6, <1>7, <1>8, <1>9, <1>10 DEF IInv

\* Every step keeps the invariant.
LEMMA NextHolds == IInv /\ [Next]_vars => IInv'
<1> SUFFICES ASSUME IInv, [Next]_vars PROVE IInv'
  OBVIOUS
<1>1. ASSUME NEW r \in Requests, HttpStep(r) \/ RunJob(r) \/ JobStep(r)
      PROVE  IInv'
  BY <1>1, RouteStep, HttpMoves, JobMoves DEF HttpStep
<1>2. ASSUME NEW j \in Instances, LoopStep(j)
      PROVE  IInv'
  BY <1>2, LoopStepKeeps
<1>3. ASSUME NEW l \in Loaders, LoaderStep(l)
      PROVE  IInv'
  <2>1. l \in Admins
    BY DEF Admins
  <2>2. ASSUME Swap(l) PROVE IInv'
    BY <2>1, <2>2, SwapInStep DEF Swap
  <2> QED
    BY <1>3, <2>1, <2>2, GoesStep, GetInstanceStep, GetInstanceFailsStep,
       LoadProgramStep, InterruptStep, StopOldStep DEF LoaderStep
<1>4. ASSUME NEW p \in Admins \ Loaders, StopperStep(p)
      PROVE  IInv'
  <2>1. ASSUME SwapNil(p) PROVE IInv'
    <3>1. adm[p].fresh = None
      BY <2>1, AdminFacts DEF SwapNil, SwapIn, InProgress
    <3> QED
      BY <2>1, <3>1, SwapInStep DEF SwapNil
  <2> QED
    BY <1>4, <2>1, InterruptStep, StopOldStep DEF StopperStep
<1>5. CASE UNCHANGED vars
  BY <1>5 DEF vars, counters, IInv, TypeOK, Routed, InProgress, HeldApart,
              HeldRuns, InterruptedOut, InstalledRuns, PassedReady, Unstopped
<1> QED
  BY <1>1, <1>2, <1>3, <1>4, <1>5 DEF Next

\* The inductive invariant holds in every reachable state.
LEMMA Invariant == Spec => []IInv
BY InitHolds, NextHolds, PTL DEF Spec

\* What is held apart has one owner.
LEMMA Owner == IInv => OneOwner
<1> SUFFICES ASSUME IInv, NEW j \in Instances
             PROVE  /\ inst[j].loop = "running" => Cardinality(Owners(j)) = 1
                    /\ inst[j].loop # "running" => Owners(j) = {}
  BY DEF OneOwner
<1>1. /\ inst[j].loop = "running" <=>
            \/ \E s \in Shards : shards[s] = j
            \/ \E p \in Admins : j \in {adm[p].fresh, adm[p].old}
      /\ j # None
  BY NoneAssumption DEF IInv, HeldRuns
<1>2. CASE inst[j].loop # "running"
  BY <1>1, <1>2 DEF Owners
<1>3. ASSUME NEW s \in Shards, shards[s] = j
      PROVE  Owners(j) = {s}
  BY <1>1, <1>3 DEF IInv, HeldApart, Owners
<1>4. ASSUME NEW p \in Admins, j \in {adm[p].fresh, adm[p].old}
      PROVE  Owners(j) = {p}
  BY <1>1, <1>4 DEF IInv, HeldApart, Owners
<1>5. CASE inst[j].loop = "running"
  <2>1. PICK x : Owners(j) = {x}
    BY <1>1, <1>3, <1>4, <1>5
  <2> QED
    BY <1>5, <2>1, FS_Singleton
<1> QED
  BY <1>2, <1>5

\* Through every interleaving of requests, LoadScript calls and Stop, a loop
\* runs exactly as long as one place, and no other, is there to stop it.
THEOREM Invariance == Spec => []LoopsInv
BY Invariant, Owner, PTL DEF LoopsInv

\* No shard ever points to an instance that has been stopped or interrupted, or
\* whose program has not been run.
THEOREM InstalledAlwaysRuns == Spec => []InstalledRuns
<1>1. IInv => InstalledRuns
  BY DEF IInv
<1> QED
  BY <1>1, Invariant, PTL

\* Reloading never leaves a request without an instance: once a LoadScript has
\* succeeded, and until Stop is called, every shard points to one.
THEOREM ReloadKeepsReady == Spec => []StaysReady
<1>1. IInv => StaysReady
  <2> SUFFICES ASSUME IInv, NEW l \in Loaders, adm[l].pc = "done", Unstopped,
                      NEW s \in Shards
               PROVE  shards[s] # None
    BY DEF StaysReady
  <2>1. adm[l].idx = NumShards
    BY AdminFacts DEF Admins, InProgress
  <2> QED
    BY <2>1, ShardNumbers DEF IInv, PassedReady
<1> QED
  BY <1>1, Invariant, PTL

-----------------------------------------------------------------------------
(* Round-robin. *)

\* The shards up to the one the counter stands for are one request ahead of
\* those behind it.
Spread ==
    /\ nextShard \in 0 .. CounterSize - 1
    /\ hits \in [Shards -> Nat]
    /\ \A s \in Shards :
          hits[s] = hits[0] - (IF s <= nextShard % NumShards THEN 0 ELSE 1)

\* Before the first request the counter stands for the last shard.
LEMMA SpreadInit ==
    ASSUME CounterSize % NumShards = 0, Init
    PROVE  Spread
<1>1. /\ NumShards \in Nat \ {0} /\ CounterSize \in Nat \ {0}
      /\ nextShard = CounterSize - 1
  BY ShardNumbers DEF Init
<1>2. nextShard % NumShards = NumShards - 1
  <2> DEFINE m == CounterSize \div NumShards
  <2>1. m \in Nat /\ CounterSize = NumShards * m
    BY <1>1
  <2> HIDE DEF m
  <2>2. nextShard = NumShards * (m - 1) + (NumShards - 1)
    BY <1>1, <2>1
  <2>3. /\ nextShard \in Nat /\ m - 1 \in Int
        /\ NumShards - 1 \in 0 .. NumShards - 1
    BY <1>1, <2>1
  <2> QED
    BY <1>1, <2>2, <2>3, Remainder
<1> QED
  BY <1>1, <1>2, ShardNumbers DEF Init, Spread

\* A request goes to the first shard that is behind, or to shard zero if none is.
LEMMA SpreadNext ==
    ASSUME CounterSize % NumShards = 0, Spread, [Next]_vars
    PROVE  Spread'
<1>1. ASSUME NEW r \in Requests, Route(r)
      PROVE  Spread'
  <2> DEFINE k == nextShard % NumShards
             n == (nextShard + 1) % CounterSize
             m == n % NumShards
  <2>1. /\ k \in Shards /\ n \in 0 .. CounterSize - 1 /\ m \in Shards
        /\ m = IF k = NumShards - 1 THEN 0 ELSE k + 1
    <3>1. n \in 0 .. CounterSize - 1
      BY ShardNumbers DEF Spread
    <3> QED
      BY <3>1, NextRemainder, ShardNumbers DEF Spread
  <2>2. nextShard' = n /\ hits' = [hits EXCEPT ![m] = @ + 1]
    BY <1>1 DEF Route, RouteTo
  <2>3. n % NumShards = m
    OBVIOUS
  <2>4. \A s \in Shards : hits[s] = hits[0] - (IF s <= k THEN 0 ELSE 1)
    BY DEF Spread
  <2> HIDE DEF k, n, m
  <2>5. hits' \in [Shards -> Nat]
    BY <2>1, <2>2 DEF Spread
  <2>6. /\ 0 \in Shards /\ NumShards \in Nat
        /\ \A s \in Shards : s \in Nat /\ s < NumShards /\ hits[s] \in Nat
    BY ShardNumbers DEF Spread
  <2>7. \A s \in Shards : hits'[s] = IF s = m THEN hits[s] + 1 ELSE hits[s]
    BY <2>1, <2>2 DEF Spread
  <2>8. ASSUME NEW s \in Shards
        PROVE  hits'[s] = hits'[0] - (IF s <= m THEN 0 ELSE 1)
    <3>1. CASE k = NumShards - 1
      BY <2>1, <2>4, <2>6, <2>7, <3>1
    <3>2. CASE k # NumShards - 1
      BY <2>1, <2>4, <2>6, <2>7, <3>2
    <3> QED
      BY <3>1, <3>2
  <2> QED
    BY <2>1, <2>2, <2>3, <2>5, <2>8 DEF Spread
<1>2. ASSUME UNCHANGED counters
      PROVE  Spread'
  BY <1>2 DEF counters, Spread
<1>3. (\E r \in Requests : Route(r)) \/ UNCHANGED counters
  BY DEF Next, HttpStep, JobStep, LoadInstance, Dispatch, NextServed, RunJob,
         EndJob, Abort, InvokeNext, LoopStep, TakeJobs, LoopExits, LoaderStep,
         Compile, CompileFails, GetInstance, Build, GetInstanceFails, BuildFails,
         LoadProgram, LoadProgramFails, Goes, Swap, SwapIn, Interrupt, StopOld,
         StopperStep, SwapNil, vars
<1> QED
  BY <1>1, <1>2, <1>3

\* Requests are spread round-robin, for ever, if the counter wraps around where
\* the shards do, as it does for any power of two of them.
THEOREM RoundRobinHolds ==
    ASSUME CounterSize % NumShards = 0
    PROVE  Spec => []RoundRobin
<1>1. Init => Spread
  BY SpreadInit
<1>2. Spread /\ [Next]_vars => Spread'
  BY SpreadNext
<1>3. Spread => RoundRobin
  <2> SUFFICES ASSUME Spread, NEW s \in Shards, NEW t \in Shards
               PROVE  hits[s] <= hits[t] + 1
    BY DEF RoundRobin
  <2>1. hits[s] \in Nat /\ hits[t] \in Nat /\ hits[0] \in Nat
    BY ShardNumbers DEF Spread
  <2>2. /\ hits[s] = hits[0] \/ hits[s] = hits[0] - 1
        /\ hits[t] = hits[0] \/ hits[t] = hits[0] - 1
    <3> DEFINE k == nextShard % NumShards
    <3>1. \A u \in Shards : hits[u] = hits[0] - (IF u <= k THEN 0 ELSE 1)
      BY DEF Spread
    <3> HIDE DEF k
    <3> QED
      BY <2>1, <3>1
  <2> QED
    BY <2>1, <2>2
<1> QED
  BY <1>1, <1>2, <1>3, PTL DEF Spec
=============================================================================
