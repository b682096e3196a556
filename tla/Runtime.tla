------------------------------ MODULE Runtime ------------------------------
(***************************************************************************)
(* The runtime and its shards: runtime.go, the dispatch in                 *)
(* runtime_handler.go and the start and stop of a runtimeInstance.         *)
(*                                                                         *)
(* Each shard is an atomic pointer to an instance, an event loop with a    *)
(* script.  HTTP goroutines pick a shard and load its pointer; LoadScript  *)
(* builds a fresh instance for each shard, swaps it in and stops the old   *)
(* one; Stop swaps nil in.  Nothing else orders the three: a request may   *)
(* still hold an instance that has been swapped out and stopped.           *)
(*                                                                         *)
(* The next handler of a request may go through the runtime again: an      *)
(* Express handler that calls ctx.next serves it on its loop, an event     *)
(* handler off the loop.                                                   *)
(***************************************************************************)
EXTENDS Integers, FiniteSets

CONSTANTS
    Requests,     \* calls of Middleware, each served once
    Chained,      \* those of them that the next handler of another one makes
    NumShards,    \* rt.numShards
    CounterSize,  \* 2^32 in the code: nextShard wraps around at it
    Instances,    \* the runtimeInstances that can be built
    Loaders,      \* calls of LoadScript; a script is named by the call
    Stopper,      \* a call of Stop, None if there is none
    Interrupting, \* those of these calls whose argument interrupt is true
    Cooperative,  \* requests whose jobs all come to an end
    Awaiting,     \* requests whose handlers may await something
    None          \* nilInstance, nil

Shards == 0 .. NumShards - 1
Admins == Loaders \cup (IF Stopper = None THEN {} ELSE {Stopper})

ASSUME ShardsAssumption == NumShards \in Nat \ {0}
ASSUME CounterAssumption == CounterSize \in Nat \ {0}
ASSUME OptionsAssumption ==
    /\ Interrupting \subseteq Admins
    /\ Cooperative \subseteq Requests
    /\ Awaiting \subseteq Requests
    /\ Chained \subseteq Requests
ASSUME NoneAssumption == None \notin Requests \cup Instances \cup Loaders
ASSUME StopperAssumption == Stopper \notin Loaders

VARIABLES
    shards,    \* rt.shards: the instance each one points to
    nextShard, \* rt.nextShard
    hits,      \* requests each shard has been picked for
    inst,      \* per instance, see InstanceType
    req,       \* per request, see RequestType
    adm        \* per LoadScript or Stop call, see AdminType

counters == <<nextShard, hits>>
vars == <<shards, counters, inst, req, adm>>

\* loop: its event loop, which is "leaving" in the last batch of jobs before it
\* stops; script: the LoadScript call whose program it has run; handler:
\* middlewareType; batch: the requests whose jobs the loop has taken and not run
\* yet; running: the request whose JavaScript occupies the loop; interrupted: the
\* flag that vm.Interrupt sets.
InstanceType ==
    [loop : {"none", "running", "stopping", "leaving", "stopped"},
     script : Loaders \cup {None},
     handler : {"unset", "express", "event"},
     batch : SUBSET Requests,
     running : Requests \cup {None},
     interrupted : BOOLEAN]

\* at: its progress, where "serving" waits for the next handler and "lost" for a
\* promise that will not settle; resumed: its job is a continuation, not the call
\* of the handler; shard: where it was routed to; inst: the instance it loaded
\* there; next: the call of Middleware its next handler makes.
RequestType ==
    [at : {"new", "routed", "loaded", "queued", "running", "awaiting",
           "serving", "answered", "lost"},
     resumed : BOOLEAN,
     shard : Shards \cup {-1},
     inst : Instances \cup {None},
     next : Chained \cup {None}]

\* idx: the shard its loop is at; fresh: the instance it has built; old: the
\* instance it swapped out and has to stop.
AdminType ==
    [pc : {"idle", "build", "load", "swap", "stop", "halt", "done", "error"},
     idx : 0 .. NumShards,
     fresh : Instances \cup {None},
     old : Instances \cup {None}]

\* Types of every variable.
TypeOK ==
    /\ shards \in [Shards -> Instances \cup {None}]
    /\ nextShard \in 0 .. CounterSize - 1
    /\ hits \in [Shards -> Nat]
    /\ inst \in [Instances -> InstanceType]
    /\ req \in [Requests -> RequestType]
    /\ adm \in [Admins -> AdminType]

\* NewRuntime: no instance anywhere; nextShard is one below zero.
Init ==
    /\ shards = [s \in Shards |-> None]
    /\ nextShard = CounterSize - 1
    /\ hits = [s \in Shards |-> 0]
    /\ inst = [j \in Instances |->
                  [loop |-> "none", script |-> None, handler |-> "unset",
                   batch |-> {}, running |-> None, interrupted |-> FALSE]]
    /\ req = [r \in Requests |->
                 [at |-> "new", resumed |-> FALSE, shard |-> -1, inst |-> None,
                  next |-> None]]
    /\ adm = [p \in Admins |->
                 [pc |-> "idle", idx |-> 0, fresh |-> None, old |-> None]]

-----------------------------------------------------------------------------
(* Requests. *)

\* A call comes from net/http, or from the next handler that makes it.
Arrives(r) ==
    /\ req[r].at = "new"
    /\ r \in Chained => \E q \in Requests : req[q].next = r

\* To the shard that value n of the counter stands for, leaving it at count.
RouteTo(r, n, count) ==
    LET s == n % NumShards
    IN  /\ Arrives(r)
        /\ nextShard' = count
        /\ hits' = [hits EXCEPT ![s] = @ + 1]
        /\ req' = [req EXCEPT ![r].at = "routed", ![r].shard = s]
        /\ UNCHANGED <<shards, inst, adm>>

\* Faulty: the counter is read and written back; an increment may be lost.
RouteRacing(r) ==
    LET n == (nextShard + 1) % CounterSize
    IN  \E count \in {n, nextShard} : RouteTo(r, n, count)

\* shardRun: the counter is incremented atomically, modulo its width, and the
\* request goes to its value modulo the number of shards.
Route(r) ==
    LET n == (nextShard + 1) % CounterSize
    IN  RouteTo(r, n, n)

\* Faulty: a request waits for an instance to be loaded.
LoadInstanceOnceThere(r) ==
    LET j == shards[req[r].shard]
    IN  /\ req[r].at = "routed"
        /\ j # None
        /\ req' = [req EXCEPT ![r].inst = j, ![r].at = "loaded"]
        /\ UNCHANGED <<shards, counters, inst, adm>>

\* rt.shards[i].Load(): 503 if there is no instance.
LoadInstance(r) ==
    LET j == shards[req[r].shard]
    IN  /\ req[r].at = "routed"
        /\ req' = [req EXCEPT ![r].inst = j,
                       ![r].at = IF j = None THEN "answered" ELSE "loaded"]
        /\ UNCHANGED <<shards, counters, inst, adm>>

\* Middleware dispatches on the handler type: 502 if the script registered
\* none, else handleAsEvent or handleAsExpress calls RunOnLoop, which accepts
\* the job whether or not the loop still runs.
Dispatch(r) ==
    /\ req[r].at = "loaded"
    /\ req' = [req EXCEPT ![r].at =
                  IF inst[req[r].inst].handler = "unset" THEN "answered"
                                                         ELSE "queued"]
    /\ UNCHANGED <<shards, counters, inst, adm>>

\* The loop runs the next job of its batch: the handler of r, or a continuation.
RunJob(r) ==
    LET j == req[r].inst
    IN  /\ req[r].at \in {"queued", "awaiting"}
        /\ r \in inst[j].batch
        /\ inst[j].running = None
        /\ inst' = [inst EXCEPT ![j].running = r, ![j].batch = @ \ {r}]
        /\ req' = [req EXCEPT ![r].resumed = (req[r].at = "awaiting"),
                              ![r].at = "running"]
        /\ UNCHANGED <<shards, counters, adm>>

InJob(r) == req[r].at = "running"

\* The job ends: the request is answered, or its handler awaits something (at
\* most once, which bounds the model).
EndJob(r) ==
    /\ InJob(r)
    /\ \E at \in {"answered", "awaiting"} :
          /\ at = "awaiting" => r \in Awaiting /\ ~req[r].resumed
          /\ req' = [req EXCEPT ![r].at = at]
    /\ inst' = [inst EXCEPT ![req[r].inst].running = None]
    /\ UNCHANGED <<shards, counters, adm>>

\* The job finds the flag of vm.Interrupt: its outermost call into JavaScript ends
\* with an error, which clears the flag and drops the reactions to promises.  The
\* call of a handler passes the error to Exception, which ends the request unless
\* an event was answered before; nobody sees the error of a continuation.
Abort(r) ==
    LET j == req[r].inst
    IN  /\ InJob(r)
        /\ inst[j].interrupted
        /\ \E at \in {"answered", "lost"} :
              /\ at = "answered" => ~req[r].resumed
              /\ at = "lost" => req[r].resumed \/ inst[j].handler = "event"
              /\ req' = [req EXCEPT ![r].at = at]
        /\ inst' = [inst EXCEPT ![j].running = None, ![j].interrupted = FALSE]
        /\ UNCHANGED <<shards, counters, adm>>

\* ctx.next within a job, or the end of an event handler that has not answered:
\* the next handler, which goes through Middleware once more, is served on the
\* loop or, by the goroutine of the request resolver, off it.
InvokeNext(r, q) ==
    LET j == req[r].inst
    IN  /\ InJob(r)
        /\ req[r].next = None
        /\ \A p \in Requests : req[p].next # q
        /\ q # r
        /\ req' = [req EXCEPT ![r].at = "serving", ![r].next = q]
        /\ inst' = [inst EXCEPT ![j].running =
                       IF inst[j].handler = "express" THEN r ELSE None]
        /\ UNCHANGED <<shards, counters, adm>>

\* ServeHTTP of the next handler returns: to the job, or to the goroutine.
NextServed(r) ==
    /\ req[r].at = "serving"
    /\ req[req[r].next].at = "answered"
    /\ req' = [req EXCEPT ![r].at =
                  IF inst[req[r].inst].running = r THEN "running"
                                                   ELSE "answered"]
    /\ UNCHANGED <<shards, counters, inst, adm>>

-----------------------------------------------------------------------------
(* The loop of an instance. *)

\* Woken by RunOnLoop, by what a handler awaits, or by StopNoWait, the loop takes
\* all the jobs that were posted.  A loop that is stopping does so once more.
TakeJobs(j) ==
    LET at(p) == {r \in Requests : req[r].inst = j /\ req[r].at = p}
    IN  /\ inst[j].loop \in {"running", "stopping"}
        /\ inst[j].running = None /\ inst[j].batch = {}
        /\ \E due \in SUBSET at("awaiting") :
              LET jobs == at("queued") \cup due
              IN  /\ jobs # {}
                  /\ inst' = [inst EXCEPT ![j].batch = jobs,
                                          ![j].loop = IF @ = "stopping"
                                                      THEN "leaving" ELSE @]
        /\ UNCHANGED <<shards, counters, req, adm>>

\* StopNoWait takes effect once the batch in progress is over.
LoopExits(j) ==
    /\ inst[j].loop \in {"stopping", "leaving"}
    /\ inst[j].running = None /\ inst[j].batch = {}
    /\ inst' = [inst EXCEPT ![j].loop = "stopped"]
    /\ UNCHANGED <<shards, counters, req, adm>>

-----------------------------------------------------------------------------
(* LoadScript. *)

\* Call p goes from one point to another and does nothing else.
Goes(p, from, to) ==
    /\ adm[p].pc = from
    /\ adm' = [adm EXCEPT ![p].pc = to]
    /\ UNCHANGED <<shards, counters, inst, req>>

\* The script is compiled; an error leaves everything as it is.
Compile(l) == Goes(l, "idle", "build")
CompileFails(l) == Goes(l, "idle", "error")

\* A new runtimeInstance.  Which one does not matter; Instances is large enough
\* for every build of every LoadScript call.
Unbuilt == {j \in Instances : inst[j].loop = "none"}
NewInstance == CHOOSE j \in Unbuilt : TRUE

\* A new instance is built and kept.
Build(l) ==
    /\ adm[l].pc = "build"
    /\ Unbuilt # {}
    /\ inst' = [inst EXCEPT ![NewInstance].loop = "running"]
    /\ adm' = [adm EXCEPT ![l].fresh = NewInstance, ![l].pc = "load"]
    /\ UNCHANGED <<counters, req>>

\* Faulty: the shard is emptied before its new instance is built.
GetInstanceUnloading(l) ==
    /\ Build(l)
    /\ shards' = [shards EXCEPT ![adm[l].idx] = None]

\* getInstance: a new event loop, started; the extensions; prepareInstance.
GetInstance(l) == Build(l) /\ UNCHANGED shards

BuildFails(l, loop) ==
    /\ adm[l].pc = "build"
    /\ Unbuilt # {}
    /\ inst' = [inst EXCEPT ![NewInstance].loop = loop]
    /\ adm' = [adm EXCEPT ![l].pc = "error"]
    /\ UNCHANGED <<shards, counters, req>>

\* Faulty: the deferred function does not see the error.
GetInstanceFailsRunning(l) == BuildFails(l, "running")

\* getInstance fails half-way: its deferred function stops the new loop.
GetInstanceFails(l) == BuildFails(l, "stopping")

\* <-instance.loadProgram: the program runs, and may register a handler.
LoadProgram(l) ==
    /\ adm[l].pc = "load"
    /\ \E h \in {"unset", "express", "event"} :
          inst' = [inst EXCEPT ![adm[l].fresh].script = l,
                               ![adm[l].fresh].handler = h]
    /\ adm' = [adm EXCEPT ![l].pc = "swap"]
    /\ UNCHANGED <<shards, counters, req>>

\* Faulty: LoadScript goes on after the error.
LoadProgramFailsIgnored(l) == Goes(l, "load", "swap")

\* The program throws: LoadScript returns, and nobody stops the new loop.
LoadProgramFails(l) == Goes(l, "load", "error")

\* old := rt.shards[i].Swap(new), by LoadScript and by Stop.
SwapIn(p, from, new) ==
    LET s == adm[p].idx
    IN  /\ adm[p].pc = from
        /\ shards' = [shards EXCEPT ![s] = new]
        /\ adm' = [adm EXCEPT ![p].fresh = None, ![p].old = shards[s],
                              ![p].pc = "stop"]
        /\ UNCHANGED <<counters, inst, req>>

Swap(l) == SwapIn(l, "swap", adm[l].fresh)

-----------------------------------------------------------------------------
(* Stop, and the stop of an instance. *)

SwapNil(p) == SwapIn(p, "idle", None)

\* Faulty: stop does not interrupt.
InterruptNothing(p) == adm[p].old # None /\ Goes(p, "stop", "halt")

\* old.stop(true) sets the flag of the VM, whatever its loop is doing.
Interrupt(p) ==
    /\ adm[p].pc = "stop"
    /\ adm[p].old # None
    /\ p \in Interrupting
    /\ inst' = [inst EXCEPT ![adm[p].old].interrupted = TRUE]
    /\ adm' = [adm EXCEPT ![p].pc = "halt"]
    /\ UNCHANGED <<shards, counters, req>>

\* StopNoWait, at once or after the interrupt, unless old is nil; then the next
\* shard.
StopOld(p) ==
    LET j == adm[p].old
        again == IF p = Stopper THEN "idle" ELSE "build"
    IN  /\ \/ adm[p].pc = "halt"
           \/ adm[p].pc = "stop" /\ (j = None \/ p \notin Interrupting)
        /\ IF j = None
           THEN UNCHANGED inst
           ELSE inst' = [inst EXCEPT ![j].loop =
                            IF inst[j].running = None /\ inst[j].batch = {}
                            THEN "stopping" ELSE "leaving"]
        /\ adm' = [adm EXCEPT ![p].old = None, ![p].idx = @ + 1, ![p].pc =
                      IF adm[p].idx + 1 < NumShards THEN again ELSE "done"]
        /\ UNCHANGED <<shards, counters, req>>

-----------------------------------------------------------------------------
LoaderStep(l) ==
    \/ Compile(l)
    \/ CompileFails(l)
    \/ GetInstance(l)
    \/ GetInstanceFails(l)
    \/ LoadProgram(l)
    \/ LoadProgramFails(l)
    \/ Swap(l)
    \/ Interrupt(l)
    \/ StopOld(l)

StopperStep(p) == SwapNil(p) \/ Interrupt(p) \/ StopOld(p)

HttpStep(r) == Route(r) \/ LoadInstance(r) \/ Dispatch(r) \/ NextServed(r)

JobStep(r) == EndJob(r) \/ Abort(r) \/ \E q \in Chained : InvokeNext(r, q)

LoopStep(j) == TakeJobs(j) \/ LoopExits(j)

\* r waits for a loop that is stopped, for a loop that another request of S
\* keeps, for its next handler, which is in S, or for a promise that was dropped;
\* or it runs and need not end.
WaitsOn(r, S) ==
    \/ /\ req[r].at \in {"queued", "awaiting"}
       /\ \/ inst[req[r].inst].loop = "stopped"
          \/ inst[req[r].inst].running \in S \ {r}
    \/ req[r].at = "serving" /\ req[r].next \in S
    \/ InJob(r) /\ r \notin Cooperative /\ ~inst[req[r].inst].interrupted
    \/ req[r].at = "lost"

\* Nothing that r waits for, directly or not, needs to happen.
Stuck(r) ==
    \E S \in SUBSET Requests : r \in S /\ \A q \in S : WaitsOn(q, S)

Terminated ==
    /\ \A r \in Requests :
          \/ req[r].at = "answered"
          \/ req[r].at = "new" /\ ~Arrives(r)
          \/ Stuck(r)
    /\ \A p \in Admins : adm[p].pc \in {"done", "error"}
    /\ \A j \in Instances :
          inst[j].loop \in {"stopping", "leaving"} => inst[j].running # None

Next ==
    \/ \E r \in Requests : HttpStep(r) \/ RunJob(r) \/ JobStep(r)
    \/ \E j \in Instances : LoopStep(j)
    \/ \E l \in Loaders : LoaderStep(l)
    \/ \E p \in Admins \ Loaders : StopperStep(p)
    \/ Terminated /\ UNCHANGED vars

\* What the goroutine of a loop does if it is scheduled.  The job that it runs
\* ends if its request is cooperative, and in any case when it finds the flag of
\* vm.Interrupt, which it does not while it waits for a next handler.
LoopGoesOn(j) ==
    \/ LoopStep(j)
    \/ \E r \in Requests :
          /\ req[r].inst = j
          /\ \/ RunJob(r)
             \/ r \in Cooperative /\ EndJob(r)
             \/ Abort(r)

\* Goroutines are scheduled.  Nobody has to send a request, or to call LoadScript
\* or Stop.
Fairness ==
    /\ \A r \in Requests :
          WF_vars((req[r].at # "new" \/ r \in Chained) /\ HttpStep(r))
    /\ \A j \in Instances : WF_vars(LoopGoesOn(j))
    /\ \A l \in Loaders : WF_vars(adm[l].pc # "idle" /\ LoaderStep(l))
    /\ \A p \in Admins \ Loaders :
          WF_vars(/\ adm[p].idx > 0 \/ adm[p].pc # "idle"
                  /\ StopperStep(p))

Spec == Init /\ [][Next]_vars /\ Fairness

-----------------------------------------------------------------------------
(* Properties. *)

\* What a shard points to can serve: its loop runs and has run a program to
\* the end, and nobody has stopped or interrupted it.
InstalledRuns ==
    \A s \in Shards :
        LET j == shards[s]
        IN  j # None => /\ inst[j].loop = "running"
                        /\ inst[j].script # None
                        /\ ~inst[j].interrupted

\* Every running loop has exactly one place from which it will be stopped: a
\* shard, or the LoadScript or Stop call that holds it.  (A LoadScript whose
\* program failed keeps its instance in fresh for ever: that loop leaks.)
Owners(j) ==
    {s \in Shards : shards[s] = j} \cup {p \in Admins : adm[p].fresh = j}
    \cup {p \in Admins : adm[p].old = j}

OneOwner ==
    \A j \in Instances :
        /\ inst[j].loop = "running" => Cardinality(Owners(j)) = 1
        /\ inst[j].loop # "running" => Owners(j) = {}

\* Stop has not been called.
Unstopped == \A p \in Admins \ Loaders : adm[p].pc = "idle" /\ adm[p].idx = 0

\* Until Stop is called, once a LoadScript has succeeded every later request
\* finds an instance, through every reload, failed ones included.
StaysReady ==
    /\ \E l \in Loaders : adm[l].pc = "done"
    /\ Unstopped
    => \A s \in Shards : shards[s] # None

\* A request that has been routed has a shard, and then an instance.
Routed(r) ==
    /\ req[r].at # "new" => req[r].shard \in Shards
    /\ req[r].at \notin {"new", "routed", "answered"} => req[r].inst \in Instances

\* A LoadScript or Stop call holds an instance only between building and
\* swapping it in, or between swapping it out and stopping it.
InProgress(p) ==
    /\ adm[p].idx = NumShards <=> adm[p].pc = "done"
    /\ adm[p].pc \in {"load", "swap"} => adm[p].fresh # None
    /\ adm[p].pc = "swap" => inst[adm[p].fresh].script # None
    /\ adm[p].fresh # None => adm[p].pc \in {"load", "swap", "error"}
    /\ adm[p].old # None => adm[p].pc \in {"stop", "halt"}
    /\ adm[p].pc = "halt" => adm[p].old # None

\* No two places hold the same instance.
HeldApart ==
    /\ \A s \in Shards :
          shards[s] # None =>
              /\ \A t \in Shards \ {s} : shards[t] # shards[s]
              /\ \A p \in Admins : shards[s] \notin {adm[p].fresh, adm[p].old}
    /\ \A p, q \in Admins :
          /\ adm[p].fresh # None => adm[p].fresh # adm[q].old
          /\ adm[p].fresh # None /\ p # q => adm[p].fresh # adm[q].fresh
          /\ adm[p].old # None /\ p # q => adm[p].old # adm[q].old

\* A loop runs exactly as long as a place holds it.
HeldRuns ==
    \A j \in Instances :
        inst[j].loop = "running" <=>
            \/ \E s \in Shards : shards[s] = j
            \/ \E p \in Admins : j \in {adm[p].fresh, adm[p].old}

\* What is interrupted has been swapped out.
InterruptedOut ==
    \A j \in Instances :
        inst[j].interrupted =>
            /\ inst[j].loop # "none"
            /\ \A s \in Shards : shards[s] # j
            /\ \A p \in Admins : adm[p].fresh # j

\* A LoadScript leaves an instance on every shard that it has passed.
PassedReady ==
    Unstopped =>
        \A l \in Loaders, s \in Shards :
            s < adm[l].idx \/ (s = adm[l].idx /\ adm[l].pc \in {"stop", "halt"}) =>
                shards[s] # None

\* The inductive invariant.
IInv ==
    /\ TypeOK
    /\ \A r \in Requests : Routed(r)
    /\ \A p \in Admins : InProgress(p)
    /\ HeldApart
    /\ HeldRuns
    /\ InterruptedOut
    /\ InstalledRuns
    /\ PassedReady

\* Type correctness, and one owner per loop through all interleavings of
\* LoadScript and Stop.  With them the inductive invariant they follow from.
LoopsInv == IInv /\ OneOwner

\* Round-robin: no shard is ever two requests ahead of another.
RoundRobin == \A s, t \in Shards : hits[s] <= hits[t] + 1

\* A routed request is answered, or from some point on it waits for a loop that
\* is stopped, for a job that does not end, in a circle of requests whose next
\* handlers keep the loops of one another, or for what an interrupt has dropped.
AnsweredOrStuck ==
    \A r \in Requests :
        req[r].at = "routed" ~> (req[r].at = "answered" \/ []Stuck(r))

\* r keeps the loop of its instance, waiting for ever for a next handler.
Chains(r) == req[r].at = "serving" /\ Stuck(r)

\* LoadScript and Stop called with interrupt free the loop of a job that would
\* never end, if it was running then, unless it serves a next handler.
InterruptFrees ==
    \A r \in Requests \ Cooperative :
        (\E p \in Interrupting, j \in Instances :
            adm[p].pc = "stop" /\ adm[p].old = j /\ inst[j].running = r)
        ~> ((\A j \in Instances : inst[j].running # r) \/ []Chains(r))
=============================================================================
