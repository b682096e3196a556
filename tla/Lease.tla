------------------------------- MODULE Lease -------------------------------
(***************************************************************************)
(* What an IOContext promises the rest of the runtime, without saying how. *)
(*                                                                         *)
(* A request is granted the native resources of one FetchEvent (the event, *)
(* its fetcher, its headers, its streams).  The lease ends in two steps:   *)
(* the HTTP handler returns, and later the resources are reclaimed for the *)
(* next request.  Between the two, a hold (an extension registered with    *)
(* waitUntil, an operation in flight) keeps the lease alive.  Nothing can  *)
(* be reclaimed under a hold, and once the handler has returned a hold can *)
(* only be taken while another one is still in place.                      *)
(***************************************************************************)
CONSTANTS Requests, \* the requests served over a behaviour
          Holds     \* the reasons that can keep a lease alive

VARIABLES lease,    \* lease[r]: where the lease of r stands
          holds     \* holds[r]: what keeps the lease of r alive

vars == <<lease, holds>>

LeaseState == {"none", "held", "returned", "reclaimed"}

TypeOK ==
    /\ lease \in [Requests -> LeaseState]
    /\ holds \in [Requests -> SUBSET Holds]

Init ==
    /\ lease = [r \in Requests |-> "none"]
    /\ holds = [r \in Requests |-> {}]

\* The lease of r still lets code of r run.
Alive(r) ==
    \/ lease[r] = "held"
    \/ /\ lease[r] = "returned"
       /\ holds[r] # {}

Grant(r) ==
    /\ lease[r] = "none"
    /\ lease' = [lease EXCEPT ![r] = "held"]
    /\ UNCHANGED holds

Hold(r, h) ==
    /\ Alive(r)
    /\ \A q \in Requests : h \notin holds[q]
    /\ holds' = [holds EXCEPT ![r] = @ \cup {h}]
    /\ UNCHANGED lease

Drop(r, h) ==
    /\ h \in holds[r]
    /\ holds' = [holds EXCEPT ![r] = @ \ {h}]
    /\ UNCHANGED lease

Return(r) ==
    /\ lease[r] = "held"
    /\ lease' = [lease EXCEPT ![r] = "returned"]
    /\ UNCHANGED holds

Reclaim(r) ==
    /\ lease[r] = "returned"
    /\ holds[r] = {}
    /\ lease' = [lease EXCEPT ![r] = "reclaimed"]
    /\ UNCHANGED holds

Next ==
    \E r \in Requests :
        \/ Grant(r)
        \/ Return(r)
        \/ Reclaim(r)
        \/ \E h \in Holds : Hold(r, h) \/ Drop(r, h)

Spec == Init /\ [][Next]_vars
=============================================================================
