---------------------------- MODULE HttpExchange ----------------------------
(***************************************************************************)
(* What net/http expects of a middleware, and what both handler types of   *)
(* the runtime promise: every request gets one status line, its body is    *)
(* finished before the handler returns, and a handler returns without an   *)
(* answer only when the client has gone away.                              *)
(***************************************************************************)
CONSTANT Requests

VARIABLES exchange, \* exchange[r]: how far the exchange of r has come
          gone      \* gone[r]: has the client of r gone away?

vars == <<exchange, gone>>

ExchangeState == {"idle", "open", "answering", "answered", "closed"}

TypeOK ==
    /\ exchange \in [Requests -> ExchangeState]
    /\ gone \in [Requests -> BOOLEAN]

Init ==
    /\ exchange = [r \in Requests |-> "idle"]
    /\ gone = [r \in Requests |-> FALSE]

Move(r, from, to) ==
    /\ exchange[r] = from
    /\ exchange' = [exchange EXCEPT ![r] = to]
    /\ UNCHANGED gone

\* ServeHTTP is called.
Accept(r) == Move(r, "idle", "open")

\* The status line, with the body still to come or together with it.
Answer(r) == \E p \in {"answering", "answered"} : Move(r, "open", p)

FinishBody(r) == Move(r, "answering", "answered")

\* ServeHTTP returns.
Close(r) ==
    \/ Move(r, "answered", "closed")
    \/ gone[r] /\ Move(r, "open", "closed")

Disconnect(r) ==
    /\ gone' = [gone EXCEPT ![r] = TRUE]
    /\ UNCHANGED exchange

Next ==
    \E r \in Requests :
        Accept(r) \/ Answer(r) \/ FinishBody(r) \/ Close(r) \/ Disconnect(r)

Spec == Init /\ [][Next]_vars
=============================================================================
