---------------------------- MODULE Registration ----------------------------
(***************************************************************************)
(* How a script registers its handler and how requests find it:            *)
(* registerExpressHandler and registerEventHandler of runtime_instance.go  *)
(* and the loads of runtime_handler.go.                                    *)
(*                                                                         *)
(* A registration is three atomic stores, made by the loop: the options,   *)
(* the handler, its type.  A request loads the three one after the other   *)
(* in the opposite order.  A script may register at any time, from a timer *)
(* or from within a handler, while requests are between two loads.         *)
(***************************************************************************)
EXTENDS Integers

CONSTANTS
    Requests, \* HTTP requests that reached this instance
    Calls     \* the calls of a register function are numbered 1 .. Calls

ASSUME CallsAssumption == Calls \in Nat

VARIABLES
    options, handler, type,
             \* handlerOption, middlewareHandler, middlewareType: each holds
             \* the number of the call that stored it; 0 stands for the empty
             \* options, nil and "unset"
    reg,     \* the call in progress, see RegType
    inForce, \* inForce[n]: the options stored when call n stored its handler
    req      \* per request, see RequestType

cells == <<options, handler, type>>
vars == <<cells, reg, inForce, req>>

Call == 0 .. Calls

\* n: the latest call; at: the store it makes next.
RegType == [n : Call, at : {"idle", "options", "handler", "type"}]

\* at: the load it makes next; the other fields: what it has loaded.
RequestType ==
    [at : {"type", "handler", "options", "run", "502"},
     type : Call, handler : Call, options : Call]

\* Types of every variable.
TypeOK ==
    /\ options \in Call /\ handler \in Call /\ type \in Call
    /\ reg \in RegType
    /\ inForce \in [Call -> Call]
    /\ req \in [Requests -> RequestType]

\* getInstance stores empty options and the type "unset".
Init ==
    /\ options = 0 /\ handler = 0 /\ type = 0
    /\ reg = [n |-> 0, at |-> "idle"]
    /\ inForce = [n \in Call |-> 0]
    /\ req = [r \in Requests |->
                 [at |-> "type", type |-> 0, handler |-> 0, options |-> 0]]

-----------------------------------------------------------------------------
(* The script, on the loop: one call at a time. *)

Register ==
    /\ reg.at = "idle"
    /\ reg.n < Calls
    /\ reg' = [n |-> reg.n + 1, at |-> "options"]
    /\ UNCHANGED <<cells, inForce, req>>

\* optionHelper stores the options if the call has any that can be exported;
\* a call without a function stores nothing else.
StoreOptions ==
    /\ reg.at = "options"
    /\ options' \in {options, reg.n}
    /\ \E at \in {"handler", "idle"} : reg' = [reg EXCEPT !.at = at]
    /\ UNCHANGED <<handler, type, inForce, req>>

StoreHandler ==
    /\ reg.at = "handler"
    /\ handler' = reg.n
    /\ inForce' = [inForce EXCEPT ![reg.n] = options]
    /\ reg' = [reg EXCEPT !.at = "type"]
    /\ UNCHANGED <<options, type, req>>

StoreType ==
    /\ reg.at = "type"
    /\ type' = reg.n
    /\ reg' = [reg EXCEPT !.at = "idle"]
    /\ UNCHANGED <<options, handler, inForce, req>>

-----------------------------------------------------------------------------
(* Requests. *)

\* Faulty: a request skips the check of the type.
LoadTypeUnchecked(r) ==
    /\ req[r].at = "type"
    /\ req' = [req EXCEPT ![r].type = type, ![r].at = "handler"]
    /\ UNCHANGED <<cells, reg, inForce>>

\* Middleware: 502 while no handler is registered.
LoadType(r) ==
    /\ req[r].at = "type"
    /\ req' = [req EXCEPT ![r].type = type,
                          ![r].at = IF type = 0 THEN "502" ELSE "handler"]
    /\ UNCHANGED <<cells, reg, inForce>>

\* Faulty: the options are loaded before the handler.
LoadHandlerLast(r) ==
    \/ /\ req[r].at = "handler"
       /\ req' = [req EXCEPT ![r].options = options, ![r].at = "last"]
       /\ UNCHANGED <<cells, reg, inForce>>
    \/ /\ req[r].at = "last"
       /\ req' = [req EXCEPT ![r].handler = handler, ![r].at = "run"]
       /\ UNCHANGED <<cells, reg, inForce>>

\* The first line of handleAsExpress and handleAsEvent.
LoadHandler(r) ==
    /\ req[r].at = "handler"
    /\ req' = [req EXCEPT ![r].handler = handler, ![r].at = "options"]
    /\ UNCHANGED <<cells, reg, inForce>>

\* After the IOContext and the event or RequestContext were taken.
LoadOptions(r) ==
    /\ req[r].at = "options"
    /\ req' = [req EXCEPT ![r].options = options, ![r].at = "run"]
    /\ UNCHANGED <<cells, reg, inForce>>

-----------------------------------------------------------------------------
ScriptStep == Register \/ StoreOptions \/ StoreHandler \/ StoreType

RequestStep(r) == LoadType(r) \/ LoadHandler(r) \/ LoadOptions(r)

Terminated ==
    /\ reg = [n |-> Calls, at |-> "idle"]
    /\ \A r \in Requests : req[r].at \in {"run", "502"}

Next ==
    \/ ScriptStep
    \/ \E r \in Requests : RequestStep(r)
    \/ Terminated /\ UNCHANGED vars

Spec == Init /\ [][Next]_vars

-----------------------------------------------------------------------------
(* Properties. *)

\* A request that was let through finds a handler, one at least as new as the
\* type it saw: the load of a nil handler would end its goroutine.
HandlerStored ==
    \A r \in Requests :
        req[r].at \in {"options", "run"} =>
            0 < req[r].type /\ req[r].type <= req[r].handler

\* It runs that handler with options at least as new as those that were in
\* force when the handler was registered: fetch, if the options of the
\* handler's own call enable it, is there.
OptionsStored ==
    \A r \in Requests :
        req[r].at = "run" => inForce[req[r].handler] <= req[r].options

\* The inductive invariant: the cells are filled in the order of the calls, the
\* type never ahead of the handler, the options never behind what any handler
\* found in force.
CellsInv ==
    /\ type <= handler
    /\ handler <= reg.n
    /\ options <= reg.n
    /\ reg.at \in {"options", "handler"} => handler < reg.n
    /\ reg.at = "type" => handler = reg.n
    /\ \A h \in Call : inForce[h] <= options

\* What a request has loaded is no newer than what is stored.
RequestsInv ==
    \A r \in Requests :
        /\ req[r].at \in {"handler", "options", "run"} =>
              0 < req[r].type /\ req[r].type <= handler
        /\ req[r].handler <= handler

RInv == TypeOK /\ CellsInv /\ RequestsInv /\ HandlerStored /\ OptionsStored
=============================================================================
