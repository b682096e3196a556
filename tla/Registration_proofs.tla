------------------------ MODULE Registration_proofs ------------------------
(***************************************************************************)
(* Theorems about Registration, for any number of requests and calls.      *)
(***************************************************************************)
EXTENDS Registration, TLAPS

\* No cell is filled and no request has come.
LEMMA InitHolds == Init => RInv
BY CallsAssumption
   DEF Init, RInv, TypeOK, CellsInv, RequestsInv, HandlerStored, OptionsStored,
       Call, RegType, RequestType

\* What the fields of a request are.
LEMMA RequestFields ==
    ASSUME TypeOK, NEW r \in Requests
    PROVE  /\ req[r].type \in Call /\ req[r].handler \in Call
           /\ req[r].options \in Call
           /\ Call \subseteq Int
<1>1. req[r] \in RequestType
  BY DEF TypeOK
<1>2. req[r].type \in Call /\ req[r].handler \in Call /\ req[r].options \in Call
  BY <1>1 DEF RequestType
<1>3. Call \subseteq Int
  BY CallsAssumption DEF Call
<1> QED
  BY <1>2, <1>3

\* The script's stores keep the invariant: a store of call reg.n is newer than
\* everything stored or loaded so far.
LEMMA ScriptHolds ==
    ASSUME RInv, ScriptStep
    PROVE  RInv'
<1> USE CallsAssumption DEF RInv, Call
<1>1. CASE Register
  <2> DEFINE n == reg.n
  <2>a. n \in Call /\ n < Calls
    BY <1>1 DEF TypeOK, RegType, Register
  <2>b. n + 1 \in Call
    BY <2>a
  <2>c. reg' = [n |-> n + 1, at |-> "options"]
    BY <1>1 DEF Register
  <2> HIDE DEF n
  <2>1. reg'.n = n + 1 /\ reg'.at = "options" /\ reg' \in RegType
    BY <2>b, <2>c DEF RegType
  <2>2. UNCHANGED <<options, handler, type, inForce, req>>
    BY <1>1 DEF Register, cells
  <2>3. TypeOK'
    BY <2>1, <2>2 DEF TypeOK
  <2>4. CellsInv'
    <3>1. handler \in Int /\ options \in Int /\ n \in Int
      BY <2>a DEF TypeOK
    <3>2. handler <= n /\ options <= n
      BY DEF CellsInv, n
    <3>3. \A h \in Call : inForce[h] <= options
      BY DEF CellsInv
    <3>4. type <= handler
      BY DEF CellsInv
    <3> HIDE DEF RInv, Call
    <3> QED
      BY <2>1, <2>2, <3>1, <3>2, <3>3, <3>4 DEF CellsInv
  <2>5. RequestsInv' /\ HandlerStored' /\ OptionsStored'
    BY <2>2 DEF RequestsInv, HandlerStored, OptionsStored
  <2> QED
    BY <2>3, <2>4, <2>5
<1>2. CASE StoreOptions
  <2>1. TypeOK'
    BY <1>2 DEF TypeOK, RegType, RequestType, cells, CellsInv, StoreOptions
  <2>2. CellsInv'
    BY <1>2 DEF TypeOK, RegType, CellsInv, cells, StoreOptions
  <2>3. RequestsInv'
    BY <1>2 DEF TypeOK, RegType, RequestType, CellsInv, RequestsInv, cells, StoreOptions
  <2>4. HandlerStored' /\ OptionsStored'
    BY <1>2 DEF TypeOK, RegType, RequestType, CellsInv, RequestsInv,
                HandlerStored, OptionsStored, cells, StoreOptions
  <2> QED
    BY <2>1, <2>2, <2>3, <2>4
<1>3. CASE StoreHandler
  <2>1. TypeOK'
    BY <1>3 DEF TypeOK, RegType, RequestType, cells, StoreHandler
  <2>2. CellsInv'
    BY <1>3 DEF TypeOK, RegType, CellsInv, StoreHandler
  <2>3. /\ req' = req /\ options' = options
        /\ handler' = reg.n /\ handler < reg.n /\ type' = type
        /\ inForce' = [inForce EXCEPT ![reg.n] = options]
    BY <1>3 DEF StoreHandler, CellsInv
  <2>4. handler \in Int /\ reg.n \in Int /\ inForce \in [Call -> Call]
    BY DEF TypeOK, RegType
  <2>5. ASSUME NEW r \in Requests
        PROVE  /\ req[r].handler <= handler
               /\ req[r].handler \in Int /\ req[r].type \in Int
               /\ req[r].handler \in Call
    BY RequestFields DEF RequestsInv
  <2>6. RequestsInv'
    <3> SUFFICES ASSUME NEW r \in Requests
                 PROVE  /\ req[r].at \in {"handler", "options", "run"} =>
                              0 < req[r].type /\ req[r].type <= reg.n
                        /\ req[r].handler <= reg.n
      BY <2>3 DEF RequestsInv
    <3>1. req[r].at \in {"handler", "options", "run"} =>
              0 < req[r].type /\ req[r].type <= handler
      BY DEF RequestsInv
    <3>2. handler < reg.n
      BY <2>3
    <3>3. /\ req[r].handler <= handler
          /\ req[r].handler \in Int /\ req[r].type \in Int
      BY <2>5
    <3>4. handler \in Int /\ reg.n \in Int
      BY <2>4
    <3> DEFINE n == reg.n  t == req[r].type  h == req[r].handler
               let == req[r].at \in {"handler", "options", "run"}
    <3>5. (let => 0 < t /\ t <= handler) /\ handler < n /\ h <= handler
          /\ h \in Int /\ t \in Int /\ handler \in Int /\ n \in Int
      BY <3>1, <3>2, <3>3, <3>4
    <3> HIDE DEF RInv, n, t, h, let
    <3>6. (let => 0 < t /\ t <= n) /\ h <= n
      BY <3>5
    <3> QED
      BY <3>6 DEF n, t, h, let
  <2>7. HandlerStored'
    BY <2>3 DEF HandlerStored
  <2>8. OptionsStored'
    <3> SUFFICES ASSUME NEW r \in Requests, req[r].at = "run"
                 PROVE  inForce'[req[r].handler] <= req[r].options
      BY <2>3 DEF OptionsStored
    <3>1. req[r].handler # reg.n
      BY <2>3, <2>4, <2>5
    <3>2. inForce'[req[r].handler] = inForce[req[r].handler]
      BY <3>1, <2>3, <2>4, <2>5
    <3> QED
      BY <3>2 DEF OptionsStored
  <2> QED
    BY <2>1, <2>2, <2>6, <2>7, <2>8
<1>4. CASE StoreType
  <2>1. TypeOK'
    BY <1>4 DEF TypeOK, RegType, RequestType, cells, CellsInv, StoreType
  <2>2. CellsInv'
    BY <1>4 DEF TypeOK, RegType, CellsInv, cells, StoreType
  <2>3. RequestsInv'
    BY <1>4 DEF TypeOK, RegType, RequestType, CellsInv, RequestsInv, cells, StoreType
  <2>4. HandlerStored' /\ OptionsStored'
    BY <1>4 DEF TypeOK, RegType, RequestType, CellsInv, RequestsInv,
                HandlerStored, OptionsStored, cells, StoreType
  <2> QED
    BY <2>1, <2>2, <2>3, <2>4
<1> QED
  BY <1>1, <1>2, <1>3, <1>4 DEF ScriptStep

\* The loads of a request keep it.
LEMMA RequestHolds ==
    ASSUME RInv, NEW r \in Requests, RequestStep(r)
    PROVE  RInv'
<1> USE CallsAssumption DEF RInv, Call
<1>1. UNCHANGED <<cells, reg, inForce>>
  BY DEF RequestStep, LoadType, LoadHandler, LoadOptions
<1>2. TypeOK'
  <2>1. req' \in [Requests -> RequestType]
    <3> USE DEF TypeOK, RequestType
    <3>1. CASE LoadType(r)
      BY <3>1 DEF LoadType
    <3>2. CASE LoadHandler(r)
      BY <3>2 DEF LoadHandler
    <3>3. CASE LoadOptions(r)
      BY <3>3 DEF LoadOptions
    <3> QED
      BY <3>1, <3>2, <3>3 DEF RequestStep
  <2> QED
    BY <1>1, <2>1 DEF TypeOK, cells
<1>3. CellsInv'
  BY <1>1 DEF CellsInv, cells
<1>4. ASSUME NEW q \in Requests, q # r PROVE req'[q] = req[q]
  BY <1>4 DEF TypeOK, RequestStep, LoadType, LoadHandler, LoadOptions
<1>5. /\ req[r].type \in Int /\ req[r].handler \in Int
      /\ req[r].handler \in Call
      /\ type \in Int /\ handler \in Int /\ options \in Int
      /\ handler \in Call
      /\ inForce \in [Call -> Call]
  BY RequestFields DEF TypeOK
<1>6. /\ type <= handler /\ 0 <= type
      /\ \A h \in Call : inForce[h] <= options
  BY DEF CellsInv, TypeOK
<1>7. /\ (req[r].at \in {"handler", "options", "run"} =>
              0 < req[r].type /\ req[r].type <= handler)
      /\ req[r].handler <= handler
      /\ (req[r].at \in {"options", "run"} =>
              0 < req[r].type /\ req[r].type <= req[r].handler)
  BY DEF RequestsInv, HandlerStored
<1>8. \/ /\ req'[r].at \in {"handler", "502"} /\ req'[r].type = type
         /\ req'[r].at = "handler" => type # 0
         /\ req'[r].handler = req[r].handler
      \/ /\ req[r].at = "handler" /\ req'[r].at = "options"
         /\ req'[r].type = req[r].type /\ req'[r].handler = handler
      \/ /\ req[r].at = "options" /\ req'[r].at = "run"
         /\ req'[r].type = req[r].type /\ req'[r].handler = req[r].handler
         /\ req'[r].options = options
  <2> USE DEF TypeOK, RequestType
  <2>1. CASE LoadType(r)
    BY <2>1 DEF LoadType
  <2>2. CASE LoadHandler(r)
    BY <2>2 DEF LoadHandler
  <2>3. CASE LoadOptions(r)
    BY <2>3 DEF LoadOptions
  <2> QED
    BY <2>1, <2>2, <2>3 DEF RequestStep
<1>9. handler' = handler /\ inForce' = inForce
  BY <1>1 DEF cells
<1> HIDE DEF RInv, Call
<1>10. RequestsInv'
  <2> SUFFICES ASSUME NEW q \in Requests
               PROVE  /\ req'[q].at \in {"handler", "options", "run"} =>
                            0 < req'[q].type /\ req'[q].type <= handler
                      /\ req'[q].handler <= handler
    BY <1>9 DEF RequestsInv
  <2>1. CASE q = r
    BY <2>1, <1>5, <1>6, <1>7, <1>8
  <2>2. CASE q # r
    BY <2>2, <1>4 DEF RInv, RequestsInv
  <2> QED
    BY <2>1, <2>2
<1>11. HandlerStored'
  <2> SUFFICES ASSUME NEW q \in Requests, req'[q].at \in {"options", "run"}
               PROVE  0 < req'[q].type /\ req'[q].type <= req'[q].handler
    BY DEF HandlerStored
  <2>1. CASE q = r
    BY <2>1, <1>5, <1>7, <1>8
  <2>2. CASE q # r
    BY <2>2, <1>4 DEF RInv, HandlerStored
  <2> QED
    BY <2>1, <2>2
<1>12. OptionsStored'
  <2> SUFFICES ASSUME NEW q \in Requests, req'[q].at = "run"
               PROVE  inForce[req'[q].handler] <= req'[q].options
    BY <1>9 DEF OptionsStored
  <2>1. CASE q = r
    BY <2>1, <1>5, <1>6, <1>8
  <2>2. CASE q # r
    BY <2>2, <1>4 DEF RInv, OptionsStored
  <2> QED
    BY <2>1, <2>2
<1> QED
  BY <1>2, <1>3, <1>10, <1>11, <1>12 DEF RInv

\* The invariant holds in every state.
THEOREM RegistrationInvariance == Spec => []RInv
<1>1. RInv /\ [Next]_vars => RInv'
  <2> SUFFICES ASSUME RInv, [Next]_vars PROVE RInv'
    OBVIOUS
  <2>1. CASE UNCHANGED vars
    BY <2>1 DEF vars, cells, RInv, TypeOK, CellsInv, RequestsInv,
                HandlerStored, OptionsStored, Call, RegType, RequestType
  <2>2. CASE Next
    BY <2>1, <2>2, ScriptHolds, RequestHolds DEF Next
  <2> QED
    BY <2>1, <2>2
<1> QED
  BY <1>1, InitHolds, PTL DEF Spec

\* No request finds a nil handler, or one older than the type it was let in by
\* (runtime_handler.go, the type assertions of handleAsExpress and
\* handleAsEvent).
THEOREM HandlerAlwaysStored == Spec => []HandlerStored
BY RegistrationInvariance, PTL DEF RInv

\* No request runs a handler with options older than those it was registered
\* under.
THEOREM OptionsAlwaysStored == Spec => []OptionsStored
BY RegistrationInvariance, PTL DEF RInv
=============================================================================
