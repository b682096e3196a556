---------------------------- MODULE Resources_proofs ----------------------------
(***************************************************************************)
(* Theorems about Resources, for any sets of requests and objects and any  *)
(* capacity: every object in use has one holder, what is pooled is clean,  *)
(* and what code of a request can reach stays its own while it runs.       *)
(***************************************************************************)
EXTENDS Resources, SequenceTheorems, FiniteSetTheorems, TLAPS

-----------------------------------------------------------------------------
(* Cleanups. *)

CleanupType == [do : {"put", "reset"}, obj : Objects]

\* Registering a cleanup adds a slot behind the others.
LEMMA Registered ==
    ASSUME TypeOK, NEW r \in Requests, NEW c \in CleanupType,
           cleanup' = [cleanup EXCEPT ![r] = Append(@, c)]
    PROVE  LET n == Len(cleanup[r]) + 1 IN
           /\ cleanup' \in [Requests -> Seq(CleanupType)]
           /\ cleanup'[r] # <<>> /\ \A q \in Requests \ {r} : cleanup'[q] = cleanup[q]
           /\ \A q \in Requests : \A i, o :
                 /\ Puts(q, i, o)' <=>
                       \/ Puts(q, i, o)
                       \/ q = r /\ i = n /\ c = [do |-> "put", obj |-> o]
                 /\ Resets(q, i, o)' <=>
                       \/ Resets(q, i, o)
                       \/ q = r /\ i = n /\ c = [do |-> "reset", obj |-> o]
           /\ \A i, o : Puts(r, i, o) \/ Resets(r, i, o) => i \in Int /\ i < n
<1>1. cleanup \in [Requests -> Seq(CleanupType)]
  BY DEF TypeOK, CleanupType
<1>2. Len(cleanup[r]) \in Nat
  BY <1>1, LenProperties
<1>3. /\ cleanup'[r] = Append(cleanup[r], c)
      /\ \A q \in Requests \ {r} : cleanup'[q] = cleanup[q]
  BY <1>1
<1>4. /\ cleanup'[r] \in Seq(CleanupType) /\ cleanup'[r] # <<>>
      /\ Len(cleanup'[r]) = Len(cleanup[r]) + 1
      /\ \A i \in 1 .. Len(cleanup[r]) : cleanup'[r][i] = cleanup[r][i]
      /\ cleanup'[r][Len(cleanup[r]) + 1] = c
  BY <1>1, <1>3, AppendProperties
<1>5. cleanup' \in [Requests -> Seq(CleanupType)]
  BY <1>1, <1>4
<1>6. ASSUME NEW q \in Requests, NEW i, NEW x
      PROVE  (i \in 1 .. Len(cleanup'[q]) /\ cleanup'[q][i] = x) <=>
                \/ i \in 1 .. Len(cleanup[q]) /\ cleanup[q][i] = x
                \/ q = r /\ i = Len(cleanup[r]) + 1 /\ c = x
  <2>1. CASE q = r
    BY <1>2, <1>4, <2>1
  <2>2. CASE q # r
    BY <1>3, <2>2
  <2> QED
    BY <2>1, <2>2
<1> QED
  BY <1>2, <1>3, <1>4, <1>5, <1>6 DEF Puts, Resets, Slots

\* Running the last cleanup removes its slot.
LEMMA Popped ==
    ASSUME TypeOK, NEW r \in Requests, cleanup[r] # <<>>,
           cleanup' = [cleanup EXCEPT ![r] = SubSeq(@, 1, Len(@) - 1)]
    PROVE  LET n == Len(cleanup[r]) IN
           /\ cleanup[r][n] \in CleanupType
           /\ cleanup' \in [Requests -> Seq(CleanupType)]
           /\ \A q \in Requests \ {r} : cleanup'[q] = cleanup[q]
           /\ \A q \in Requests : \A i, o :
                 /\ Puts(q, i, o)' <=> Puts(q, i, o) /\ ~(q = r /\ i = n)
                 /\ Resets(q, i, o)' <=> Resets(q, i, o) /\ ~(q = r /\ i = n)
           /\ \A i, o : Puts(r, i, o) \/ Resets(r, i, o) => i \in Int /\ i <= n
           /\ \A o : /\ Puts(r, n, o) <=> cleanup[r][n] = [do |-> "put", obj |-> o]
                     /\ Resets(r, n, o) <=> cleanup[r][n] = [do |-> "reset", obj |-> o]
<1> DEFINE n == Len(cleanup[r])
<1>1. cleanup \in [Requests -> Seq(CleanupType)]
  BY DEF TypeOK, CleanupType
<1>2. n \in Nat \ {0} /\ \A i \in 1 .. n : cleanup[r][i] \in CleanupType
  BY <1>1, LenProperties, EmptySeq, ElementOfSeq
<1>3. /\ cleanup'[r] = SubSeq(cleanup[r], 1, n - 1)
      /\ \A q \in Requests \ {r} : cleanup'[q] = cleanup[q]
  BY <1>1
<1>4. /\ cleanup'[r] \in Seq(CleanupType)
      /\ Len(cleanup'[r]) = n - 1
      /\ \A i \in 1 .. n - 1 : cleanup'[r][i] = cleanup[r][i]
  <2>1. 1 \in Int /\ n - 1 \in Int /\ \A i \in 1 .. n - 1 : cleanup[r][i] \in CleanupType
    BY <1>2
  <2>2. /\ SubSeq(cleanup[r], 1, n - 1) \in Seq(CleanupType)
        /\ Len(SubSeq(cleanup[r], 1, n - 1)) =
              IF 1 <= n - 1 THEN (n - 1) - 1 + 1 ELSE 0
        /\ \A i \in 1 .. (n - 1) - 1 + 1 :
              SubSeq(cleanup[r], 1, n - 1)[i] = cleanup[r][1 + i - 1]
    BY <2>1, SubSeqProperties
  <2> QED
    BY <1>2, <1>3, <2>2
<1>5. cleanup' \in [Requests -> Seq(CleanupType)]
  BY <1>1, <1>4
<1> HIDE DEF n
<1>6. ASSUME NEW q \in Requests, NEW i, NEW x
      PROVE  (i \in 1 .. Len(cleanup'[q]) /\ cleanup'[q][i] = x) <=>
                /\ i \in 1 .. Len(cleanup[q]) /\ cleanup[q][i] = x
                /\ ~(q = r /\ i = n)
  <2>1. CASE q = r
    BY <1>2, <1>4, <2>1 DEF n
  <2>2. CASE q # r
    BY <1>3, <2>2
  <2> QED
    BY <2>1, <2>2
<1> QED
  BY <1>2, <1>3, <1>5, <1>6 DEF Puts, Resets, Slots, n

-----------------------------------------------------------------------------
(* What is held by whom. *)

Static == HeldOnce /\ BoundToHolder /\ ResetBeforePut /\ ProxyBeforeFetcher

Dirty(o) == obj[o].of # None \/ obj[o].refs # {}

\* The same with the positions of cleanups left unbounded.
UsedIsPut ==
    \A o \in Objects : obj[o].at = "used" => \E r \in Requests : \E i : Puts(r, i, o)
PutIsUsed ==
    \A o \in Objects, r \in Requests : \A i :
        Puts(r, i, o) =>
            /\ obj[o].at = "used"
            /\ obj[o].of = r \/ (o \in Responses /\ obj[o].of = None)
PutOnce ==
    \A o \in Objects, q, r \in Requests : \A i, j :
        Puts(r, i, o) /\ Puts(q, j, o) => q = r /\ j = i
UnusedClean == \A o \in Objects : obj[o].at # "used" => ~Dirty(o)
ResetIsPut ==
    \A o \in Objects, r \in Requests : \A i :
        Resets(r, i, o) => o \in Responses /\ \E j : j < i /\ Puts(r, j, o)
DirtyIsReset ==
    \A o \in Responses, r \in Requests : \A i :
        Puts(r, i, o) /\ Dirty(o) => \E j : i < j /\ Resets(r, j, o)
CallIsPut ==
    \A p \in Responses :
        call[p].at # "none" =>
            \E f \in Fetchers :
                /\ call[p].by = f
                /\ \E r \in Requests : \E i, j :
                      i < j /\ Puts(r, i, f) /\ Puts(r, j, p)

Parts ==
    /\ UsedIsPut /\ PutIsUsed /\ PutOnce /\ UnusedClean
    /\ ResetIsPut /\ DirtyIsReset /\ CallIsPut

\* Cleanups stand in slots.
LEMMA StaticIsParts == Static <=> Parts
<1>1. HeldOnce /\ BoundToHolder <=> UsedIsPut /\ PutIsUsed /\ PutOnce /\ UnusedClean
  <2>1. \A r, i, o : Puts(r, i, o) => i \in Slots(r)
    BY DEF Puts
  <2>2. ASSUME HeldOnce, BoundToHolder
        PROVE  UsedIsPut /\ PutIsUsed /\ PutOnce /\ UnusedClean
    <3>1. UsedIsPut
      BY <2>2 DEF HeldOnce, UsedIsPut
    <3>2. PutIsUsed
      BY <2>1, <2>2 DEF HeldOnce, BoundToHolder, PutIsUsed
    <3>3. PutOnce
      BY <2>1, <2>2 DEF HeldOnce, PutOnce
    <3>4. UnusedClean
      BY <2>2 DEF BoundToHolder, UnusedClean, Dirty
    <3> QED
      BY <3>1, <3>2, <3>3, <3>4
  <2>3. ASSUME UsedIsPut, PutIsUsed, PutOnce, UnusedClean
        PROVE  HeldOnce /\ BoundToHolder
    <3>1. HeldOnce
      BY <2>1, <2>3 DEF HeldOnce, UsedIsPut, PutIsUsed, PutOnce
    <3>2. BoundToHolder
      BY <2>3 DEF BoundToHolder, PutIsUsed, UnusedClean, Dirty
    <3> QED
      BY <3>1, <3>2
  <2> QED
    BY <2>2, <2>3
<1>2. ResetBeforePut <=> ResetIsPut /\ DirtyIsReset
  BY DEF ResetBeforePut, ResetIsPut, DirtyIsReset, Dirty, Puts, Resets, Objects
<1>3. ProxyBeforeFetcher <=> CallIsPut
  <2>1. \A r, i, o : Puts(r, i, o) => i \in Slots(r)
    BY DEF Puts
  <2>2. ASSUME NEW p \in Responses, NEW f
        PROVE  (\E r \in Requests : \E i, j \in Slots(r) :
                    i < j /\ Puts(r, i, f) /\ Puts(r, j, p))
               <=> (\E r \in Requests : \E i, j :
                        i < j /\ Puts(r, i, f) /\ Puts(r, j, p))
    BY <2>1
  <2>3. ASSUME NEW p \in Responses
        PROVE  (/\ call[p].by \in Fetchers
                /\ \E r \in Requests : \E i, j \in Slots(r) :
                      i < j /\ Puts(r, i, call[p].by) /\ Puts(r, j, p))
               <=> (\E f \in Fetchers :
                        /\ call[p].by = f
                        /\ \E r \in Requests : \E i, j :
                              i < j /\ Puts(r, i, f) /\ Puts(r, j, p))
    BY <2>2
  <2> QED
    BY <2>3 DEF ProxyBeforeFetcher, CallIsPut
<1> QED
  BY <1>1, <1>2, <1>3 DEF Static, Parts

\* The same after a step.
LEMMA StaticIsPartsPrimed == Static' <=> Parts'
BY StaticIsParts, PTL

\* What the invariant says in these terms.
LEMMA Facts ==
    ASSUME IInv
    PROVE  /\ Parts
           /\ obj \in [Objects -> ObjType]
           /\ call \in [Responses -> CallType]
           /\ reader \in [Streams -> Requests \cup {None}]
           /\ cleanup \in [Requests -> Seq(CleanupType)]
           /\ lease \in [Requests -> L!LeaseState]
           /\ holds \in [Requests -> SUBSET (Extensions \cup Responses)]
<1>1. Static
  BY DEF IInv, Static
<1> QED
  BY <1>1, StaticIsParts DEF IInv, TypeOK, CleanupType, L!TypeOK

\* Object o is taken: it is put back by a cleanup of r from now on.  The other
\* objects stay what they are, except that one in use may refer to o.
LEMMA Taken ==
    ASSUME IInv, NEW r \in Requests, NEW o \in Objects, obj[o].at # "used",
           obj' \in [Objects -> ObjType],
           obj'[o].at = "used", obj'[o].refs = {},
           obj'[o].of = IF o \in Responses THEN None ELSE r,
           \A x \in Objects \ {o} :
               /\ obj'[x].at = obj[x].at /\ obj'[x].of = obj[x].of
               /\ \/ obj'[x].refs = obj[x].refs
                  \/ obj[x].at = "used" /\ obj[x].of # None,
           cleanup' = ThenPut(r, o),
           \A p \in Responses :
               \/ call'[p] = call[p]
               \/ /\ p = o /\ call'[p].by \in Fetchers
                  /\ \E i : Puts(r, i, call'[p].by)
    PROVE  Static'
<1> DEFINE n == Len(cleanup[r]) + 1
<1>1. Parts
  BY Facts
<1>2. /\ \A q \in Requests : \A i : \A x \in Objects :
            /\ Puts(q, i, x)' <=> Puts(q, i, x) \/ (q = r /\ i = n /\ x = o)
            /\ Resets(q, i, x)' <=> Resets(q, i, x)
      /\ \A i, x : Puts(r, i, x) \/ Resets(r, i, x) => i \in Int /\ i < n
  <2> DEFINE c == [do |-> "put", obj |-> o]
  <2>1. c \in CleanupType /\ cleanup' = [cleanup EXCEPT ![r] = Append(@, c)] /\ TypeOK
    BY DEF CleanupType, ThenPut, IInv
  <2>2. \A x : /\ c = [do |-> "put", obj |-> x] <=> x = o
               /\ c # [do |-> "reset", obj |-> x]
    OBVIOUS
  <2> HIDE DEF c
  <2>3. /\ \A q \in Requests : \A i, x :
              /\ Puts(q, i, x)' <=>
                    \/ Puts(q, i, x)
                    \/ q = r /\ i = n /\ c = [do |-> "put", obj |-> x]
              /\ Resets(q, i, x)' <=>
                    \/ Resets(q, i, x)
                    \/ q = r /\ i = n /\ c = [do |-> "reset", obj |-> x]
        /\ \A i, x : Puts(r, i, x) \/ Resets(r, i, x) => i \in Int /\ i < n
    BY <2>1, Registered
  <2> QED
    BY <2>2, <2>3
<1> HIDE DEF n
<1>3. \A q \in Requests : \A i : ~Puts(q, i, o) /\ ~Resets(q, i, o)
  BY <1>1 DEF Parts, PutIsUsed, ResetIsPut
<1>4. UsedIsPut'
  BY <1>1, <1>2 DEF Parts, UsedIsPut
<1>5. PutIsUsed'
  BY <1>1, <1>2, <1>3 DEF Parts, PutIsUsed
<1>6. PutOnce'
  BY <1>1, <1>2, <1>3 DEF Parts, PutOnce
<1>7. UnusedClean'
  BY <1>1 DEF Parts, UnusedClean, Dirty
<1>8. ResetIsPut'
  BY <1>1, <1>2 DEF Parts, ResetIsPut
<1>9. DirtyIsReset'
  <2> SUFFICES ASSUME NEW p \in Responses, NEW q \in Requests, NEW i,
                      Puts(q, i, p)', Dirty(p)'
               PROVE  \E j : i < j /\ Resets(q, j, p)'
    BY DEF DirtyIsReset
  <2>1. p \in Objects
    BY DEF Objects
  <2>2. p # o
    BY DEF Dirty
  <2>3. Puts(q, i, p) /\ Dirty(p)
    BY <1>2, <2>1, <2>2 DEF Dirty
  <2>4. PICK j : i < j /\ Resets(q, j, p)
    BY <1>1, <2>3 DEF Parts, DirtyIsReset
  <2> QED
    BY <1>2, <2>1, <2>4
<1>10. CallIsPut'
  <2> SUFFICES ASSUME NEW p \in Responses, call'[p].at # "none"
               PROVE  \E f \in Fetchers :
                          /\ call'[p].by = f
                          /\ \E q \in Requests : \E i, j :
                                i < j /\ Puts(q, i, f)' /\ Puts(q, j, p)'
    BY DEF CallIsPut
  <2>0. p \in Objects /\ Fetchers \subseteq Objects
    BY DEF Objects
  <2>1. CASE call'[p] = call[p]
    <3>1. PICK f, q, i, j :
              /\ f \in Fetchers /\ q \in Requests
              /\ call[p].by = f
              /\ i < j /\ Puts(q, i, f) /\ Puts(q, j, p)
      BY <1>1, <2>1 DEF Parts, CallIsPut
    <3> QED
      BY <1>2, <2>0, <2>1, <3>1
  <2>2. ASSUME p = o, call'[p].by \in Fetchers, \E i : Puts(r, i, call'[p].by)
        PROVE  \E f \in Fetchers :
                   /\ call'[p].by = f
                   /\ \E q \in Requests : \E i, j :
                         i < j /\ Puts(q, i, f)' /\ Puts(q, j, p)'
    <3>1. PICK f, i : f \in Fetchers /\ call'[p].by = f /\ Puts(r, i, f)
      BY <2>2
    <3>2. PICK k : k = n
      OBVIOUS
    <3>3. i < k /\ Puts(r, i, f)' /\ Puts(r, k, p)'
      BY <1>2, <2>0, <2>2, <3>1, <3>2
    <3> QED
      BY <3>1, <3>3
  <2> QED
    BY <2>1, <2>2
<1>11. Parts'
  BY <1>4, <1>5, <1>6, <1>7, <1>8, <1>9, <1>10 DEF Parts
<1> QED
  BY <1>11, StaticIsPartsPrimed

\* What is bound to a request is in use and awaits a cleanup of it.
LEMMA Bound ==
    ASSUME IInv, NEW o \in Objects, NEW r \in Requests, obj[o].of = r
    PROVE  obj[o].at = "used" /\ \E i : Puts(r, i, o)
<1>1. Parts /\ r # None
  BY Facts, NoneAssumption
<1>2. obj[o].at = "used"
  BY <1>1 DEF Parts, UnusedClean, Dirty
<1>3. PICK q, i : q \in Requests /\ Puts(q, i, o)
  BY <1>1, <1>2 DEF Parts, UsedIsPut
<1> QED
  BY <1>1, <1>2, <1>3 DEF Parts, PutIsUsed

\* The fetcher and the response proxy of a call await cleanups of one request.
LEMMA CallFacts ==
    ASSUME IInv, NEW p \in Responses, call[p].at # "none"
    PROVE  /\ call[p].by \in Fetchers /\ call[p].by \in Objects /\ p \in Objects
           /\ call[p].by # p
           /\ obj[call[p].by].at = "used" /\ obj[p].at = "used"
           /\ obj[call[p].by].of \in Requests
           /\ obj[p].of \in {None, obj[call[p].by].of}
           /\ \E i, j : /\ i < j /\ Puts(obj[call[p].by].of, i, call[p].by)
                        /\ Puts(obj[call[p].by].of, j, p)
<1>0. PICK f \in Fetchers :
          /\ call[p].by = f
          /\ \E r \in Requests : \E i, j : i < j /\ Puts(r, i, f) /\ Puts(r, j, p)
  BY Facts DEF Parts, CallIsPut
<1>1. PICK r, i, j :
          /\ r \in Requests
          /\ call[p].by = f /\ i < j /\ Puts(r, i, f) /\ Puts(r, j, p)
  BY <1>0
<1>2. f \in Objects /\ p \in Objects /\ f \notin Responses
  BY TypesAssumption DEF Objects
<1>3. obj[f].at = "used" /\ obj[f].of = r
  BY <1>1, <1>2, Facts DEF Parts, PutIsUsed
<1>4. obj[p].at = "used" /\ obj[p].of \in {None, r}
  BY <1>1, <1>2, Facts DEF Parts, PutIsUsed
<1> QED
  BY <1>1, <1>2, <1>3, <1>4

Pending == {"called", "doing", "posted", "failed"}

\* A step of calls, readers and leases leaves the objects to their holders.
LEMMA Moves ==
    ASSUME IInv, UNCHANGED <<obj, cleanup>>, TypeOK', Awaited', OwnReader',
           \A p \in Responses :
               \/ call'[p] = call[p]
               \/ call'[p].at = "none"
               \/ /\ call[p].at \in Pending /\ call'[p].at \in Pending
                  /\ call'[p].by = call[p].by,
           \A q \in Requests :
               /\ Runs(q)' => Runs(q)
               /\ lease'[q] = "none" => lease[q] = "none" /\ holds'[q] = {}
    PROVE  IInv'
<1>1. Static'
  <2>1. \A q, i, o : /\ Puts(q, i, o)' <=> Puts(q, i, o)
                     /\ Resets(q, i, o)' <=> Resets(q, i, o)
    BY DEF Puts, Resets, Slots
  <2>2. Parts
    BY Facts
  <2>3. UsedIsPut' /\ PutIsUsed' /\ PutOnce'
    BY <2>1, <2>2 DEF Parts, UsedIsPut, PutIsUsed, PutOnce
  <2>4. UnusedClean' /\ ResetIsPut' /\ DirtyIsReset'
    BY <2>1, <2>2 DEF Parts, UnusedClean, ResetIsPut, DirtyIsReset, Dirty
  <2>5. CallIsPut'
    <3>1. \A p \in Responses : call'[p].at # "none" =>
              call[p].at # "none" /\ call'[p].by = call[p].by
      BY DEF Pending
    <3> QED
      BY <2>1, <2>2, <3>1 DEF Parts, CallIsPut
  <2>6. Parts'
    BY <2>3, <2>4, <2>5 DEF Parts
  <2> QED
    BY <2>6, StaticIsPartsPrimed
<1>2. \A p \in Responses : call'[p].at = "answered" => call'[p] = call[p]
  BY DEF Pending
<1>3. OwnReach'
  <2> SUFFICES ASSUME NEW q \in Requests, Runs(q)'
               PROVE  /\ \E e \in Events : obj'[e].of = q /\ obj'[e].at = "used"
                      /\ \A u \in Uses(q)' : \A o \in obj'[u].refs \cup {u} :
                            obj'[o].at = "used" /\ obj'[o].of = q
    BY DEF OwnReach
  <2>1. \A u : u \in Uses(q)' => u \in Uses(q)
    BY <1>2 DEF Uses
  <2> QED
    BY <2>1 DEF IInv, OwnObjects, OwnReach
<1>4. AnswersStay'
  <2> SUFFICES ASSUME NEW p \in Responses, call'[p].at = "answered",
                      obj'[call'[p].by].of # None, Runs(obj[call[p].by].of)'
               PROVE  obj'[p].of = obj'[call'[p].by].of
    BY DEF AnswersStay
  <2>1. PICK q \in Requests : obj'[call'[p].by].of = q
    BY <1>2, CallFacts
  <2>2. Runs(q)'
    BY <2>1 DEF Runs
  <2>3. Runs(q) /\ obj[call[p].by].of = q /\ call[p].at = "answered"
    BY <1>2, <2>1, <2>2
  <2>4. q # None
    BY NoneAssumption
  <2> QED
    BY <1>2, <2>1, <2>3, <2>4 DEF IInv, OwnObjects, AnswersStay
<1>5. Unbegun'
  BY DEF IInv, Unbegun
<1> QED
  BY <1>1, <1>3, <1>4, <1>5 DEF IInv, OwnObjects, Static

\* Code that runs until now, which a step of the lease leaves to run or ends.
LEMMA LeaseSteps ==
    ASSUME IInv, NEW r \in Requests,
           \/ Return(r) \/ Reclaim(r)
           \/ \E x \in Extensions : WaitUntil(r, x) \/ Conclude(r, x)
    PROVE  IInv'
<1>1. /\ lease \in [Requests -> L!LeaseState]
      /\ holds \in [Requests -> SUBSET (Extensions \cup Responses)]
      /\ UNCHANGED <<obj, call, reader, cleanup>>
  BY Facts DEF Return, Reclaim, WaitUntil, Conclude
<1>2. \A q \in Requests \ {r} : lease'[q] = lease[q] /\ holds'[q] = holds[q]
  BY <1>1 DEF Return, Reclaim, WaitUntil, Conclude, L!Return, L!Reclaim, L!Hold,
              L!Drop
<1>3. TypeOK'
  <2>1. L!TypeOK'
    BY <1>1 DEF Return, Reclaim, WaitUntil, Conclude, L!Return, L!Reclaim, L!Hold,
                L!Drop, L!TypeOK, L!LeaseState
  <2> QED
    BY <1>1, <2>1 DEF IInv, TypeOK
<1>4. /\ Runs(r)' => Runs(r)
      /\ lease'[r] = "none" => lease[r] = "none" /\ holds'[r] = {}
      /\ Runs(r) => Runs(r)' \/ Idle(r)
  <2>1. lease[r] = "none" => holds[r] = {}
    BY DEF IInv, Unbegun
  <2>2. CASE Return(r)
    BY <1>1, <2>2 DEF Return, L!Return, Runs
  <2>3. CASE Reclaim(r)
    BY <1>1, <2>3 DEF Reclaim, L!Reclaim, Runs
  <2>4. ASSUME NEW x \in Extensions, WaitUntil(r, x)
        PROVE  <1>4!:
    BY <1>1, <2>1, <2>4 DEF WaitUntil, L!Hold, L!Alive, Runs
  <2>5. ASSUME NEW x \in Extensions, Conclude(r, x)
        PROVE  <1>4!:
    BY <1>1, <2>1, <2>5 DEF Conclude, L!Drop, Runs
  <2> QED
    BY <2>2, <2>3, <2>4, <2>5
<1>5. Awaited'
  <2>1. \A q \in Requests : Runs(q) => Runs(q)' \/ Idle(q)
    BY <1>2, <1>4 DEF Runs
  <2>2. ASSUME NEW p \in Responses, call[p].at \in Pending
        PROVE  Runs(obj[call[p].by].of)'
    <3>1. PICK q \in Requests : obj[call[p].by].of = q
      BY <2>2, CallFacts DEF Pending
    <3>2. Runs(q) /\ ~Idle(q)
      BY <2>2, <3>1 DEF IInv, Awaited, Idle, Pending
    <3> QED
      BY <1>1, <2>1, <3>1, <3>2 DEF Runs
  <2>3. ASSUME NEW s \in Streams, reader[s] # None
        PROVE  Runs(reader[s])'
    <3>1. PICK q \in Requests : reader[s] = q
      BY <2>3, Facts
    <3>2. Runs(q) /\ ~Idle(q)
      BY <2>3, <3>1 DEF IInv, Awaited, Idle
    <3> QED
      BY <1>1, <2>1, <3>1, <3>2 DEF Runs
  <2> QED
    BY <1>1, <2>2, <2>3 DEF Awaited, Pending
<1>6. OwnReader'
  BY <1>1 DEF IInv, OwnObjects, OwnReader
<1>7. \A q \in Requests : /\ Runs(q)' => Runs(q)
                          /\ lease'[q] = "none" => lease[q] = "none" /\ holds'[q] = {}
  BY <1>2, <1>4 DEF Runs, IInv, Unbegun
<1> QED
  BY <1>1, <1>3, <1>5, <1>6, <1>7, Moves

\* A fetch moves on, or gives its token back; it is awaited until it is over.
LEMMA CallSteps ==
    ASSUME IInv, NEW p \in Responses,
           \/ Acquire(p) \/ AcquireFails(p) \/ Do(p) \/ ReleaseToken(p)
           \/ Reject(p)
    PROVE  IInv'
<1>1. /\ lease \in [Requests -> L!LeaseState]
      /\ holds \in [Requests -> SUBSET (Extensions \cup Responses)]
      /\ call \in [Responses -> CallType] /\ p \notin Extensions
      /\ UNCHANGED <<obj, reader, cleanup>>
  BY Facts, TypesAssumption DEF Acquire, AcquireFails, Do, ReleaseToken, Reject
<1>2. /\ holds' \in [Requests -> SUBSET (Extensions \cup Responses)]
      /\ lease' = lease
      /\ \A q \in Requests : /\ holds'[q] \cap Extensions = holds[q] \cap Extensions
                             /\ lease[q] = "none" => holds'[q] = {}
  <2>1. \A q \in Requests : lease[q] = "none" => holds[q] = {}
    BY DEF IInv, Unbegun
  <2>2. CASE Acquire(p)
    <3>1. PICK r \in Requests : obj[call[p].by].of = r
      BY <2>2, CallFacts DEF Acquire
    <3>2. L!Hold(r, p)
      BY <2>2, <3>1 DEF Acquire
    <3> QED
      BY <1>1, <2>1, <3>2 DEF L!Hold, L!Alive
  <2>3. CASE ReleaseToken(p)
    <3>1. PICK r \in Requests : L!Drop(r, p)
      BY <2>3 DEF ReleaseToken
    <3> QED
      BY <1>1, <2>1, <3>1 DEF L!Drop
  <2>4. CASE AcquireFails(p) \/ Do(p) \/ Reject(p)
    BY <1>1, <2>1, <2>4 DEF AcquireFails, Do, Reject, leaseVars
  <2> QED
    BY <2>2, <2>3, <2>4
<1>3. \A q \in Requests : /\ Runs(q)' <=> Runs(q)
                          /\ lease'[q] = "none" => lease[q] = "none" /\ holds'[q] = {}
  BY <1>2 DEF Runs
<1>4. /\ call' \in [Responses -> CallType]
      /\ \A x \in Responses \ {p} : call'[x] = call[x]
      /\ \/ call'[p] = call[p]
         \/ call'[p].at = "none"
         \/ /\ call[p].at \in Pending /\ call'[p].at \in Pending
            /\ call'[p].by = call[p].by
  BY <1>1 DEF Acquire, AcquireFails, Do, ReleaseToken, Reject, CallMoves, CallType, NoCall, Pending
<1>5. TypeOK'
  BY <1>1, <1>2, <1>4 DEF IInv, TypeOK, L!TypeOK
<1>6. Awaited'
  <2>1. ASSUME NEW x \in Responses, call'[x].at \in Pending
        PROVE  Runs(obj[call[x].by].of)'
    <3>1. call[x].at \in Pending /\ call'[x].by = call[x].by
      BY <1>4, <2>1 DEF Pending
    <3>2. PICK q \in Requests : obj[call[x].by].of = q
      BY <3>1, CallFacts DEF Pending
    <3>3. Runs(q)
      BY <3>1, <3>2 DEF IInv, Awaited, Pending
    <3> QED
      BY <1>1, <1>3, <3>1, <3>2, <3>3 DEF Runs
  <2>2. ASSUME NEW s \in Streams, reader'[s] # None
        PROVE  Runs(reader[s])'
    <3>1. PICK q \in Requests : reader[s] = q
      BY <1>1, <2>2, Facts
    <3>2. Runs(q)
      BY <1>1, <2>2, <3>1 DEF IInv, Awaited
    <3> QED
      BY <1>1, <1>3, <3>1, <3>2 DEF Runs
  <2> QED
    BY <2>1, <2>2 DEF Awaited, Pending
<1>7. OwnReader'
  BY <1>1 DEF IInv, OwnObjects, OwnReader
<1> QED
  BY <1>1, <1>3, <1>4, <1>5, <1>6, <1>7, Moves

\* A read begins in a stream that code of its request can reach, or it ends.
LEMMA ReaderSteps ==
    ASSUME IInv, NEW s \in Streams,
           Read(s) \/ \E r \in Requests : StartRead(r, s)
    PROVE  IInv'
<1>1. /\ reader \in [Streams -> Requests \cup {None}]
      /\ UNCHANGED <<obj, call, cleanup, lease, holds>>
  BY Facts DEF Read, StartRead, leaseVars
<1>2. \A q \in Requests : /\ Runs(q)' <=> Runs(q)
                          /\ lease'[q] = "none" => lease[q] = "none" /\ holds'[q] = {}
  BY <1>1 DEF Runs, IInv, Unbegun
<1>3. /\ reader' \in [Streams -> Requests \cup {None}]
      /\ \A t \in Streams \ {s} : reader'[t] = reader[t]
      /\ \/ reader'[s] = None
         \/ \E r \in Requests : reader'[s] = r /\ Runs(r) /\ obj[s].of = r
  <2>1. CASE Read(s)
    BY <1>1, <2>1 DEF Read
  <2>2. ASSUME NEW r \in Requests, StartRead(r, s)
        PROVE  Runs(r) /\ obj[s].of = r /\ reader' = [reader EXCEPT ![s] = r]
    BY <2>2 DEF StartRead, IInv, OwnObjects, OwnReach
  <2> QED
    BY <1>1, <2>1, <2>2
<1>4. TypeOK'
  BY <1>1, <1>3 DEF IInv, TypeOK, L!TypeOK
<1>5. \A t \in Streams : reader'[t] # None =>
          \E q \in Requests : reader'[t] = q /\ Runs(q) /\ obj[t].of = q
  <2> SUFFICES ASSUME NEW t \in Streams, reader'[t] # None, t # s
               PROVE  \E q \in Requests : reader'[t] = q /\ Runs(q) /\ obj[t].of = q
    BY <1>3
  <2>1. reader[t] # None /\ reader'[t] = reader[t]
    BY <1>3
  <2> QED
    BY <1>1, <2>1 DEF IInv, Awaited, OwnObjects, OwnReader
<1>6. Awaited'
  <2>1. ASSUME NEW t \in Streams, reader'[t] # None
        PROVE  Runs(reader[t])'
    BY <1>2, <1>5, <2>1 DEF Runs
  <2>2. ASSUME NEW p \in Responses, call[p].at \in Pending
        PROVE  Runs(obj[call[p].by].of)'
    BY <1>1, <2>2 DEF IInv, Awaited, Runs, Pending
  <2> QED
    BY <1>1, <2>1, <2>2 DEF Awaited, Pending
<1>7. OwnReader'
  BY <1>1, <1>5 DEF OwnReader
<1> QED
  BY <1>1, <1>2, <1>4, <1>6, <1>7, Moves

-----------------------------------------------------------------------------
(* Taking objects. *)

\* Code of r, or the HTTP goroutine that begins r, takes o.
LEMMA TakenStep ==
    ASSUME IInv, NEW r \in Requests, NEW o \in Objects, obj[o].at # "used",
           obj' \in [Objects -> ObjType],
           obj'[o].at = "used", obj'[o].refs = {},
           obj'[o].of = IF o \in Responses THEN None ELSE r,
           \A x \in Objects \ {o} :
               /\ obj'[x].at = obj[x].at /\ obj'[x].of = obj[x].of
               /\ \/ obj'[x].refs = obj[x].refs
                  \/ /\ obj[x].at = "used" /\ obj[x].of = r
                     /\ obj'[x].refs = obj[x].refs \cup {o} /\ o \notin Responses,
           cleanup' = ThenPut(r, o),
           call' \in [Responses -> CallType],
           \A p \in Responses :
               \/ call'[p] = call[p]
               \/ /\ p = o /\ call'[p].at = "called" /\ call'[p].by \in Fetchers
                  /\ obj[call'[p].by].of = r,
           reader' = reader, L!TypeOK',
           \A q \in Requests : Runs(q)' <=> Runs(q) \/ q = r,
           \A q \in Requests : lease'[q] = "none" => lease[q] = "none" /\ q # r,
           holds' = holds,
           Runs(r) \/ (lease[r] = "none" /\ o \in Events)
    PROVE  IInv'
<1>1. r # None /\ Parts
  BY Facts, NoneAssumption
<1>2. Static'
  <2>1. ASSUME NEW p \in Responses, call'[p].by \in Fetchers, obj[call'[p].by].of = r
        PROVE  \E i : Puts(r, i, call'[p].by)
    BY <2>1, Bound DEF Objects
  <2> QED
    BY <1>1, <2>1, Taken
<1>3. TypeOK'
  <2>1. cleanup' \in [Requests -> Seq(CleanupType)]
    <3> DEFINE c == [do |-> "put", obj |-> o]
    <3>1. c \in CleanupType /\ cleanup' = [cleanup EXCEPT ![r] = Append(@, c)] /\ TypeOK
      BY DEF CleanupType, ThenPut, IInv
    <3> HIDE DEF c
    <3> QED
      BY <3>1, Registered
  <2> QED
    BY <2>1 DEF IInv, TypeOK, CleanupType
<1>4. ~Runs(r) => \A x \in Objects : obj[x].of # r
  <2> SUFFICES ASSUME lease[r] = "none", NEW x \in Objects, obj[x].of = r
               PROVE  FALSE
    OBVIOUS
  <2>1. cleanup[r] = <<>>
    BY DEF IInv, Unbegun
  <2>2. PICK i : Puts(r, i, x)
    BY Bound
  <2> QED
    BY <2>1, <2>2 DEF Puts, Slots
<1>5. \A x \in Objects, q \in Requests :
          obj'[x].of = q => (x = o /\ q = r) \/ (x # o /\ obj[x].of = q)
  BY NoneAssumption
<1>6. Awaited'
  <2>1. ASSUME NEW p \in Responses, call'[p].at \in Pending
        PROVE  Runs(obj[call[p].by].of)'
    <3>1. CASE call'[p] = call[p]
      <4>1. PICK q \in Requests : obj[call[p].by].of = q
        BY <2>1, <3>1, CallFacts DEF Pending
      <4>2. call[p].by \in Objects /\ call[p].by # o
        BY <2>1, <3>1, CallFacts DEF Pending
      <4>3. Runs(q) /\ obj'[call'[p].by].of = q
        BY <2>1, <3>1, <4>1, <4>2 DEF IInv, Awaited, Pending
      <4>4. Runs(q)'
        BY <4>3
      <4> QED
        BY <4>3, <4>4 DEF Runs
    <3>2. ASSUME call'[p].by \in Fetchers, obj[call'[p].by].of = r
          PROVE  Runs(obj[call[p].by].of)'
      <4>1. call'[p].by \in Objects /\ call'[p].by # o
        BY <1>4, <3>2, Bound DEF Objects
      <4>2. obj'[call'[p].by].of = r /\ Runs(r)'
        BY <3>2, <4>1
      <4> QED
        BY <4>2 DEF Runs
    <3> QED
      BY <3>1, <3>2
  <2>2. ASSUME NEW s \in Streams, reader'[s] # None
        PROVE  Runs(reader[s])'
    <3>1. PICK q \in Requests : reader[s] = q
      BY <2>2, Facts
    <3>2. Runs(q)'
      BY <2>2, <3>1 DEF IInv, Awaited
    <3> QED
      BY <3>1, <3>2 DEF Runs
  <2> QED
    BY <2>1, <2>2 DEF Awaited, Pending
<1>7. Unbegun'
  <2>1. cleanup \in [Requests -> Seq(CleanupType)]
    BY Facts
  <2>2. \A q \in Requests \ {r} : cleanup'[q] = cleanup[q]
    BY <2>1 DEF ThenPut
  <2> QED
    BY <2>2 DEF IInv, Unbegun
<1>8. OwnReach'
  <2> SUFFICES ASSUME NEW q \in Requests, Runs(q)'
               PROVE  /\ \E e \in Events : obj'[e].of = q /\ obj'[e].at = "used"
                      /\ \A u \in Uses(q)' : \A x \in obj'[u].refs \cup {u} :
                            obj'[x].at = "used" /\ obj'[x].of = q
    BY DEF OwnReach
  <2>0. Events \subseteq Objects /\ Responses \subseteq Objects
        /\ Events \cap Responses = {}
    BY TypesAssumption DEF Objects
  <2>1. \E e \in Events : obj'[e].of = q /\ obj'[e].at = "used"
    <3>1. CASE Runs(q)
      <4>1. PICK e \in Events : obj[e].of = q /\ obj[e].at = "used"
        BY <3>1 DEF IInv, OwnObjects, OwnReach
      <4> QED
        BY <2>0, <4>1
    <3>2. CASE ~Runs(q)
      BY <2>0, <3>2
    <3> QED
      BY <3>1, <3>2
  <2>2. ASSUME NEW u \in Uses(q)', NEW x \in obj'[u].refs \cup {u}
        PROVE  obj'[x].at = "used" /\ obj'[x].of = q
    <3>1. u \in Objects /\ obj'[u].of = q
      BY <2>0, <2>2 DEF Uses
    <3>2. CASE u = o
      BY <1>5, <2>2, <3>1, <3>2
    <3>3. CASE u # o
      <4>1. obj[u].of = q
        BY <1>5, <3>1, <3>3
      <4>2. u \in Uses(q)
        BY <2>2, <3>3, <4>1 DEF Uses
      <4>3. Runs(q)
        BY <1>4, <3>1, <4>1
      <4>4. \A y \in obj[u].refs \cup {u} : obj[y].at = "used" /\ obj[y].of = q
        BY <4>2, <4>3 DEF IInv, OwnObjects, OwnReach
      <4>5. obj[u] \in ObjType
        BY <3>1, Facts
      <4>6. obj[u].refs \subseteq Objects
        BY <4>5 DEF ObjType
      <4>7. CASE x \in obj[u].refs \cup {u}
        BY <3>1, <4>4, <4>6, <4>7
      <4>8. CASE x \notin obj[u].refs \cup {u}
        <5>1. x = o /\ obj[u].of = r /\ o \notin Responses
          BY <2>2, <3>1, <3>3, <4>8
        <5> QED
          BY <4>1, <5>1
      <4> QED
        BY <4>7, <4>8
    <3> QED
      BY <3>2, <3>3
  <2> QED
    BY <2>1, <2>2
<1>9. AnswersStay'
  <2> SUFFICES ASSUME NEW p \in Responses, call'[p].at = "answered",
                      obj'[call'[p].by].of # None, Runs(obj[call[p].by].of)'
               PROVE  obj'[p].of = obj'[call'[p].by].of
    BY DEF AnswersStay
  <2>1. call'[p] = call[p]
    OBVIOUS
  <2>2. /\ call[p].by \in Objects \ {o} /\ p \in Objects \ {o}
        /\ obj[call[p].by].of \in Requests
    BY <2>1, CallFacts
  <2>3. PICK q \in Requests : obj[call[p].by].of = q
    BY <2>2
  <2>4. obj'[call'[p].by].of = q /\ obj'[p].of = obj[p].of
    BY <2>1, <2>2, <2>3
  <2>5. Runs(q)'
    BY <2>4 DEF Runs
  <2>6. Runs(q)
    BY <1>4, <2>2, <2>3, <2>5
  <2>7. obj[p].of = q
    BY <2>1, <2>3, <2>6, NoneAssumption DEF IInv, OwnObjects, AnswersStay
  <2> QED
    BY <2>4, <2>7
<1>10. OwnReader'
  <2> SUFFICES ASSUME NEW s \in Streams, reader[s] # None
               PROVE  obj'[s].of = reader[s]
    BY DEF OwnReader
  <2>1. obj[s].of = reader[s] /\ reader[s] \in Requests /\ s \in Objects
    BY Facts DEF IInv, OwnObjects, OwnReader, Objects
  <2>2. obj[s].at = "used"
    BY <2>1, Bound
  <2> QED
    BY <2>1, <2>2
<1> QED
  BY <1>2, <1>3, <1>6, <1>7, <1>8, <1>9, <1>10 DEF IInv, OwnObjects, Static

\* What Get returns is not in use and is clean.
LEMMA Free ==
    ASSUME IInv, NEW o \in Objects, Gets(o)
    PROVE  obj[o].at # "used" /\ obj[o].of = None /\ obj[o].refs = {}
<1>1. obj[o].at # "used"
  BY DEF Gets
<1> QED
  BY <1>1, Facts DEF Parts, UnusedClean, Dirty

\* handleAsEvent takes an event.
LEMMA BeginStep ==
    ASSUME IInv, NEW r \in Requests, NEW e \in Events, Begin(r, e)
    PROVE  IInv'
<1>1. /\ obj \in [Objects -> ObjType] /\ e \in Objects /\ e \notin Responses
      /\ lease \in [Requests -> L!LeaseState]
      /\ holds \in [Requests -> SUBSET (Extensions \cup Responses)]
      /\ call \in [Responses -> CallType] /\ r # None
  BY Facts, TypesAssumption, NoneAssumption DEF Objects
<1>2. /\ lease[r] = "none" /\ lease' = [lease EXCEPT ![r] = "held"] /\ holds' = holds
      /\ obj' = [obj EXCEPT ![e].at = "used", ![e].of = r]
      /\ cleanup' = ThenPut(r, e) /\ UNCHANGED <<call, reader>>
      /\ Gets(e)
  BY DEF Begin, L!Grant
<1>3. obj[e].at # "used" /\ obj[e].refs = {}
  BY <1>1, <1>2, Free
<1>4. /\ obj' \in [Objects -> ObjType]
      /\ obj'[e].at = "used" /\ obj'[e].refs = {} /\ obj'[e].of = r
      /\ \A x \in Objects \ {e} : obj'[x] = obj[x]
  BY <1>1, <1>2, <1>3 DEF ObjType
<1>5. L!TypeOK' /\ \A q \in Requests : /\ Runs(q)' <=> Runs(q) \/ q = r
                                       /\ lease'[q] = "none" => lease[q] = "none" /\ q # r
  BY <1>1, <1>2 DEF L!TypeOK, L!LeaseState, Runs
<1> QED
  BY <1>1, <1>2, <1>3, <1>4, <1>5, TakenStep

\* What code of r can use is in use and bound to r, and r has begun.
LEMMA Reach ==
    ASSUME IInv, NEW r \in Requests, Runs(r)
    PROVE  /\ \A u \in Uses(r) : \A o \in obj[u].refs \cup {u} :
                 o \in Objects /\ obj[o].at = "used" /\ obj[o].of = r
           /\ lease[r] # "none"
<1>1. obj \in [Objects -> ObjType]
  BY Facts
<1>2. \A u \in Uses(r) : u \in Objects /\ obj[u].refs \subseteq Objects
  BY <1>1 DEF Uses, Objects, ObjType
<1> QED
  BY <1>2 DEF IInv, OwnObjects, OwnReach, Unbegun, Runs

\* A property that is looked at first takes its object.
LEMMA LazilyStep ==
    ASSUME IInv, NEW r \in Requests, NEW u, NEW K, NEW o,
           K = Fetchers \/ K = Headers \/ K = Streams, Lazily(r, u, K, o)
    PROVE  IInv'
<1>1. /\ obj \in [Objects -> ObjType] /\ o \in Objects /\ o \notin Responses
      /\ call \in [Responses -> CallType] /\ r # None
      /\ L!TypeOK
  BY Facts, TypesAssumption, NoneAssumption DEF Objects, Lazily, IInv, TypeOK
<1>2. /\ Runs(r) /\ u \in Uses(r) /\ Gets(o)
      /\ UNCHANGED <<call, reader, lease, holds>>
  BY DEF Lazily, leaseVars
<1>3. u \in Objects /\ obj[u].at = "used" /\ obj[u].of = r /\ lease[r] # "none"
  BY <1>2, Reach
<1>4. obj[o].at # "used" /\ obj[o].refs = {} /\ o # u
  BY <1>1, <1>2, <1>3, Free
<1>5. /\ obj' = [obj EXCEPT ![u].refs = @ \cup {o}, ![o].at = "used", ![o].of = r]
      /\ cleanup' = ThenPut(r, o)
  BY <1>3 DEF Lazily
<1>6. /\ obj' \in [Objects -> ObjType]
      /\ obj'[o].at = "used" /\ obj'[o].refs = {} /\ obj'[o].of = r
      /\ obj'[u].at = obj[u].at /\ obj'[u].of = obj[u].of
      /\ obj'[u].refs = obj[u].refs \cup {o}
      /\ \A x \in Objects \ {o, u} : obj'[x] = obj[x]
  <2> DEFINE a == [obj[u] EXCEPT !.refs = @ \cup {o}]
             b == [obj[o] EXCEPT !.at = "used", !.of = r]
  <2>0. obj[u] \in ObjType /\ obj[o] \in ObjType
    BY <1>1, <1>3
  <2>1. a \in ObjType /\ b \in ObjType
    <3>1. obj[u].refs \cup {o} \in SUBSET Objects
      BY <1>1, <2>0 DEF ObjType
    <3> QED
      BY <2>0, <3>1 DEF ObjType
  <2>2. /\ a.at = obj[u].at /\ a.of = obj[u].of /\ a.refs = obj[u].refs \cup {o}
        /\ b.at = "used" /\ b.of = r /\ b.refs = {}
    BY <1>4, <2>0 DEF ObjType
  <2>3. obj' = [obj EXCEPT ![u] = a, ![o] = b]
    BY <1>1, <1>3, <1>4, <1>5
  <2> HIDE DEF a, b
  <2> QED
    BY <1>1, <1>3, <1>4, <2>1, <2>2, <2>3
<1>7. L!TypeOK' /\ \A q \in Requests : /\ Runs(q)' <=> Runs(q) \/ q = r
                                       /\ lease'[q] = "none" => lease[q] = "none" /\ q # r
  BY <1>1, <1>2, <1>3 DEF L!TypeOK, L!LeaseState, Runs
<1>8. \A x \in Objects \ {o} :
          /\ obj'[x].at = obj[x].at /\ obj'[x].of = obj[x].of
          /\ \/ obj'[x].refs = obj[x].refs
             \/ /\ obj[x].at = "used" /\ obj[x].of = r
                /\ obj'[x].refs = obj[x].refs \cup {o} /\ o \notin Responses
  BY <1>1, <1>3, <1>6
<1>9. /\ obj' \in [Objects -> ObjType]
      /\ obj'[o].at = "used" /\ obj'[o].refs = {}
      /\ obj'[o].of = IF o \in Responses THEN None ELSE r
  BY <1>1, <1>6
<1>10. call' \in [Responses -> CallType] /\ \A p \in Responses : call'[p] = call[p]
  BY <1>1, <1>2
<1> QED
  BY <1>1, <1>2, <1>4, <1>5, <1>7, <1>8, <1>9, <1>10, TakenStep

\* doFetch takes a response proxy.
LEMMA DoFetchStep ==
    ASSUME IInv, NEW r \in Requests, NEW e \in Events, NEW f \in Fetchers,
           NEW p \in Responses, DoFetch(r, e, f, p)
    PROVE  IInv'
<1>1. /\ obj \in [Objects -> ObjType] /\ p \in Objects
      /\ call \in [Responses -> CallType] /\ r # None
      /\ L!TypeOK
  BY Facts, NoneAssumption DEF Objects, IInv, TypeOK
<1>2. /\ Runs(r) /\ e \in Uses(r) /\ f \in obj[e].refs /\ Gets(p)
      /\ UNCHANGED <<reader, lease, holds>>
      /\ obj' = [obj EXCEPT ![p].at = "used"]
      /\ call' = [call EXCEPT ![p] = [at |-> "called", by |-> f]]
  BY DEF DoFetch, leaseVars
<1>3. obj[f].of = r /\ lease[r] # "none"
  BY <1>2, Reach
<1>4. obj[p].at # "used" /\ obj[p].refs = {} /\ obj[p].of = None
  BY <1>1, <1>2, Free
<1>5. cleanup' = ThenPut(r, p)
  BY <1>3 DEF DoFetch
<1>6. /\ obj' \in [Objects -> ObjType]
      /\ obj'[p].at = "used" /\ obj'[p].refs = {} /\ obj'[p].of = None
      /\ \A x \in Objects \ {p} : obj'[x] = obj[x]
  BY <1>1, <1>2, <1>4 DEF ObjType
<1>7. /\ call' \in [Responses -> CallType]
      /\ call'[p].at = "called" /\ call'[p].by = f
      /\ \A x \in Responses \ {p} : call'[x] = call[x]
  BY <1>1, <1>2 DEF CallType
<1>8. L!TypeOK' /\ \A q \in Requests : /\ Runs(q)' <=> Runs(q) \/ q = r
                                       /\ lease'[q] = "none" => lease[q] = "none" /\ q # r
  BY <1>1, <1>2, <1>3 DEF L!TypeOK, L!LeaseState, Runs
<1> QED
  BY <1>1, <1>2, <1>3, <1>4, <1>5, <1>6, <1>7, <1>8, TakenStep

\* The job of a fetch takes a stream, and binds the proxy to the response.
LEMMA AnswerStep ==
    ASSUME IInv, NEW p \in Responses, NEW s \in Streams, Answer(p, s)
    PROVE  IInv'
<1>0. call[p].at = "posted" /\ Gets(s)
  BY DEF Answer, WithResponse
<1>1. PICK r \in Requests, f \in Fetchers :
          /\ call[p].by = f /\ obj[f].of = r
          /\ obj[p].at = "used" /\ obj[p].of \in {None, r}
          /\ \E j : Puts(r, j, p)
  BY <1>0, CallFacts
<1>2. /\ obj \in [Objects -> ObjType] /\ call \in [Responses -> CallType]
      /\ cleanup \in [Requests -> Seq(CleanupType)]
      /\ p \in Objects /\ s \in Objects /\ f \in Objects
      /\ s \notin Responses /\ f \notin Responses /\ r # None
  BY Facts, TypesAssumption, NoneAssumption DEF Objects
<1>3. obj[s].at # "used" /\ obj[s].refs = {} /\ obj[s].of = None /\ s # p
  BY <1>0, <1>1, <1>2, Free
<1>4. Runs(r)
  BY <1>0, <1>1 DEF IInv, Awaited
<1>5. /\ obj' = [obj EXCEPT ![s].at = "used", ![s].of = r,
                            ![p].of = r, ![p].refs = {s}]
      /\ cleanup' = [cleanup EXCEPT ![r] =
                        @ \o << [do |-> "put", obj |-> s], [do |-> "reset", obj |-> p] >>]
      /\ call' = [call EXCEPT ![p].at = "answered"]
      /\ UNCHANGED <<reader, lease, holds>>
  BY <1>1 DEF Answer, WithResponse, CallMoves, leaseVars
<1>6. /\ obj' \in [Objects -> ObjType]
      /\ obj'[s].at = "used" /\ obj'[s].of = r /\ obj'[s].refs = {}
      /\ obj'[p].at = "used" /\ obj'[p].of = r /\ obj'[p].refs = {s}
      /\ \A x \in Objects \ {s, p} : obj'[x] = obj[x]
  <2> DEFINE a == [obj[p] EXCEPT !.of = r, !.refs = {s}]
             b == [obj[s] EXCEPT !.at = "used", !.of = r]
  <2>0. obj[p] \in ObjType /\ obj[s] \in ObjType
    BY <1>2
  <2>1. a \in ObjType /\ b \in ObjType
    BY <1>2, <2>0 DEF ObjType
  <2>2. /\ a.at = "used" /\ a.of = r /\ a.refs = {s}
        /\ b.at = "used" /\ b.of = r /\ b.refs = {}
    BY <1>1, <1>3, <2>0 DEF ObjType
  <2>3. obj' = [obj EXCEPT ![p] = a, ![s] = b]
    BY <1>2, <1>3, <1>5
  <2> HIDE DEF a, b
  <2> QED
    BY <1>2, <1>3, <2>1, <2>2, <2>3
<1>7. /\ call' \in [Responses -> CallType]
      /\ call'[p].at = "answered" /\ call'[p].by = f
      /\ \A x \in Responses \ {p} : call'[x] = call[x]
  BY <1>1, <1>2, <1>5 DEF CallType
<1>8. PICK n :
          /\ cleanup' \in [Requests -> Seq(CleanupType)]
          /\ n \in Int /\ \A q \in Requests \ {r} : cleanup'[q] = cleanup[q]
          /\ \A q \in Requests : \A i, x :
                /\ Puts(q, i, x)' <=> Puts(q, i, x) \/ (q = r /\ i = n /\ x = s)
                /\ Resets(q, i, x)' <=>
                      Resets(q, i, x) \/ (q = r /\ i = n + 1 /\ x = p)
          /\ \A i, x : Puts(r, i, x) \/ Resets(r, i, x) => i \in Int /\ i < n
  <2> DEFINE a == [do |-> "put", obj |-> s]
             b == [do |-> "reset", obj |-> p]
             m == Len(cleanup[r])
  <2>1. a \in CleanupType /\ b \in CleanupType /\ m \in Nat
    BY <1>2, LenProperties DEF CleanupType
  <2>2. \A x : /\ a = [do |-> "put", obj |-> x] <=> x = s
               /\ a # [do |-> "reset", obj |-> x]
               /\ b = [do |-> "reset", obj |-> x] <=> x = p
               /\ b # [do |-> "put", obj |-> x]
    OBVIOUS
  <2>3. /\ cleanup'[r] = cleanup[r] \o <<a, b>>
        /\ \A q \in Requests \ {r} : cleanup'[q] = cleanup[q]
    BY <1>2, <1>5
  <2> HIDE DEF a, b
  <2>4. /\ cleanup'[r] \in Seq(CleanupType) /\ Len(cleanup'[r]) = m + 2
        /\ \A i \in 1 .. m + 2 :
              cleanup'[r][i] = IF i <= m THEN cleanup[r][i] ELSE <<a, b>>[i - m]
    <3>1. <<a, b>> \in Seq(CleanupType) /\ Len(<<a, b>>) = 2
      BY <2>1
    <3> QED
      BY <1>2, <2>1, <2>3, <3>1, ConcatProperties
  <2>5. /\ \A i \in 1 .. m : cleanup'[r][i] = cleanup[r][i]
        /\ cleanup'[r][m + 1] = a /\ cleanup'[r][m + 2] = b
    <3> DEFINE w == <<a, b>>
    <3>1. w[1] = a /\ w[2] = b
      OBVIOUS
    <3> HIDE DEF w, m
    <3>2. /\ m + 1 \in 1 .. m + 2 /\ ~(m + 1 <= m) /\ (m + 1) - m = 1
          /\ m + 2 \in 1 .. m + 2 /\ ~(m + 2 <= m) /\ (m + 2) - m = 2
          /\ \A i \in 1 .. m : i \in 1 .. m + 2 /\ i <= m
      BY <2>1
    <3>3. \A i \in 1 .. m + 2 :
              cleanup'[r][i] = IF i <= m THEN cleanup[r][i] ELSE w[i - m]
      BY <2>4 DEF w
    <3> QED
      BY <3>1, <3>2, <3>3
  <2>6. cleanup' \in [Requests -> Seq(CleanupType)]
    BY <1>2, <2>4, <1>5
  <2> HIDE DEF m
  <2>7. ASSUME NEW q \in Requests, NEW i, NEW x
        PROVE  (i \in 1 .. Len(cleanup'[q]) /\ cleanup'[q][i] = x) <=>
                  \/ i \in 1 .. Len(cleanup[q]) /\ cleanup[q][i] = x
                  \/ q = r /\ i = m + 1 /\ a = x
                  \/ q = r /\ i = m + 2 /\ b = x
    <3>1. CASE q = r
      <4>1. Len(cleanup'[r]) = m + 2 /\ Len(cleanup[r]) = m
        BY <2>4 DEF m
      <4>2. /\ \A k : k \in 1 .. m + 2 <=> k \in 1 .. m \/ k = m + 1 \/ k = m + 2
            /\ m + 1 \notin 1 .. m /\ m + 2 \notin 1 .. m
        BY <2>1
      <4> QED
        BY <2>5, <3>1, <4>1, <4>2
    <3>2. CASE q # r
      BY <2>3, <3>2
    <3> QED
      BY <3>1, <3>2
  <2>8. \A q \in Requests : \A i, x :
            /\ Puts(q, i, x)' <=> Puts(q, i, x) \/ (q = r /\ i = m + 1 /\ x = s)
            /\ Resets(q, i, x)' <=>
                  Resets(q, i, x) \/ (q = r /\ i = m + 2 /\ x = p)
    <3> SUFFICES ASSUME NEW q \in Requests, NEW i, NEW x
                 PROVE  /\ Puts(q, i, x)' <=>
                              Puts(q, i, x) \/ (q = r /\ i = m + 1 /\ x = s)
                        /\ Resets(q, i, x)' <=>
                              Resets(q, i, x) \/ (q = r /\ i = m + 2 /\ x = p)
      OBVIOUS
    <3>1. Puts(q, i, x)' <=> Puts(q, i, x) \/ (q = r /\ i = m + 1 /\ x = s)
      BY <2>2, <2>7 DEF Puts, Slots
    <3>2. Resets(q, i, x)' <=> Resets(q, i, x) \/ (q = r /\ i = m + 2 /\ x = p)
      BY <2>2, <2>7 DEF Resets, Slots
    <3> QED
      BY <3>1, <3>2
  <2>9. \A i, x : Puts(r, i, x) \/ Resets(r, i, x) => i \in Int /\ i < m + 1
    BY <2>1 DEF Puts, Resets, Slots, m
  <2>10. PICK k : k = m + 1 /\ k \in Int /\ m + 2 = k + 1
    BY <2>1
  <2>11. /\ \A q \in Requests : \A i, x :
               /\ Puts(q, i, x)' <=> Puts(q, i, x) \/ (q = r /\ i = k /\ x = s)
               /\ Resets(q, i, x)' <=>
                     Resets(q, i, x) \/ (q = r /\ i = k + 1 /\ x = p)
         /\ \A i, x : Puts(r, i, x) \/ Resets(r, i, x) => i \in Int /\ i < k
    BY <2>8, <2>9, <2>10
  <2> QED
    BY <2>3, <2>6, <2>10, <2>11
<1>9. /\ \A q \in Requests : \A i : ~Puts(q, i, s)
      /\ \A q \in Requests : \A i : Puts(q, i, p) => q = r
  BY <1>1, <1>2, <1>3, Facts DEF Parts, PutIsUsed, PutOnce
<1>10. Static'
  <2>1. Parts
    BY Facts
  <2>2. UsedIsPut'
    <3> SUFFICES ASSUME NEW x \in Objects, obj'[x].at = "used"
                 PROVE  \E q \in Requests : \E i : Puts(q, i, x)'
      BY DEF UsedIsPut
    <3>1. CASE x = s
      BY <1>8, <3>1
    <3>2. CASE x # s
      <4>1. obj[x].at = "used"
        BY <1>1, <1>6, <3>2
      <4>2. PICK q, i : q \in Requests /\ Puts(q, i, x)
        BY <2>1, <4>1 DEF Parts, UsedIsPut
      <4> QED
        BY <1>8, <4>2
    <3> QED
      BY <3>1, <3>2
  <2>3. PutIsUsed'
    <3> SUFFICES ASSUME NEW x \in Objects, NEW q \in Requests, NEW i, Puts(q, i, x)'
                 PROVE  /\ obj'[x].at = "used"
                        /\ obj'[x].of = q \/ (x \in Responses /\ obj'[x].of = None)
      BY DEF PutIsUsed
    <3>1. CASE x = s
      BY <1>6, <1>8, <1>9, <3>1
    <3>2. CASE x = p
      BY <1>3, <1>6, <1>8, <1>9, <3>2
    <3>3. CASE x \notin {s, p}
      BY <1>6, <1>8, <2>1, <3>3 DEF Parts, PutIsUsed
    <3> QED
      BY <3>1, <3>2, <3>3
  <2>4. PutOnce'
    BY <1>8, <1>9, <2>1 DEF Parts, PutOnce
  <2>5. UnusedClean'
    BY <1>6, <2>1 DEF Parts, UnusedClean, Dirty
  <2>6. ResetIsPut'
    <3> SUFFICES ASSUME NEW x \in Objects, NEW q \in Requests, NEW i, Resets(q, i, x)'
                 PROVE  x \in Responses /\ \E j : j < i /\ Puts(q, j, x)'
      BY DEF ResetIsPut
    <3>1. CASE Resets(q, i, x)
      BY <1>8, <2>1, <3>1 DEF Parts, ResetIsPut
    <3>2. CASE q = r /\ i = n + 1 /\ x = p
      <4>1. PICK j : Puts(r, j, p)
        BY <1>1
      <4>2. j < i /\ Puts(r, j, p)'
        BY <1>8, <3>2, <4>1
      <4> QED
        BY <3>2, <4>2
    <3> QED
      BY <1>8, <3>1, <3>2
  <2>7. DirtyIsReset'
    <3> SUFFICES ASSUME NEW x \in Responses, NEW q \in Requests, NEW i,
                        Puts(q, i, x)', Dirty(x)'
                 PROVE  \E j : i < j /\ Resets(q, j, x)'
      BY DEF DirtyIsReset
    <3>1. x \in Objects /\ x # s /\ Puts(q, i, x)
      BY <1>2, <1>8 DEF Objects
    <3>2. CASE x = p
      <4>1. q = r /\ i < n /\ i \in Int
        BY <1>8, <1>9, <3>1, <3>2
      <4>2. PICK k : k = n + 1
        OBVIOUS
      <4>3. Resets(q, k, x)' /\ i < k
        BY <1>8, <3>2, <4>1, <4>2
      <4> QED
        BY <4>3
    <3>3. CASE x # p
      <4>1. Dirty(x)
        BY <1>6, <3>1, <3>3 DEF Dirty
      <4>2. PICK j : i < j /\ Resets(q, j, x)
        BY <2>1, <3>1, <4>1 DEF Parts, DirtyIsReset
      <4> QED
        BY <1>8, <4>2
    <3> QED
      BY <3>2, <3>3
  <2>8. CallIsPut'
    <3> SUFFICES ASSUME NEW x \in Responses, call'[x].at # "none"
                 PROVE  \E g \in Fetchers :
                            /\ call'[x].by = g
                            /\ \E q \in Requests : \E i, j :
                                  i < j /\ Puts(q, i, g)' /\ Puts(q, j, x)'
      BY DEF CallIsPut
    <3>1. call[x].at # "none" /\ call'[x].by = call[x].by
      BY <1>0, <1>1, <1>7
    <3>2. PICK g, q, i, j :
              /\ g \in Fetchers /\ q \in Requests
              /\ call[x].by = g /\ i < j /\ Puts(q, i, g) /\ Puts(q, j, x)
      BY <2>1, <3>1 DEF Parts, CallIsPut
    <3> QED
      BY <1>8, <3>1, <3>2
  <2>9. Parts'
    BY <2>2, <2>3, <2>4, <2>5, <2>6, <2>7, <2>8 DEF Parts
  <2> QED
    BY <2>9, StaticIsPartsPrimed
<1>11. TypeOK'
  BY <1>5, <1>6, <1>7, <1>8 DEF IInv, TypeOK, CleanupType, L!TypeOK
<1>12. \A q : Runs(q)' <=> Runs(q)
  BY <1>5 DEF Runs
<1>13. Awaited'
  <2>1. ASSUME NEW x \in Responses, call'[x].at \in Pending
        PROVE  Runs(obj[call[x].by].of)'
    <3>1. call'[x] = call[x]
      BY <1>7, <2>1 DEF Pending
    <3>2. /\ call[x].by \in Objects \ {s, p} /\ obj[call[x].by].of \in Requests
      BY <1>2, <1>3, <2>1, <3>1, CallFacts, TypesAssumption DEF Pending
    <3>3. obj'[call'[x].by].of = obj[call[x].by].of
      BY <1>6, <3>1, <3>2
    <3>4. Runs(obj[call[x].by].of)
      BY <2>1, <3>1 DEF IInv, Awaited, Pending
    <3> QED
      BY <1>5, <3>3, <3>4 DEF Runs
  <2>2. ASSUME NEW t \in Streams, reader'[t] # None
        PROVE  Runs(reader[t])'
    BY <1>5, <2>2 DEF IInv, Awaited, Runs
  <2> QED
    BY <2>1, <2>2 DEF Awaited, Pending
<1>14. Unbegun'
  <2>1. lease[r] # "none"
    BY <1>4 DEF Runs, IInv, Unbegun
  <2> QED
    BY <1>5, <1>8, <2>1 DEF IInv, Unbegun
<1>15. OwnReach'
  <2> SUFFICES ASSUME NEW q \in Requests, Runs(q)
               PROVE  /\ \E e \in Events : obj'[e].of = q /\ obj'[e].at = "used"
                      /\ \A u \in Uses(q)' : \A x \in obj'[u].refs \cup {u} :
                            obj'[x].at = "used" /\ obj'[x].of = q
    BY <1>12 DEF OwnReach
  <2>0. Events \subseteq Objects \ {p} /\ Responses \subseteq Objects
    BY TypesAssumption DEF Objects
  <2>1. \E e \in Events : obj'[e].of = q /\ obj'[e].at = "used"
    <3>1. PICK e \in Events : obj[e].of = q /\ obj[e].at = "used"
      BY DEF IInv, OwnObjects, OwnReach
    <3> QED
      BY <1>3, <1>6, <2>0, <3>1
  <2>2. ASSUME NEW u \in Uses(q)', NEW x \in obj'[u].refs \cup {u}
        PROVE  obj'[x].at = "used" /\ obj'[x].of = q
    <3>1. u \in Objects /\ obj'[u].of = q
      BY <2>0, <2>2 DEF Uses
    <3>2. CASE u = p
      BY <1>6, <2>2, <3>1, <3>2
    <3>3. CASE u = s
      BY <1>6, <2>2, <3>1, <3>3
    <3>4. CASE u \notin {p, s}
      <4>1. obj'[u] = obj[u]
        BY <1>6, <3>1, <3>4
      <4>2. u \in Uses(q)
        BY <1>7, <2>2, <3>4, <4>1 DEF Uses
      <4>3. x \in Objects /\ obj[x].at = "used" /\ obj[x].of = q
        BY <2>2, <4>1, <4>2, Reach
      <4>4. x # s /\ (x = p => q = r)
        BY <1>1, <1>3, <4>3, NoneAssumption
      <4> QED
        BY <1>6, <4>3, <4>4
    <3> QED
      BY <3>2, <3>3, <3>4
  <2> QED
    BY <2>1, <2>2
<1>16. AnswersStay'
  <2> SUFFICES ASSUME NEW x \in Responses, call'[x].at = "answered",
                      obj'[call'[x].by].of # None, Runs(obj[call[x].by].of)'
               PROVE  obj'[x].of = obj'[call'[x].by].of
    BY DEF AnswersStay
  <2>1. call[x].at # "none" /\ call'[x].by = call[x].by
    BY <1>0, <1>1, <1>7
  <2>2. /\ call[x].by \in Objects /\ x \in Objects /\ call[x].by \notin {s, p} /\ x # s
        /\ obj[call[x].by].of \in Requests
    BY <1>2, <1>3, <2>1, CallFacts, TypesAssumption
  <2>3. obj'[call'[x].by].of = obj[call[x].by].of
    BY <1>6, <2>1, <2>2
  <2>4. CASE x = p
    BY <1>1, <1>6, <2>1, <2>3, <2>4
  <2>5. CASE x # p
    <3>1. call'[x] = call[x] /\ obj'[x].of = obj[x].of
      BY <1>6, <1>7, <2>2, <2>5
    <3>2. Runs(obj[call[x].by].of)
      BY <1>5, <2>3 DEF Runs
    <3>3. obj[x].of = obj[call[x].by].of
      BY <2>2, <3>1, <3>2, NoneAssumption DEF IInv, OwnObjects, AnswersStay
    <3> QED
      BY <2>3, <3>1, <3>3
  <2> QED
    BY <2>4, <2>5
<1>17. OwnReader'
  <2> SUFFICES ASSUME NEW t \in Streams, reader[t] # None
               PROVE  obj'[t].of = reader[t]
    BY <1>5 DEF OwnReader
  <2>1. obj[t].of = reader[t] /\ reader[t] \in Requests /\ t \in Objects /\ t # p
    BY Facts, TypesAssumption DEF IInv, OwnObjects, OwnReader, Objects
  <2>2. obj[t].at = "used"
    BY <2>1, Bound
  <2> QED
    BY <1>3, <1>6, <2>1, <2>2
<1> QED
  BY <1>10, <1>11, <1>13, <1>14, <1>15, <1>16, <1>17 DEF IInv, OwnObjects, Static

-----------------------------------------------------------------------------
(* Giving objects back. *)

\* Code that still runs does not notice that an object of r is cleared: what it
\* can reach is bound to requests that run.
LEMMA ClearedStep ==
    ASSUME IInv, NEW r \in Requests, ~Runs(r), NEW o \in Objects, NEW i,
           Puts(r, i, o), Static', TypeOK',
           obj'[o].of = None, obj'[o].refs = {},
           \A x \in Objects \ {o} : obj'[x] = obj[x],
           \A p \in Responses : call'[p] = call[p] \/ call'[p].at = "none",
           UNCHANGED <<reader, lease, holds>>,
           \A q \in Requests \ {r} : cleanup'[q] = cleanup[q],
           lease[r] # "none"
    PROVE  IInv'
<1>1. obj[o].of \in {None, r}
  BY Facts DEF Parts, PutIsUsed
<1>2. \A q \in Requests : Runs(q) => q # None /\ obj[o].of # q
  BY <1>1, NoneAssumption
<1>3. \A q : Runs(q)' <=> Runs(q)
  BY DEF Runs
<1>4. Unbegun'
  BY DEF IInv, Unbegun
<1>5. Awaited'
  <2>1. ASSUME NEW p \in Responses, call'[p].at \in Pending
        PROVE  Runs(obj[call[p].by].of)'
    <3>1. call'[p] = call[p]
      BY <2>1 DEF Pending
    <3>2. PICK q \in Requests : obj[call[p].by].of = q
      BY <2>1, <3>1, CallFacts DEF Pending
    <3>3. Runs(q) /\ call[p].by \in Objects
      BY <2>1, <3>1, <3>2, CallFacts DEF IInv, Awaited, Pending
    <3>4. obj'[call'[p].by].of = q
      BY <1>2, <3>1, <3>2, <3>3
    <3> QED
      BY <3>3, <3>4 DEF Runs
  <2>2. ASSUME NEW s \in Streams, reader'[s] # None
        PROVE  Runs(reader[s])'
    BY <2>2 DEF IInv, Awaited, Runs
  <2> QED
    BY <2>1, <2>2 DEF Awaited, Pending
<1>6. OwnReach'
  <2> SUFFICES ASSUME NEW q \in Requests, Runs(q)
               PROVE  /\ \E e \in Events : obj'[e].of = q /\ obj'[e].at = "used"
                      /\ \A u \in Uses(q)' : \A x \in obj'[u].refs \cup {u} :
                            obj'[x].at = "used" /\ obj'[x].of = q
    BY <1>3 DEF OwnReach
  <2>0. Events \subseteq Objects /\ Responses \subseteq Objects
    BY DEF Objects
  <2>1. \E e \in Events : obj'[e].of = q /\ obj'[e].at = "used"
    <3>1. PICK e \in Events : obj[e].of = q /\ obj[e].at = "used"
      BY DEF IInv, OwnObjects, OwnReach
    <3> QED
      BY <1>2, <2>0, <3>1
  <2>2. ASSUME NEW u \in Uses(q)', NEW x \in obj'[u].refs \cup {u}
        PROVE  obj'[x].at = "used" /\ obj'[x].of = q
    <3>1. u \in Objects /\ obj'[u].of = q
      BY <2>0, <2>2 DEF Uses
    <3>2. u # o /\ obj'[u] = obj[u]
      BY <1>2, <3>1
    <3>3. u \in Uses(q)
      BY <2>2, <3>2 DEF Uses
    <3>4. x \in Objects /\ obj[x].at = "used" /\ obj[x].of = q
      BY <2>2, <3>2, <3>3, Reach
    <3> QED
      BY <1>2, <3>4
  <2> QED
    BY <2>1, <2>2
<1>7. AnswersStay'
  <2> SUFFICES ASSUME NEW p \in Responses, call'[p].at = "answered",
                      obj'[call'[p].by].of # None, Runs(obj[call[p].by].of)'
               PROVE  obj'[p].of = obj'[call'[p].by].of
    BY DEF AnswersStay
  <2>1. call'[p] = call[p] /\ p \in Objects /\ call[p].by \in Objects \ {o}
    BY CallFacts
  <2>2. PICK q \in Requests : obj[call[p].by].of = q
    BY <2>1, CallFacts
  <2>3. obj'[call'[p].by].of = q
    BY <2>1, <2>2
  <2>4. Runs(q)
    BY <2>3 DEF Runs
  <2>5. obj[p].of = q
    BY <1>2, <2>1, <2>2, <2>4 DEF IInv, OwnObjects, AnswersStay
  <2> QED
    BY <1>2, <2>1, <2>3, <2>4, <2>5
<1>8. OwnReader'
  <2> SUFFICES ASSUME NEW s \in Streams, reader[s] # None
               PROVE  obj'[s].of = reader[s]
    BY DEF OwnReader
  <2>1. /\ obj[s].of = reader[s] /\ reader[s] \in Requests /\ s \in Objects
        /\ Runs(reader[s])
    BY Facts DEF IInv, OwnObjects, OwnReader, Awaited, Objects
  <2> QED
    BY <1>2, <2>1
<1> QED
  BY <1>4, <1>5, <1>6, <1>7, <1>8 DEF IInv, OwnObjects, Static

\* The last cleanup resets a response proxy: it awaits being put back still.
LEMMA ResetStep ==
    ASSUME IInv, NEW r \in Requests, Release(r), NEW o \in Objects,
           cleanup[r][Len(cleanup[r])] = [do |-> "reset", obj |-> o]
    PROVE  IInv'
<1> DEFINE n == Len(cleanup[r])
<1>1. /\ obj \in [Objects -> ObjType] /\ call \in [Responses -> CallType]
      /\ TypeOK /\ Parts
  BY Facts DEF IInv
<1>2. /\ Over(r) /\ cleanup[r] # <<>>
      /\ cleanup' = [cleanup EXCEPT ![r] = SubSeq(@, 1, Len(@) - 1)]
      /\ UNCHANGED <<reader, lease, holds>>
  BY DEF Release, leaseVars
<1>3. obj' = [obj EXCEPT ![o] = Clean(o)] /\ call' = call
  BY DEF Release, Run
<1>4. /\ obj' \in [Objects -> ObjType]
      /\ obj'[o].at = obj[o].at /\ obj'[o].of = None /\ obj'[o].refs = {}
      /\ \A x \in Objects \ {o} : obj'[x] = obj[x]
  <2> DEFINE a == Clean(o)
  <2>1. a \in ObjType /\ a.at = obj[o].at /\ a.of = None /\ a.refs = {}
    BY <1>1 DEF Clean, ObjType
  <2> HIDE DEF a
  <2>2. obj' = [obj EXCEPT ![o] = a]
    BY <1>3 DEF a
  <2> QED
    BY <1>1, <2>1, <2>2
<1>5. /\ cleanup' \in [Requests -> Seq(CleanupType)]
      /\ \A q \in Requests \ {r} : cleanup'[q] = cleanup[q]
      /\ \A q \in Requests : \A i, x :
            /\ Puts(q, i, x)' <=> Puts(q, i, x)
            /\ Resets(q, i, x)' <=> Resets(q, i, x) /\ ~(q = r /\ i = n)
            /\ Resets(r, n, x) => x = o
      /\ Resets(r, n, o)
  <2>1. /\ cleanup' \in [Requests -> Seq(CleanupType)]
        /\ \A q \in Requests \ {r} : cleanup'[q] = cleanup[q]
        /\ \A q \in Requests : \A i, x :
              /\ Puts(q, i, x)' <=> Puts(q, i, x) /\ ~(q = r /\ i = n)
              /\ Resets(q, i, x)' <=> Resets(q, i, x) /\ ~(q = r /\ i = n)
        /\ \A x : /\ Puts(r, n, x) <=> cleanup[r][n] = [do |-> "put", obj |-> x]
                  /\ Resets(r, n, x) <=> cleanup[r][n] = [do |-> "reset", obj |-> x]
    BY <1>1, <1>2, Popped
  <2> DEFINE c == [do |-> "reset", obj |-> o]
  <2>2. \A x : /\ c # [do |-> "put", obj |-> x]
               /\ c = [do |-> "reset", obj |-> x] <=> x = o
    OBVIOUS
  <2>3. cleanup[r][n] = c
    OBVIOUS
  <2> HIDE DEF n, c
  <2>4. \A x : ~Puts(r, n, x) /\ (Resets(r, n, x) <=> x = o)
    BY <2>1, <2>2, <2>3
  <2> QED
    BY <2>1, <2>4
<1>6. PICK m : m = n
  OBVIOUS
<1> HIDE DEF n
<1>7. /\ Resets(r, m, o)
      /\ \A q \in Requests : \A i, x :
            /\ Puts(q, i, x)' <=> Puts(q, i, x)
            /\ Resets(q, i, x)' <=> Resets(q, i, x) /\ ~(q = r /\ i = m)
            /\ Resets(r, m, x) => x = o
  BY <1>5, <1>6
<1>8. o \in Responses /\ \E i : Puts(r, i, o)
  BY <1>1, <1>7 DEF Parts, ResetIsPut
<1>9. Static'
  <2>1. UsedIsPut'
    BY <1>1, <1>4, <1>7 DEF Parts, UsedIsPut
  <2>2. PutIsUsed'
    BY <1>1, <1>4, <1>7, <1>8 DEF Parts, PutIsUsed
  <2>3. PutOnce'
    BY <1>1, <1>7 DEF Parts, PutOnce
  <2>4. UnusedClean'
    BY <1>1, <1>4 DEF Parts, UnusedClean, Dirty
  <2>5. ResetIsPut'
    BY <1>1, <1>7 DEF Parts, ResetIsPut
  <2>6. DirtyIsReset'
    <3> SUFFICES ASSUME NEW p \in Responses, NEW q \in Requests, NEW i,
                        Puts(q, i, p)', Dirty(p)'
                 PROVE  \E j : i < j /\ Resets(q, j, p)'
      BY DEF DirtyIsReset
    <3>1. p # o /\ p \in Objects
      BY <1>4 DEF Dirty, Objects
    <3>2. Puts(q, i, p) /\ Dirty(p)
      BY <1>4, <1>7, <3>1 DEF Dirty
    <3>3. PICK j : i < j /\ Resets(q, j, p)
      BY <1>1, <3>2 DEF Parts, DirtyIsReset
    <3> QED
      BY <1>7, <3>1, <3>3
  <2>7. CallIsPut'
    BY <1>1, <1>3, <1>7 DEF Parts, CallIsPut
  <2>8. Parts'
    BY <2>1, <2>2, <2>3, <2>4, <2>5, <2>6, <2>7 DEF Parts
  <2> QED
    BY <2>8, StaticIsPartsPrimed
<1>10. TypeOK'
  BY <1>1, <1>2, <1>3, <1>4, <1>5 DEF TypeOK, CleanupType, L!TypeOK
<1>11. ~Runs(r) /\ lease[r] # "none"
  BY <1>2 DEF Over, Runs
<1>12. PICK i : Puts(r, i, o)
  BY <1>8
<1>13. \A q \in Requests \ {r} : cleanup'[q] = cleanup[q]
  BY <1>5
<1> QED
  BY <1>2, <1>3, <1>4, <1>9, <1>10, <1>11, <1>12, <1>13, ClearedStep

\* The last cleanup puts an object back: nothing else awaits its return, and if
\* it is a response proxy it has been reset before.
LEMMA PutStep ==
    ASSUME IInv, NEW r \in Requests, Release(r), NEW o \in Objects,
           cleanup[r][Len(cleanup[r])] = [do |-> "put", obj |-> o]
    PROVE  IInv'
<1> DEFINE n == Len(cleanup[r])
<1>1. /\ obj \in [Objects -> ObjType] /\ call \in [Responses -> CallType]
      /\ TypeOK /\ Parts
  BY Facts DEF IInv
<1>2. /\ Over(r) /\ cleanup[r] # <<>>
      /\ cleanup' = [cleanup EXCEPT ![r] = SubSeq(@, 1, Len(@) - 1)]
      /\ UNCHANGED <<reader, lease, holds>>
  BY DEF Release, leaseVars
<1>3. /\ Put(o, Left(o))
      /\ call' = [p \in Responses |-> IF p = o THEN NoCall ELSE call[p]]
  BY DEF Release, Run
<1>4. /\ cleanup' \in [Requests -> Seq(CleanupType)]
      /\ \A q \in Requests \ {r} : cleanup'[q] = cleanup[q]
      /\ \A q \in Requests : \A i, x :
            /\ Puts(q, i, x)' <=> Puts(q, i, x) /\ ~(q = r /\ i = n)
            /\ Resets(q, i, x)' <=> Resets(q, i, x)
      /\ \A x : Puts(r, n, x) <=> x = o
      /\ \A i, x : Puts(r, i, x) \/ Resets(r, i, x) => i \in Int /\ i <= n
      /\ n \in Int
  <2>1. /\ cleanup' \in [Requests -> Seq(CleanupType)]
        /\ \A q \in Requests \ {r} : cleanup'[q] = cleanup[q]
        /\ \A q \in Requests : \A i, x :
              /\ Puts(q, i, x)' <=> Puts(q, i, x) /\ ~(q = r /\ i = n)
              /\ Resets(q, i, x)' <=> Resets(q, i, x) /\ ~(q = r /\ i = n)
        /\ \A i, x : Puts(r, i, x) \/ Resets(r, i, x) => i \in Int /\ i <= n
        /\ \A x : /\ Puts(r, n, x) <=> cleanup[r][n] = [do |-> "put", obj |-> x]
                  /\ Resets(r, n, x) <=> cleanup[r][n] = [do |-> "reset", obj |-> x]
    BY <1>1, <1>2, Popped
  <2> DEFINE c == [do |-> "put", obj |-> o]
  <2>2. \A x : /\ c # [do |-> "reset", obj |-> x]
               /\ c = [do |-> "put", obj |-> x] <=> x = o
    OBVIOUS
  <2>3. cleanup[r][n] = c
    OBVIOUS
  <2> HIDE DEF n, c
  <2>4. \A x : ~Resets(r, n, x) /\ (Puts(r, n, x) <=> x = o)
    BY <2>1, <2>2, <2>3
  <2>5. n \in Int
    BY <2>1, <2>4
  <2> QED
    BY <2>1, <2>4, <2>5
<1>5. PICK m : m = n
  OBVIOUS
<1> HIDE DEF n
<1>6. /\ \A q \in Requests : \A i, x :
            /\ Puts(q, i, x)' <=> Puts(q, i, x) /\ ~(q = r /\ i = m)
            /\ Resets(q, i, x)' <=> Resets(q, i, x)
      /\ \A x : Puts(r, m, x) <=> x = o
      /\ \A i, x : Puts(r, i, x) \/ Resets(r, i, x) => i \in Int /\ i <= m
      /\ m \in Int
  BY <1>4, <1>5
<1>7. o \in Responses => ~Dirty(o)
  <2> SUFFICES ASSUME o \in Responses, Dirty(o)
               PROVE  FALSE
    OBVIOUS
  <2>1. PICK j : m < j /\ Resets(r, j, o)
    BY <1>1, <1>6 DEF Parts, DirtyIsReset
  <2> QED
    BY <1>6, <2>1
<1>8. /\ obj' \in [Objects -> ObjType]
      /\ obj'[o].at # "used" /\ obj'[o].of = None /\ obj'[o].refs = {}
      /\ \A x \in Objects \ {o} : obj'[x] = obj[x]
  <2>1. Left(o) \in ObjType /\ Left(o).of = None /\ Left(o).refs = {}
    <3>1. obj[o] \in ObjType
      BY <1>1
    <3>2. CASE o \in Responses
      BY <1>7, <3>1, <3>2 DEF Left, Dirty
    <3>3. CASE o \notin Responses
      <4>1. Left(o) = Clean(o)
        BY <3>3 DEF Left
      <4>2. Clean(o) \in ObjType /\ Clean(o).of = None /\ Clean(o).refs = {}
        BY <3>1 DEF Clean, ObjType
      <4> QED
        BY <4>1, <4>2
    <3> QED
      BY <3>2, <3>3
  <2>2. PICK at \in {"pooled", "out"} :
            obj' = [obj EXCEPT ![o] = [Left(o) EXCEPT !.at = at]]
    BY <1>3 DEF Put
  <2> DEFINE a == [Left(o) EXCEPT !.at = at]
  <2>3. a \in ObjType /\ a.at # "used" /\ a.of = None /\ a.refs = {}
    BY <2>1 DEF ObjType
  <2>4. obj' = [obj EXCEPT ![o] = a]
    BY <2>2
  <2> HIDE DEF a
  <2> QED
    BY <1>1, <2>3, <2>4
<1>9. /\ call' \in [Responses -> CallType]
      /\ \A p \in Responses : \/ p # o /\ call'[p] = call[p]
                              \/ p = o /\ call'[p].at = "none"
  BY <1>1, <1>3 DEF CallType, NoCall
<1>10. Static'
  <2>1. UsedIsPut'
    <3> SUFFICES ASSUME NEW x \in Objects, obj'[x].at = "used"
                 PROVE  \E q \in Requests : \E i : Puts(q, i, x)'
      BY DEF UsedIsPut
    <3>1. x # o /\ obj[x].at = "used"
      BY <1>8
    <3>2. PICK q, i : q \in Requests /\ Puts(q, i, x)
      BY <1>1, <3>1 DEF Parts, UsedIsPut
    <3> QED
      BY <1>6, <3>1, <3>2
  <2>2. PutIsUsed'
    <3> SUFFICES ASSUME NEW x \in Objects, NEW q \in Requests, NEW i, Puts(q, i, x)'
                 PROVE  /\ obj'[x].at = "used"
                        /\ obj'[x].of = q \/ (x \in Responses /\ obj'[x].of = None)
      BY DEF PutIsUsed
    <3>1. Puts(q, i, x) /\ x # o
      BY <1>1, <1>6 DEF Parts, PutOnce
    <3> QED
      BY <1>1, <1>8, <3>1 DEF Parts, PutIsUsed
  <2>3. PutOnce'
    BY <1>1, <1>6 DEF Parts, PutOnce
  <2>4. UnusedClean'
    BY <1>1, <1>8 DEF Parts, UnusedClean, Dirty
  <2>5. ResetIsPut'
    <3> SUFFICES ASSUME NEW x \in Objects, NEW q \in Requests, NEW i, Resets(q, i, x)
                 PROVE  x \in Responses /\ \E j : j < i /\ Puts(q, j, x)'
      BY <1>6 DEF ResetIsPut
    <3>1. PICK j : x \in Responses /\ j < i /\ Puts(q, j, x)
      BY <1>1 DEF Parts, ResetIsPut
    <3>2. ~(q = r /\ j = m)
      BY <1>6, <3>1
    <3> QED
      BY <1>6, <3>1, <3>2
  <2>6. DirtyIsReset'
    <3> SUFFICES ASSUME NEW p \in Responses, NEW q \in Requests, NEW i,
                        Puts(q, i, p)', Dirty(p)'
                 PROVE  \E j : i < j /\ Resets(q, j, p)
      BY <1>6 DEF DirtyIsReset
    <3>1. p # o /\ p \in Objects
      BY <1>8 DEF Dirty, Objects
    <3>2. Puts(q, i, p) /\ Dirty(p)
      BY <1>6, <1>8, <3>1 DEF Dirty
    <3> QED
      BY <1>1, <3>2 DEF Parts, DirtyIsReset
  <2>7. CallIsPut'
    <3> SUFFICES ASSUME NEW p \in Responses, call'[p].at # "none"
                 PROVE  \E f \in Fetchers :
                            /\ call'[p].by = f
                            /\ \E q \in Requests : \E i, j :
                                  i < j /\ Puts(q, i, f)' /\ Puts(q, j, p)'
      BY DEF CallIsPut
    <3>1. p # o /\ call'[p] = call[p]
      BY <1>9
    <3>2. PICK f, q, i, j :
              /\ f \in Fetchers /\ q \in Requests
              /\ call[p].by = f /\ i < j /\ Puts(q, i, f) /\ Puts(q, j, p)
      BY <1>1, <3>1 DEF Parts, CallIsPut
    <3>3. ~(q = r /\ j = m) /\ ~(q = r /\ i = m)
      BY <1>6, <3>1, <3>2
    <3> QED
      BY <1>6, <3>1, <3>2, <3>3
  <2>8. Parts'
    BY <2>1, <2>2, <2>3, <2>4, <2>5, <2>6, <2>7 DEF Parts
  <2> QED
    BY <2>8, StaticIsPartsPrimed
<1>11. TypeOK'
  BY <1>1, <1>2, <1>4, <1>8, <1>9 DEF TypeOK, CleanupType, L!TypeOK
<1>12. ~Runs(r) /\ lease[r] # "none"
  BY <1>2 DEF Over, Runs
<1>13. Puts(r, m, o)
  BY <1>6
<1>14. \A q \in Requests \ {r} : cleanup'[q] = cleanup[q]
  BY <1>4
<1> QED
  BY <1>2, <1>8, <1>9, <1>10, <1>11, <1>12, <1>13, <1>14, ClearedStep

-----------------------------------------------------------------------------
(* The invariant. *)

\* At first nothing exists.
LEMMA InitHolds == Init => IInv
<1> SUFFICES ASSUME Init
             PROVE  IInv
  OBVIOUS
<1>1. /\ \A o \in Objects : obj[o] = [at |-> "out", of |-> None, refs |-> {}]
      /\ \A p \in Responses : call[p].at = "none"
      /\ \A s \in Streams : reader[s] = None
      /\ \A r \in Requests : /\ cleanup[r] = <<>>
                             /\ lease[r] = "none" /\ holds[r] = {}
  BY DEF Init, NoCall, L!Init
<1>2. TypeOK
  BY DEF Init, NoCall, TypeOK, ObjType, CallType, L!Init, L!TypeOK, L!LeaseState
<1>3. \A r \in Requests : \A i, o : ~Puts(r, i, o) /\ ~Resets(r, i, o)
  BY <1>1 DEF Puts, Resets, Slots
<1>4. HeldOnce /\ BoundToHolder /\ ResetBeforePut
  BY <1>1, <1>3 DEF HeldOnce, BoundToHolder, ResetBeforePut
<1>5. ProxyBeforeFetcher /\ Awaited /\ Unbegun
  BY <1>1 DEF ProxyBeforeFetcher, Awaited, Unbegun
<1>6. OwnObjects
  BY <1>1 DEF OwnObjects, OwnReach, AnswersStay, OwnReader, Runs
<1> QED
  BY <1>2, <1>4, <1>5, <1>6 DEF IInv

\* Every step of a request, a fetch or a reader keeps the invariant.
LEMMA NextHolds == IInv /\ [Next]_vars => IInv'
<1> SUFFICES ASSUME IInv, [Next]_vars
             PROVE  IInv'
  OBVIOUS
<1>1. ASSUME UNCHANGED vars
      PROVE  IInv'
  <2>1. /\ UNCHANGED <<obj, call, cleanup, reader, lease, holds>>
        /\ \A q : Runs(q)' <=> Runs(q)
    BY <1>1 DEF vars, leaseVars, Runs
  <2>2. TypeOK'
    BY <2>1 DEF IInv, TypeOK, L!TypeOK
  <2>3. Awaited'
    BY <2>1 DEF IInv, Awaited, Runs
  <2>4. OwnReader'
    BY <2>1 DEF IInv, OwnObjects, OwnReader
  <2>5. \A q \in Requests : lease'[q] = "none" => lease[q] = "none" /\ holds'[q] = {}
    BY <2>1 DEF IInv, Unbegun
  <2> QED
    BY <2>1, <2>2, <2>3, <2>4, <2>5, Moves
<1>2. ASSUME NEW r \in Requests, NEW e \in Events, Begin(r, e)
      PROVE  IInv'
  BY <1>2, BeginStep
<1>3. ASSUME NEW r \in Requests, Return(r)
      PROVE  IInv'
  BY <1>3, LeaseSteps
<1>4. ASSUME NEW r \in Requests, JsStep(r)
      PROVE  IInv'
  <2>1. ASSUME NEW x \in Extensions, WaitUntil(r, x) \/ Conclude(r, x)
        PROVE  IInv'
    BY <2>1, LeaseSteps
  <2>2. ASSUME NEW e \in Events, NEW f \in Fetchers, GetFetch(r, e, f)
        PROVE  IInv'
    BY <2>2, LazilyStep DEF GetFetch
  <2>3. ASSUME NEW e \in Events, NEW f \in Fetchers, NEW p \in Responses,
               DoFetch(r, e, f, p)
        PROVE  IInv'
    BY <2>3, DoFetchStep
  <2>4. ASSUME NEW e \in Events, NEW h \in Headers, GetHeaders(r, e, h)
        PROVE  IInv'
    BY <2>4, LazilyStep DEF GetHeaders
  <2>5. ASSUME NEW e \in Events, NEW s \in Streams, GetBody(r, e, s)
        PROVE  IInv'
    BY <2>5, LazilyStep DEF GetBody
  <2>6. ASSUME NEW p \in Responses, NEW h \in Headers, GetResponseHeaders(r, p, h)
        PROVE  IInv'
    BY <2>6, LazilyStep DEF GetResponseHeaders
  <2>7. ASSUME NEW s \in Streams, StartRead(r, s)
        PROVE  IInv'
    BY <2>7, ReaderSteps
  <2> QED
    BY <1>4, <2>1, <2>2, <2>3, <2>4, <2>5, <2>6, <2>7 DEF JsStep
<1>5. ASSUME NEW r \in Requests, ReleaseStep(r)
      PROVE  IInv'
  <2>1. CASE Reclaim(r)
    BY <2>1, LeaseSteps
  <2>2. CASE Release(r)
    <3> DEFINE c == cleanup[r][Len(cleanup[r])]
    <3>1. c \in CleanupType
      BY <2>2, Popped DEF IInv, Release
    <3>2. PICK o \in Objects : \/ c = [do |-> "put", obj |-> o]
                               \/ c = [do |-> "reset", obj |-> o]
      BY <3>1 DEF CleanupType
    <3> QED
      BY <2>2, <3>2, ResetStep, PutStep
  <2> QED
    BY <1>5, <2>1, <2>2 DEF ReleaseStep
<1>6. ASSUME NEW p \in Responses, FetchStep(p)
      PROVE  IInv'
  BY <1>6, CallSteps, AnswerStep DEF FetchStep
<1>7. ASSUME NEW s \in Streams, Read(s)
      PROVE  IInv'
  BY <1>7, ReaderSteps
<1> QED
  BY <1>1, <1>2, <1>3, <1>4, <1>5, <1>6, <1>7 DEF Next

\* A behaviour keeps the inductive invariant.
LEMMA Inductive == Spec => []IInv
BY InitHolds, NextHolds, PTL DEF Spec

\* Counting the cleanups that put an object back, over all requests, gives one
\* when it is in use and none when it is not.
LEMMA Counted == IInv => OneHolder
<1> SUFFICES ASSUME IInv, NEW o \in Objects
             PROVE  LET puts == UNION {{r} \X PutsOf(r, o) : r \in Requests} IN
                    Cardinality(puts) = IF obj[o].at = "used" THEN 1 ELSE 0
  BY DEF OneHolder
<1> DEFINE puts == UNION {{r} \X PutsOf(r, o) : r \in Requests}
<1>1. \A x : x \in puts <=> \E r \in Requests : \E i : Puts(r, i, o) /\ x = <<r, i>>
  BY DEF PutsOf, Puts
<1> HIDE DEF puts
<1>2. CASE obj[o].at = "used"
  <2>1. PICK r, i : r \in Requests /\ Puts(r, i, o)
    BY <1>2, Facts DEF Parts, UsedIsPut
  <2>2. \A q \in Requests : \A j : Puts(q, j, o) => q = r /\ j = i
    BY <2>1, Facts DEF Parts, PutOnce
  <2>3. puts = {<<r, i>>}
    BY <1>1, <2>1, <2>2
  <2>4. Cardinality(puts) = 1
    BY <2>3, FS_Singleton
  <2> QED
    BY <1>2, <2>4 DEF puts
<1>3. CASE obj[o].at # "used"
  <2>1. \A q \in Requests : \A j : ~Puts(q, j, o)
    BY <1>3, Facts DEF Parts, PutIsUsed
  <2>2. puts = {}
    BY <1>1, <2>1
  <2>3. Cardinality(puts) = 0
    BY <2>2, FS_EmptySet
  <2> QED
    BY <1>3, <2>3 DEF puts
<1> QED
  BY <1>2, <1>3

\* Every native object in use awaits exactly one cleanup of one request that puts
\* it back, and one that is not in use awaits none, with the inductive invariant
\* this follows from: the discipline of RegisterCleanup and x.Pool.
THEOREM Invariance == Spec => []HoldersInv
<1>1. IInv => HoldersInv
  BY Counted DEF HoldersInv
<1> QED
  BY <1>1, Inductive, PTL

\* What an x.Pool holds refers to nothing of the request it served: the resets of
\* event, fetch, stream and shared miss none, in the order release runs them.
THEOREM PoolsClean == Spec => []PooledClean
<1>1. IInv => PooledClean
  BY DEF IInv, BoundToHolder, PooledClean
<1> QED
  BY <1>1, Inductive, PTL

\* As long as the handler of a request or an extension of it runs, the event and
\* what hangs on it, the responses and the bodies being read stay its own: release
\* of another request takes nothing from it, and no Get gives it away.
THEOREM OwnAlways == Spec => []OwnObjects
<1>1. IInv => OwnObjects
  BY DEF IInv
<1> QED
  BY <1>1, Inductive, PTL
=============================================================================
