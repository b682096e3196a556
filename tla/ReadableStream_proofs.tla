---------------------- MODULE ReadableStream_proofs ----------------------
(***************************************************************************)
(* Theorems about ReadableStream, for a body of any size, views of any     *)
(* offset and length and any number of reads at once: where bytes go, how  *)
(* many are handed out, and when the stream ends.                          *)
(***************************************************************************)
EXTENDS ReadableStream, SequenceTheorems, TLAPS

-----------------------------------------------------------------------------
(* Views that are being filled. *)

\* The descriptors of pending reads after a step: only the first one is begun.
Begun(s) ==
    /\ s \in Seq(Descriptor)
    /\ \A i \in 1 .. Len(s) :
          /\ s[i].filled < s[i].elem
          /\ i > 1 => s[i].filled = 0

Held(s) == IF s = <<>> THEN 0 ELSE s[1].filled

AllSafe(s) == \A i \in 1 .. Len(s) : Safe(s[i])

\* What the first descriptor is.
LEMMA First ==
    ASSUME NEW s, Begun(s), s # <<>>
    PROVE  /\ 1 \in 1 .. Len(s) /\ s[1] \in Descriptor /\ s[1].filled < s[1].elem
           /\ s[1].offset \in 0 .. MaxOffset /\ s[1].length \in 1 .. MaxLength
           /\ s[1].elem \in 1 .. 2 /\ s[1].filled \in 0 .. 1
           /\ Head(s) = s[1]
<1>1. s \in Seq(Descriptor) /\ Len(s) \in Nat \ {0}
  BY EmptySeq DEF Begun
<1>2. 1 \in 1 .. Len(s)
  BY <1>1
<1>3. s[1] \in Descriptor /\ s[1].filled < s[1].elem
  BY <1>1, <1>2, ElementOfSeq DEF Begun
<1>4. /\ s[1].offset \in 0 .. MaxOffset /\ s[1].length \in 1 .. MaxLength
      /\ s[1].elem \in 1 .. 2 /\ s[1].filled \in 0 .. MaxLength
  BY <1>3 DEF Descriptor
<1>5. s[1].filled \in 0 .. 1
  BY <1>3, <1>4, BoundsAssumption
<1>6. Head(s) = s[1]
  BY <1>1
<1> QED
  BY <1>2, <1>3, <1>4, <1>5, <1>6

\* Where the cut for a view begins and ends.
LEMMA CutIs ==
    ASSUME NEW d
    PROVE  Cut(d).from = d.offset + d.filled /\ Cut(d).to = d.length - d.filled
BY DEF Cut

\* A pull that is called: it ends the process, for a view that is not plain, or
\* reads into the cut of the first view, which for a plain view is not empty.
LEMMA Pulls ==
    ASSUME NEW s, Begun(s), s # <<>>, Pull(s)
    PROVE  /\ pull' \in PullType /\ pull'.n = 0
           /\ \/ stream' = "panicked" /\ pull' = NoPull /\ ~Safe(s[1])
              \/ /\ stream' = stream /\ pull'.at = "reading"
                 /\ pull'.from = Cut(s[1]).from /\ pull'.to = Cut(s[1]).to
<1> DEFINE d == s[1]
           from == d.offset + d.filled
           to == d.length - d.filled
<1>1. /\ d.offset \in 0 .. MaxOffset /\ d.length \in 1 .. MaxLength
      /\ d.elem \in 1 .. 2 /\ d.filled \in 0 .. 1 /\ d.filled < d.elem
      /\ Head(s) = d
  BY First
<1>2. Cut(Head(s)).from = from /\ Cut(Head(s)).to = to
  <2>1. Cut(d).from = from /\ Cut(d).to = to
    BY CutIs
  <2> QED
    BY <1>1, <2>1
<1>3. from \in 0 .. MaxOffset + MaxLength /\ to \in 0 .. MaxLength
  <2>1. ASSUME NEW o \in 0 .. MaxOffset, NEW l \in 1 .. MaxLength, NEW f \in 0 .. 1
        PROVE  o + f \in 0 .. MaxOffset + MaxLength /\ l - f \in 0 .. MaxLength
    BY BoundsAssumption
  <2> QED
    BY <1>1, <2>1
<1>4. CASE from > to
  <2>1. stream' = "panicked" /\ pull' = NoPull
    BY <1>2, <1>4 DEF Pull
  <2>2. ~Safe(d)
    BY <1>1, <1>4, BoundsAssumption DEF Safe
  <2>3. NoPull \in PullType /\ NoPull.n = 0
    BY BoundsAssumption DEF NoPull, PullType
  <2> QED
    BY <2>1, <2>2, <2>3
<1>5. CASE ~(from > to)
  <2>1. /\ pull' = [at |-> "reading", from |-> from, to |-> to, n |-> 0]
        /\ stream' = stream
    BY <1>2, <1>5 DEF Pull
  <2> HIDE DEF from, to
  <2>2. pull' \in PullType /\ pull'.n = 0
    BY <1>3, <2>1, BoundsAssumption DEF PullType
  <2> QED
    BY <1>1, <1>2, <2>1, <2>2
<1> QED
  BY <1>4, <1>5

\* A step that leaves the descriptors s to be filled, and calls pull for them.
LEMMA PullStep ==
    ASSUME IInv, stream = "readable", NEW s, Begun(s), pending' = s,
           got' \in 0 .. Size, queue' \in 0 .. 1, queue' # 0 => s = <<>>,
           taken = got' + queue' + Held(s), plain' \in BOOLEAN,
           plain' => plain /\ AllSafe(s),
           UNCHANGED <<taken, failed>>,
           PullAgain(s)
    PROVE  IInv'
<1>1. taken \in 0 .. Size /\ failed \in BOOLEAN
  BY DEF IInv, TypeOK
<1>2. /\ pull' \in PullType /\ pull'.n = 0
      /\ stream' \in {"readable", "panicked"}
      /\ stream' = "panicked" => ~plain'
      /\ pull'.at # "read" /\ pull'.at # "error"
      /\ stream' = "readable" =>
            /\ pull'.at = "idle" <=> s = <<>>
            /\ pull'.at = "reading" =>
                  /\ s # <<>>
                  /\ pull'.from = Cut(s[1]).from /\ pull'.to = Cut(s[1]).to
  <2>1. CASE s = <<>>
    <3>1. pull' = NoPull /\ stream' = stream
      BY <2>1 DEF PullAgain
    <3>2. NoPull \in PullType /\ NoPull.n = 0 /\ NoPull.at = "idle"
      BY BoundsAssumption DEF NoPull, PullType
    <3> QED
      BY <2>1, <3>1, <3>2
  <2>2. CASE s # <<>>
    <3>1. Pull(s) /\ 1 \in 1 .. Len(s)
      BY <2>2, First DEF PullAgain
    <3>2. NoPull.at = "idle"
      BY DEF NoPull
    <3> QED
      BY <2>2, <3>1, <3>2, Pulls DEF AllSafe
  <2> QED
    BY <2>1, <2>2
<1>3. TypeOK'
  BY <1>1, <1>2 DEF TypeOK, Begun
<1>4. FirstFilled'
  BY DEF FirstFilled, Begun
<1>5. BytesAccounted'
  BY <1>2 DEF BytesAccounted, Held
<1>6. PullsFirst'
  BY <1>2 DEF PullsFirst
<1>7. EmptyAtEnd'
  BY <1>2 DEF EmptyAtEnd, AllSafe
<1>8. NoPanic' /\ EndsRight'
  BY <1>2 DEF NoPanic, EndsRight
<1> QED
  BY <1>3, <1>4, <1>5, <1>6, <1>7, <1>8 DEF IInv

\* Pull looks at the first view only.
LEMMA SamePull ==
    ASSUME NEW s, NEW t, s # <<>>, t # <<>>, Head(s) = Head(t)
    PROVE  PullAgain(s) <=> PullAgain(t)
BY DEF PullAgain, Pull

\* Every state: the descriptors are begun as FirstFilled says.
LEMMA Now ==
    ASSUME IInv
    PROVE  /\ Begun(pending) /\ taken \in 0 .. Size /\ got \in 0 .. Size
           /\ queue \in 0 .. 1 /\ pull \in PullType
           /\ failed \in BOOLEAN /\ plain \in BOOLEAN
           /\ plain => AllSafe(pending)
           /\ stream = "readable" =>
                 /\ taken = got + queue + pull.n + Held(pending)
                 /\ queue # 0 => pending = <<>>
           /\ pull.n \in 0 .. MaxLength
<1>1. pull.n \in 0 .. MaxLength
  BY DEF IInv, TypeOK, PullType
<1> QED
  BY <1>1 DEF IInv, TypeOK, FirstFilled, Begun, BytesAccounted, Held, EmptyAtEnd, AllSafe

\* What HandOut leaves to be filled of the views rest.
NextViews(rest, over) ==
    IF rest = <<>> THEN <<>>
    ELSE IF over > 0 /\ rest[1].elem = 1 THEN Tail(rest)
    ELSE [rest EXCEPT ![1].filled = over]

\* The views behind one that is given out, with a byte left over or none.
LEMMA Behind ==
    ASSUME NEW rest \in Seq(Descriptor), NEW over \in 0 .. 1,
           \A i \in 1 .. Len(rest) : rest[i].filled = 0,
           NEW next, next = NextViews(rest, over)
    PROVE  /\ Begun(next)
           /\ AllSafe(rest) => AllSafe(next)
           /\ rest = <<>> => next = <<>>
           /\ Held(next) = IF rest = <<>> \/ (over > 0 /\ rest[1].elem = 1)
                           THEN 0 ELSE over
<1>0. \A d \in Descriptor : d.elem \in 1 .. 2 /\ d.filled \in 0 .. MaxLength
                            /\ d.length \in 1 .. MaxLength
  BY DEF Descriptor
<1>1. \A i \in 1 .. Len(rest) : rest[i] \in Descriptor /\ rest[i].filled = 0
  BY ElementOfSeq
<1>2. CASE rest = <<>>
  <2>1. next = <<>> /\ <<>> \in Seq(Descriptor) /\ Len(<<>>) = 0
    BY <1>2, EmptySeq DEF NextViews
  <2>2. Begun(next) /\ AllSafe(next)
    BY <2>1 DEF Begun, AllSafe
  <2> QED
    BY <1>2, <2>1, <2>2 DEF Held
<1>3. CASE rest # <<>> /\ over > 0 /\ rest[1].elem = 1
  <2>1. next = Tail(rest)
    BY <1>3 DEF NextViews
  <2>2. /\ next \in Seq(Descriptor) /\ Len(rest) \in Nat \ {0}
        /\ Len(next) = Len(rest) - 1
        /\ \A i \in 1 .. Len(next) : next[i] = rest[i + 1]
    BY <1>3, <2>1, HeadTailProperties, EmptySeq
  <2>3. \A i \in 1 .. Len(next) : i + 1 \in 1 .. Len(rest)
    BY <2>2
  <2>4. \A i \in 1 .. Len(next) : next[i].filled = 0 /\ 0 < next[i].elem
    <3> SUFFICES ASSUME NEW i \in 1 .. Len(next)
                 PROVE  next[i].filled = 0 /\ 0 < next[i].elem
      OBVIOUS
    <3>1. next[i] \in Descriptor /\ next[i].filled = 0
      BY <1>1, <2>2, <2>3
    <3>2. next[i].elem \in 1 .. 2
      BY <1>0, <3>1
    <3> QED
      BY <3>1, <3>2
  <2>5. Begun(next)
    BY <2>2, <2>4 DEF Begun
  <2>6. Held(next) = 0
    <3>1. CASE next = <<>>
      BY <3>1 DEF Held
    <3>2. CASE next # <<>>
      <4>1. 1 \in 1 .. Len(next)
        BY <2>5, <3>2, First
      <4> QED
        BY <2>4, <3>2, <4>1 DEF Held
    <3> QED
      BY <3>1, <3>2
  <2>7. AllSafe(rest) => AllSafe(next)
    BY <2>2, <2>3 DEF AllSafe
  <2> QED
    BY <1>3, <2>5, <2>6, <2>7
<1>4. CASE rest # <<>> /\ ~(over > 0 /\ rest[1].elem = 1)
  <2> DEFINE d == [rest[1] EXCEPT !.filled = over]
  <2>1. Len(rest) \in Nat \ {0} /\ 1 \in 1 .. Len(rest) /\ rest[1] \in Descriptor
    <3>1. Len(rest) \in Nat \ {0}
      BY <1>4, EmptySeq
    <3> QED
      BY <1>1, <3>1
  <2>2. over \in 0 .. MaxLength /\ over < rest[1].elem
    BY <1>0, <1>4, <2>1, BoundsAssumption
  <2>3. /\ d \in Descriptor /\ d.filled = over /\ d.elem = rest[1].elem
        /\ d.offset = rest[1].offset /\ d.length = rest[1].length
    BY <2>1, <2>2 DEF Descriptor
  <2>4. next = [rest EXCEPT ![1] = d]
    BY <1>4 DEF NextViews
  <2> HIDE DEF d
  <2>5. /\ next \in Seq(Descriptor) /\ Len(next) = Len(rest)
        /\ \A j \in 1 .. Len(rest) : next[j] = IF j = 1 THEN d ELSE rest[j]
    BY <2>1, <2>3, <2>4, ExceptSeq
  <2>6. next # <<>> /\ next[1] = d
    <3>1. Len(next) # 0 /\ Len(<<>>) = 0
      BY <2>1, <2>5
    <3> QED
      BY <2>1, <2>5, <3>1
  <2>7. Begun(next)
    <3> SUFFICES ASSUME NEW i \in 1 .. Len(next)
                 PROVE  /\ next[i].filled < next[i].elem
                        /\ i > 1 => next[i].filled = 0
      BY <2>5 DEF Begun
    <3>1. CASE i = 1
      BY <2>2, <2>3, <2>6, <3>1
    <3>2. CASE i # 1
      <4>1. next[i] = rest[i] /\ rest[i] \in Descriptor /\ rest[i].filled = 0
        BY <1>1, <2>5, <3>2
      <4>2. next[i].elem \in 1 .. 2
        BY <1>0, <4>1
      <4> QED
        BY <4>1, <4>2
    <3> QED
      BY <3>1, <3>2
  <2>8. AllSafe(rest) => AllSafe(next)
    <3> SUFFICES ASSUME AllSafe(rest), NEW i \in 1 .. Len(next)
                 PROVE  Safe(next[i])
      BY DEF AllSafe
    <3>1. Safe(rest[1]) => Safe(d)
      BY <2>3 DEF Safe
    <3> QED
      BY <2>1, <2>5, <3>1 DEF AllSafe
  <2>9. Held(next) = over
    BY <2>3, <2>6 DEF Held
  <2> QED
    BY <1>4, <2>7, <2>8, <2>9
<1> QED
  BY <1>2, <1>3, <1>4

\* The stream ends: nothing is pending, and if the views were plain it ends with
\* the body or by a failure.
LEMMA EndStep ==
    ASSUME IInv, NEW state, state \in {"closed", "errored", "cancelled"},
           End(state), UNCHANGED <<taken, failed, plain>>,
           plain => /\ state = "closed" => got = Size
                    /\ state = "errored" => failed \/ taken = Size
    PROVE  IInv'
<1>1. /\ stream' = state /\ pending' = <<>> /\ queue' = 0 /\ pull' = NoPull /\ got' = got
  BY DEF End
<1>2. NoPull \in PullType /\ NoPull.at = "idle" /\ NoPull.n = 0
  BY BoundsAssumption DEF NoPull, PullType
<1>3. <<>> \in Seq(Descriptor) /\ Len(<<>>) = 0
  BY EmptySeq
<1>4. TypeOK'
  BY <1>1, <1>2, <1>3, Now DEF TypeOK
<1>5. FirstFilled' /\ EmptyAtEnd'
  BY <1>1, <1>2, <1>3 DEF FirstFilled, EmptyAtEnd
<1>6. BytesAccounted' /\ PullsFirst'
  BY <1>1, <1>2 DEF BytesAccounted, PullsFirst
<1>7. NoPanic' /\ EndsRight'
  BY <1>1 DEF NoPanic, EndsRight
<1> QED
  BY <1>4, <1>5, <1>6, <1>7 DEF IInv

\* A step that leaves the descriptors and what is handed out as they are.
LEMMA Stays ==
    ASSUME IInv, UNCHANGED <<got, queue, pending, plain>>,
           taken' \in 0 .. Size, failed' \in BOOLEAN, pull' \in PullType,
           pull'.at # "read" => pull'.n = 0,
           pull'.at = "error" => failed', failed => failed',
           stream' = stream,
           stream = "readable" =>
               /\ taken' - pull'.n = taken - pull.n
               /\ pull'.at = "idle" <=> pull.at = "idle"
               /\ pull'.at \in {"reading", "read"} => pull.at \in {"reading", "read"}
               /\ pull'.from = pull.from /\ pull'.to = pull.to
               /\ (plain /\ pull'.at = "read" /\ pull'.n = 0) => taken' = Size,
           stream # "readable" => taken' >= taken
    PROVE  IInv'
<1>1. /\ taken \in 0 .. Size /\ got \in 0 .. Size /\ queue \in 0 .. 1
      /\ pull.n \in 0 .. MaxLength
  BY Now
<1>2. pull'.n \in 0 .. MaxLength
  BY DEF PullType
<1>3. TypeOK'
  BY DEF IInv, TypeOK
<1>4. FirstFilled'
  BY DEF IInv, FirstFilled
<1>5. BytesAccounted'
  <2> SUFFICES ASSUME stream = "readable"
               PROVE  /\ taken' = got + queue + pull'.n + Held(pending)
                      /\ queue # 0 => pending = <<>>
    BY DEF BytesAccounted, Held
  <2>1. /\ taken = got + queue + pull.n + Held(pending)
        /\ queue # 0 => pending = <<>>
    BY Now
  <2>2. Held(pending) \in Int
    <3>1. CASE pending = <<>>
      BY <3>1 DEF Held
    <3>2. CASE pending # <<>>
      <4>1. pending[1].filled \in 0 .. 1
        BY <3>2, Now, First
      <4> QED
        BY <3>2, <4>1 DEF Held
    <3> QED
      BY <3>1, <3>2
  <2> QED
    BY <1>1, <1>2, <2>1, <2>2, SizeAssumption, BoundsAssumption
<1>6. PullsFirst'
  BY DEF IInv, PullsFirst, Cut
<1>7. EmptyAtEnd'
  BY DEF IInv, EmptyAtEnd, Safe
<1>8. NoPanic' /\ EndsRight'
  BY <1>1, SizeAssumption DEF IInv, NoPanic, EndsRight
<1> QED
  BY <1>3, <1>4, <1>5, <1>6, <1>7, <1>8 DEF IInv

\* The goroutine reads some bytes, none, or an error.
LEMMA ReadStep ==
    ASSUME IInv, Read
    PROVE  IInv'
<1>1. /\ pull \in PullType /\ pull.at = "reading" /\ taken \in 0 .. Size
      /\ failed \in BOOLEAN
      /\ UNCHANGED <<stream, got, queue, pending, plain>>
  BY Now DEF Read
<1>2. pull.n = 0
  BY <1>1 DEF IInv, PullsFirst
<1>3. ASSUME NEW n \in 0 .. MaxLength,
             n <= pull.to - pull.from, n <= Size - taken,
             n = 0 <=> (pull.to = pull.from \/ taken = Size),
             pull' = [pull EXCEPT !.at = "read", !.n = n],
             taken' = taken + n, failed' = failed
      PROVE  IInv'
  <2>1. /\ pull' \in PullType /\ pull'.at = "read" /\ pull'.n = n
        /\ pull'.from = pull.from /\ pull'.to = pull.to
    BY <1>1, <1>3 DEF PullType
  <2>2. taken' \in 0 .. Size
    BY <1>1, <1>3, SizeAssumption
  <2>3. (plain /\ stream = "readable" /\ n = 0) => taken' = Size
    <3> SUFFICES ASSUME plain, stream = "readable", n = 0
                 PROVE  taken' = Size
      OBVIOUS
    <3>1. pending # <<>> /\ pull.from = Cut(pending[1]).from /\ pull.to = Cut(pending[1]).to
      BY <1>1 DEF IInv, PullsFirst
    <3>2. /\ pending[1].offset \in 0 .. MaxOffset /\ pending[1].length \in 1 .. MaxLength
          /\ pending[1].elem \in 1 .. 2 /\ pending[1].filled \in 0 .. 1
          /\ pending[1].filled < pending[1].elem
          /\ Safe(pending[1])
      <4>1. 1 \in 1 .. Len(pending)
        BY <3>1, Now, First
      <4> QED
        BY <3>1, <4>1, Now, First DEF AllSafe
    <3>3. /\ pull.from = pending[1].offset + pending[1].filled
          /\ pull.to = pending[1].length - pending[1].filled
      BY <3>1, CutIs
    <3>4. pull.to # pull.from
      BY <3>2, <3>3, BoundsAssumption DEF Safe
    <3> QED
      BY <1>1, <1>3, <3>4
  <2> QED
    BY <1>1, <1>2, <1>3, <2>1, <2>2, <2>3, Stays
<1>4. ASSUME pull' = [pull EXCEPT !.at = "error"], failed' = TRUE, taken' = taken
      PROVE  IInv'
  <2>1. /\ pull' \in PullType /\ pull'.at = "error" /\ pull'.n = 0
        /\ pull'.from = pull.from /\ pull'.to = pull.to
    BY <1>1, <1>2, <1>4 DEF PullType
  <2> QED
    BY <1>1, <1>2, <1>4, <2>1, Stays
<1> QED
  BY <1>3, <1>4 DEF Read

\* pull responds to the first view with what was read, which is not nothing.
LEMMA RespondStep ==
    ASSUME IInv, stream = "readable", pull.at = "read", pull.n # 0,
           Respond(pull.n), UNCHANGED <<taken, failed, plain>>
    PROVE  IInv'
<1>1. pending # <<>>
  BY DEF IInv, PullsFirst
<1> DEFINE h == pending[1]
           m == h.filled + pull.n
           d == [h EXCEPT !.filled = m]
           rest == Tail(pending)
<1>2. /\ h \in Descriptor /\ h.elem \in 1 .. 2 /\ h.filled \in 0 .. 1
      /\ h.length \in 1 .. MaxLength /\ h.filled < h.elem
      /\ 1 \in 1 .. Len(pending)
      /\ pull.n \in 1 .. MaxLength /\ got \in 0 .. Size /\ taken \in 0 .. Size
      /\ queue = 0 /\ taken = got + m
  <2>1. /\ h \in Descriptor /\ h.elem \in 1 .. 2 /\ h.filled \in 0 .. 1
        /\ h.length \in 1 .. MaxLength /\ h.filled < h.elem
        /\ 1 \in 1 .. Len(pending) /\ Held(pending) = h.filled
    BY <1>1, Now, First DEF Held
  <2>2. /\ pull.n \in 0 .. MaxLength /\ got \in 0 .. Size /\ taken \in 0 .. Size
        /\ queue = 0 /\ taken = got + queue + pull.n + Held(pending)
    BY <1>1, Now
  <2> QED
    BY <2>1, <2>2, BoundsAssumption, SizeAssumption
<1>3. /\ pending \in Seq(Descriptor) /\ Len(pending) \in Nat \ {0}
      /\ \A i \in 1 .. Len(pending) :
            /\ pending[i].filled < pending[i].elem
            /\ i > 1 => pending[i].filled = 0
      /\ plain => AllSafe(pending)
  BY <1>1, Now, EmptySeq DEF Begun
<1>4. /\ d.filled = m /\ d.elem = h.elem /\ d.offset = h.offset /\ d.length = h.length
      /\ m \in 0 .. MaxLength => d \in Descriptor
  BY <1>2 DEF Descriptor
<1>5. IF d.filled < d.elem
      THEN /\ pending' = [pending EXCEPT ![1] = d]
           /\ PullAgain(<<d>>)
           /\ UNCHANGED <<got, queue>>
      ELSE HandOut(d, rest)
  BY DEF Respond
<1>6. m \in Nat /\ m > 0
  BY <1>2, BoundsAssumption
<1>7. CASE m < h.elem
  <2> DEFINE s == [pending EXCEPT ![1] = d]
  <2>1. m = 1 /\ d \in Descriptor
    BY <1>2, <1>4, <1>6, <1>7, BoundsAssumption
  <2>2. pending' = s /\ PullAgain(<<d>>) /\ UNCHANGED <<got, queue>>
    BY <1>4, <1>5, <1>7
  <2> HIDE DEF d, h, m
  <2>3. /\ s \in Seq(Descriptor) /\ Len(s) = Len(pending)
        /\ \A j \in 1 .. Len(pending) : s[j] = IF j = 1 THEN d ELSE pending[j]
    BY <1>2, <1>3, <2>1, ExceptSeq
  <2> HIDE DEF s
  <2>4. s # <<>> /\ s[1] = d /\ Held(s) = m
    <3>1. Len(s) # 0 /\ Len(<<>>) = 0
      BY <1>3, <2>3
    <3>2. s # <<>> /\ s[1] = d
      BY <1>2, <2>3, <3>1
    <3> QED
      BY <1>4, <3>2 DEF Held
  <2>5. Begun(s)
    <3> SUFFICES ASSUME NEW i \in 1 .. Len(s)
                 PROVE  s[i].filled < s[i].elem /\ (i > 1 => s[i].filled = 0)
      BY <2>3 DEF Begun
    <3>1. CASE i = 1
      BY <1>4, <1>7, <2>4, <3>1
    <3>2. CASE i # 1
      BY <1>3, <2>3, <3>2
    <3> QED
      BY <3>1, <3>2
  <2>6. plain => AllSafe(s)
    <3> SUFFICES ASSUME plain, NEW i \in 1 .. Len(s)
                 PROVE  Safe(s[i])
      BY DEF AllSafe
    <3>1. Safe(h)
      BY <1>2, <1>3 DEF AllSafe, h
    <3>2. Safe(d)
      BY <1>4, <3>1 DEF Safe
    <3> QED
      BY <1>3, <2>3, <3>2 DEF AllSafe
  <2>7. PullAgain(s)
    <3>1. Head(s) = d
      BY <2>4, <2>5, First
    <3>2. <<d>> # <<>> /\ Head(<<d>>) = d
      OBVIOUS
    <3> QED
      BY <2>2, <2>4, <3>1, <3>2, SamePull
  <2>8. plain \in BOOLEAN
    BY Now
  <2>9. got' \in 0 .. Size /\ queue' = 0 /\ taken = got' + queue' + Held(s)
    BY <1>2, <1>6, <2>2, <2>4
  <2> QED
    BY <2>2, <2>5, <2>6, <2>7, <2>8, <2>9, PullStep
<1>8. CASE ~(m < h.elem)
  <2> DEFINE over == d.filled % d.elem
             next == IF rest = <<>> THEN <<>>
                     ELSE IF over > 0 /\ rest[1].elem = 1 THEN Tail(rest)
                     ELSE [rest EXCEPT ![1].filled = over]
             extra == IF over > 0 /\ rest # <<>> /\ rest[1].elem = 1 THEN 1 ELSE 0
  <2>1. HandOut(d, rest)
    BY <1>4, <1>5, <1>8
  <2> HIDE DEF d, h, m, rest
  <2>2. /\ got' = got + d.filled - over + extra
        /\ queue' = (IF rest = <<>> THEN over ELSE 0)
        /\ pending' = next
        /\ PullAgain(next)
    BY <2>1 DEF HandOut
  <2>3. over \in 0 .. 1 /\ over <= m
    <3>1. over = m % h.elem /\ (h.elem = 1 \/ h.elem = 2)
      BY <1>2, <1>4
    <3>2. \A k \in Nat : k > 0 => k % 1 = 0 /\ k % 2 \in 0 .. 1 /\ k % 2 <= k
      OBVIOUS
    <3> QED
      BY <1>6, <3>1, <3>2
  <2>4. /\ rest \in Seq(Descriptor) /\ Len(rest) = Len(pending) - 1
        /\ \A i \in 1 .. Len(rest) : rest[i] = pending[i + 1]
    BY <1>1, <1>3, HeadTailProperties DEF rest
  <2>5. \A i \in 1 .. Len(rest) : i + 1 \in 1 .. Len(pending) /\ i + 1 > 1
    BY <1>3, <2>4
  <2>6. /\ \A i \in 1 .. Len(rest) : rest[i].filled = 0
        /\ plain => AllSafe(rest)
    BY <1>3, <2>4, <2>5 DEF AllSafe
  <2>7. PICK k \in 0 .. 1 : k = over
    BY <2>3
  <2>8. PICK t : t = next
    OBVIOUS
  <2>9. /\ Begun(t)
        /\ AllSafe(rest) => AllSafe(t)
        /\ rest = <<>> => t = <<>>
        /\ Held(t) = IF rest = <<>> \/ (k > 0 /\ rest[1].elem = 1) THEN 0 ELSE k
    <3>1. t = NextViews(rest, k)
      BY <2>7, <2>8 DEF NextViews
    <3> QED
      BY <2>4, <2>6, <2>7, <3>1, Behind
  <2>10. /\ got' = got + m - k
                   + (IF k > 0 /\ rest # <<>> /\ rest[1].elem = 1 THEN 1 ELSE 0)
         /\ queue' = (IF rest = <<>> THEN k ELSE 0)
         /\ pending' = t /\ PullAgain(t) /\ k <= m
    BY <1>4, <2>2, <2>3, <2>7, <2>8
  <2> HIDE DEF over, next
  <2>11. /\ got' \in 0 .. Size /\ queue' \in 0 .. 1 /\ (queue' # 0 => t = <<>>)
         /\ taken = got' + queue' + Held(t)
    BY <1>2, <1>6, <2>9, <2>10, SizeAssumption
  <2>12. plain' \in BOOLEAN /\ (plain' => plain /\ AllSafe(t))
    BY <2>6, <2>9, Now
  <2>13. Begun(t) /\ pending' = t /\ PullAgain(t)
    BY <2>9, <2>10
  <2> QED
    BY <2>11, <2>12, <2>13, PullStep
<1> QED
  BY <1>7, <1>8

\* The job that continues pull: the stream closes, or the views get their bytes;
\* after a cancel nothing is left to do.
LEMMA SettleStep ==
    ASSUME IInv, Settle
    PROVE  IInv'
<1>1. pull.at = "read" /\ UNCHANGED <<taken, failed, plain>>
  BY DEF Settle
<1>2. CASE stream # "readable"
  <2>1. pull' = NoPull /\ UNCHANGED <<stream, got, queue, pending>>
    BY <1>2 DEF Settle
  <2>2. NoPull \in PullType /\ NoPull.at = "idle" /\ NoPull.n = 0
    BY BoundsAssumption DEF NoPull, PullType
  <2>3. taken \in 0 .. Size /\ failed \in BOOLEAN
    BY Now
  <2> QED
    BY <1>1, <1>2, <2>1, <2>2, <2>3, Stays
<1>3. CASE stream = "readable" /\ pull.n = 0
  <2>1. pending # <<>>
    BY <1>1, <1>3 DEF IInv, PullsFirst
  <2>2. pending[1].filled \in 0 .. 1 /\ Head(pending) = pending[1]
    BY <2>1, Now, First
  <2>3. plain => taken = Size
    BY <1>1, <1>3 DEF IInv, EmptyAtEnd
  <2>4. taken = got + pending[1].filled
    BY <1>3, <2>1, <2>2, Now DEF Held
  <2> DEFINE state == IF Head(pending).filled > 0 THEN "errored" ELSE "closed"
  <2>5. End(state)
    BY <1>1, <1>3 DEF Settle, Close
  <2>6. PICK e \in {"closed", "errored"} :
            e = state /\ (e = "closed" => pending[1].filled = 0)
    BY <2>2
  <2> HIDE DEF state
  <2>7. End(e)
    BY <2>5, <2>6
  <2>8. e = "closed" => got = taken
    BY <2>4, <2>6, Now
  <2> QED
    BY <1>1, <2>3, <2>6, <2>7, <2>8, EndStep
<1>4. CASE stream = "readable" /\ pull.n # 0
  <2>1. Respond(pull.n)
    BY <1>4 DEF Settle
  <2> QED
    BY <1>1, <1>4, <2>1, RespondStep
<1> QED
  BY <1>2, <1>3, <1>4

\* Reading failed: the stream is in error, unless it had ended before.
LEMMA RejectStep ==
    ASSUME IInv, Reject
    PROVE  IInv'
<1>1. /\ pull.at = "error" /\ UNCHANGED <<taken, failed, plain>>
      /\ End(IF stream = "readable" THEN "errored" ELSE stream)
  BY DEF Reject
<1>2. failed
  BY <1>1 DEF IInv, EmptyAtEnd
<1>3. CASE stream = "panicked"
  <2>1. /\ stream' = stream /\ pending' = <<>> /\ queue' = 0
        /\ pull' = NoPull /\ got' = got
    BY <1>1, <1>3 DEF End
  <2>2. ~plain
    BY <1>3 DEF IInv, NoPanic
  <2>3. NoPull \in PullType /\ NoPull.at = "idle" /\ NoPull.n = 0
    BY BoundsAssumption DEF NoPull, PullType
  <2>4. <<>> \in Seq(Descriptor) /\ Len(<<>>) = 0
    BY EmptySeq
  <2>5. TypeOK'
    BY <1>1, <1>3, <2>1, <2>3, <2>4, Now DEF TypeOK
  <2>6. FirstFilled' /\ EmptyAtEnd' /\ BytesAccounted' /\ PullsFirst'
    BY <1>1, <1>3, <2>1, <2>2, <2>3, <2>4
       DEF FirstFilled, EmptyAtEnd, BytesAccounted, PullsFirst
  <2>7. NoPanic' /\ EndsRight'
    BY <1>1, <1>3, <2>1, <2>2 DEF NoPanic, EndsRight
  <2> QED
    BY <2>5, <2>6, <2>7 DEF IInv
<1>4. CASE stream # "panicked"
  <2>1. PICK e \in {"closed", "errored", "cancelled"} :
            e = (IF stream = "readable" THEN "errored" ELSE stream)
    BY <1>4 DEF IInv, TypeOK
  <2>2. End(e)
    BY <1>1, <2>1
  <2>3. plain /\ e = "closed" => got = Size
    BY <2>1 DEF IInv, EndsRight
  <2> QED
    BY <1>1, <1>2, <2>2, <2>3, EndStep
<1> QED
  BY <1>3, <1>4

\* JavaScript cancels the stream; a goroutine may still read.
LEMMA CancelStep ==
    ASSUME IInv, Cancel
    PROVE  IInv'
<1>1. /\ stream' = "cancelled" /\ pending' = <<>> /\ queue' = 0
      /\ UNCHANGED <<taken, got, pull, failed, plain>>
  BY DEF Cancel
<1>2. <<>> \in Seq(Descriptor) /\ Len(<<>>) = 0
  BY EmptySeq
<1>3. TypeOK'
  BY <1>1, <1>2, Now DEF TypeOK
<1>4. FirstFilled' /\ BytesAccounted'
  BY <1>1, <1>2 DEF FirstFilled, BytesAccounted
<1>5. PullsFirst' /\ EmptyAtEnd'
  BY <1>1, <1>2 DEF IInv, PullsFirst, EmptyAtEnd
<1>6. NoPanic' /\ EndsRight'
  BY <1>1 DEF NoPanic, EndsRight
<1> QED
  BY <1>3, <1>4, <1>5, <1>6 DEF IInv

\* JavaScript reads: the byte in the queue answers it, or a view is pending.
LEMMA ReadViewStep ==
    ASSUME IInv, NEW v \in Views, ReadView(v)
    PROVE  IInv'
<1> DEFINE filled == IF pending = <<>> THEN queue ELSE 0
           d == [offset |-> v.offset, length |-> v.length, elem |-> v.elem,
                 filled |-> filled]
<1>1. /\ stream = "readable" /\ plain' = (plain /\ Safe(v))
      /\ queue' = queue - filled /\ UNCHANGED <<taken, failed>>
      /\ IF filled = v.elem
         THEN got' = got + filled /\ UNCHANGED <<pending, pull, stream>>
         ELSE /\ pending' = Append(pending, d)
              /\ UNCHANGED got
              /\ IF pull.at = "idle" THEN Pull(pending') ELSE UNCHANGED <<pull, stream>>
  BY DEF ReadView
<1>2. /\ v.offset \in 0 .. MaxOffset /\ v.length \in 1 .. MaxLength /\ v.elem \in 1 .. 2
  BY DEF Views
<1>3. /\ Begun(pending) /\ taken \in 0 .. Size /\ got \in 0 .. Size /\ queue \in 0 .. 1
      /\ pull \in PullType /\ failed \in BOOLEAN /\ plain \in BOOLEAN
      /\ plain => AllSafe(pending)
      /\ taken = got + queue + pull.n + Held(pending)
      /\ queue # 0 => pending = <<>>
      /\ pull.at = "idle" <=> pending = <<>>
      /\ pull.at = "idle" => pull.n = 0
  BY <1>1, Now DEF IInv, PullsFirst
<1>4. filled = (IF pending = <<>> THEN queue ELSE 0) /\ filled \in 0 .. 1
  BY <1>3
<1>5. plain' \in BOOLEAN /\ (plain' => plain /\ Safe(v))
  BY <1>1, <1>3
<1>6. CASE filled = v.elem
  <2> HIDE DEF filled
  <2>1. pending = <<>> /\ queue = filled /\ filled = 1 /\ pull.at = "idle" /\ pull.n = 0
    BY <1>2, <1>3, <1>4, <1>6
  <2>2. /\ got' = got + 1 /\ queue' = 0
        /\ UNCHANGED <<pending, pull, stream, taken, failed>>
    BY <1>1, <1>6, <2>1
  <2>3. taken = got'
    BY <1>3, <2>1, <2>2 DEF Held
  <2>4. TypeOK'
    BY <1>1, <1>3, <1>5, <2>2, <2>3 DEF TypeOK, Begun
  <2>5. FirstFilled'
    BY <2>2 DEF IInv, FirstFilled
  <2>6. BytesAccounted'
    <3>1. pull'.n = 0 /\ pending' = <<>> /\ taken' = got' + queue' + 0 + 0
      BY <1>3, <2>1, <2>2, <2>3, SizeAssumption
    <3> QED
      BY <2>2, <3>1 DEF BytesAccounted
  <2>7. PullsFirst'
    BY <1>1, <2>1, <2>2 DEF PullsFirst
  <2>8. EmptyAtEnd'
    <3>1. Len(<<>>) = 0
      BY EmptySeq
    <3> QED
      BY <2>1, <2>2, <3>1 DEF EmptyAtEnd
  <2>9. NoPanic' /\ EndsRight'
    BY <1>1, <2>2 DEF NoPanic, EndsRight
  <2> QED
    BY <2>4, <2>5, <2>6, <2>7, <2>8, <2>9 DEF IInv
<1>7. CASE filled # v.elem
  <2>1. /\ d.filled = filled /\ d.elem = v.elem
        /\ d.offset = v.offset /\ d.length = v.length
    OBVIOUS
  <2>2. filled < v.elem /\ filled \in 0 .. MaxLength
    <3> HIDE DEF filled
    <3> QED
      BY <1>2, <1>4, <1>7, BoundsAssumption
  <2>3. d \in Descriptor
    <3> HIDE DEF filled
    <3> QED
      BY <1>2, <2>2 DEF Descriptor
  <2>4. /\ pending' = Append(pending, d) /\ UNCHANGED got
        /\ IF pull.at = "idle" THEN Pull(pending') ELSE UNCHANGED <<pull, stream>>
    BY <1>1, <1>7
  <2>5. queue' = queue - filled
    BY <1>1
  <2> HIDE DEF d, filled
  <2>6. PICK s : s = pending'
    OBVIOUS
  <2>7. Len(pending) \in Nat
    BY <1>3, LenProperties DEF Begun
  <2>8. /\ s \in Seq(Descriptor) /\ s # <<>> /\ Len(s) = Len(pending) + 1
        /\ \A i \in 1 .. Len(pending) : s[i] = pending[i]
        /\ s[Len(pending) + 1] = d
    BY <1>3, <2>3, <2>4, <2>6, AppendProperties DEF Begun
  <2>9. pending = <<>> => Len(pending) = 0
    BY EmptySeq
  <2>10. pending # <<>> => Len(pending) > 0 /\ filled = 0
    BY <1>3, <1>4, EmptySeq DEF Begun
  <2>11. Begun(s)
    <3> SUFFICES ASSUME NEW i \in 1 .. Len(s)
                 PROVE  s[i].filled < s[i].elem /\ (i > 1 => s[i].filled = 0)
      BY <2>8 DEF Begun
    <3>1. CASE i \in 1 .. Len(pending)
      BY <1>3, <2>8, <3>1 DEF Begun
    <3>2. CASE i \notin 1 .. Len(pending)
      <4>1. i = Len(pending) + 1
        BY <2>7, <2>8, <3>2
      <4>2. s[i] = d /\ d.filled = filled /\ d.elem = v.elem
        BY <2>1, <2>8, <4>1
      <4>3. i > 1 => filled = 0
        BY <2>7, <2>9, <2>10, <4>1
      <4> QED
        BY <2>2, <4>2, <4>3
    <3> QED
      BY <3>1, <3>2
  <2>12. plain' => plain /\ AllSafe(s)
    <3>1. Safe(v) => Safe(d)
      BY <2>1 DEF Safe
    <3>2. \A i \in 1 .. Len(s) : i \in 1 .. Len(pending) \/ i = Len(pending) + 1
      BY <2>7, <2>8
    <3> QED
      BY <1>3, <1>5, <2>8, <3>1, <3>2 DEF AllSafe
  <2>13. CASE pull.at = "idle"
    <3>1. pending = <<>> /\ pull.n = 0 /\ filled = queue /\ queue' = 0 /\ Held(pending) = 0
      BY <1>3, <1>4, <2>5, <2>13 DEF Held
    <3>2. s[1] = d /\ Held(s) = filled
      <4>1. s[1] = d
        BY <2>8, <2>9, <3>1
      <4> QED
        BY <2>1, <2>8, <4>1 DEF Held
    <3>3. PullAgain(s)
      BY <2>4, <2>6, <2>8, <2>13 DEF PullAgain
    <3>4. got' \in 0 .. Size /\ queue' \in 0 .. 1 /\ taken = got' + queue' + Held(s)
      BY <1>3, <2>4, <3>1, <3>2, SizeAssumption
    <3> QED
      BY <1>1, <1>5, <2>6, <2>11, <2>12, <3>1, <3>3, <3>4, PullStep
  <2>14. CASE pull.at # "idle"
    <3>1. /\ pending # <<>> /\ filled = 0 /\ queue = 0 /\ queue' = 0
          /\ UNCHANGED <<pull, stream, got>>
      BY <1>3, <1>4, <2>4, <2>5, <2>14
    <3>2. s[1] = pending[1] /\ Held(s) = Held(pending)
      <4>1. 1 \in 1 .. Len(pending)
        BY <1>3, <3>1, First
      <4> QED
        BY <2>8, <3>1, <4>1 DEF Held
    <3>3. TypeOK'
      BY <1>1, <1>3, <1>5, <2>6, <2>8, <3>1 DEF TypeOK
    <3>4. FirstFilled'
      BY <2>6, <2>11 DEF FirstFilled, Begun
    <3>5. BytesAccounted'
      <4>1. taken' = got' + queue' + pull'.n + Held(s)
        BY <1>1, <1>3, <3>1, <3>2
      <4> QED
        BY <2>6, <3>1, <4>1 DEF BytesAccounted, Held
    <3>6. PullsFirst'
      BY <1>1, <2>6, <2>8, <2>14, <3>1, <3>2 DEF IInv, PullsFirst
    <3>7. EmptyAtEnd'
      <4>1. plain' => \A i \in 1 .. Len(s) : Safe(s[i])
        BY <2>12 DEF AllSafe
      <4> QED
        BY <1>1, <1>5, <2>6, <3>1, <4>1 DEF IInv, EmptyAtEnd
    <3>8. NoPanic' /\ EndsRight'
      BY <1>1, <3>1 DEF NoPanic, EndsRight
    <3> QED
      BY <3>3, <3>4, <3>5, <3>6, <3>7, <3>8 DEF IInv
  <2> QED
    BY <2>13, <2>14
<1> QED
  BY <1>6, <1>7

-----------------------------------------------------------------------------
(* The invariant. *)

\* At first nothing is read.
LEMMA InitHolds == Init => IInv
<1> SUFFICES ASSUME Init
             PROVE  IInv
  OBVIOUS
<1>0. failed = FALSE /\ plain = TRUE
  BY DEF Init
<1>1. /\ stream = "readable" /\ taken = 0 /\ got = 0 /\ queue = 0 /\ pending = <<>>
      /\ pull = NoPull
  BY DEF Init
<1>2. NoPull \in PullType /\ NoPull.at = "idle" /\ NoPull.n = 0
  BY BoundsAssumption DEF NoPull, PullType
<1>3. <<>> \in Seq(Descriptor) /\ Len(<<>>) = 0
  BY EmptySeq
<1>4. TypeOK
  <2>1. pending \in Seq(Descriptor) /\ pull \in PullType
    BY <1>1, <1>2, <1>3
  <2>2. /\ taken \in 0 .. Size /\ got \in 0 .. Size /\ queue \in 0 .. 1
    BY <1>1, SizeAssumption
  <2>3. failed \in BOOLEAN /\ plain \in BOOLEAN
    BY <1>0
  <2> QED
    BY <1>1, <2>1, <2>2, <2>3 DEF TypeOK
<1>5. FirstFilled /\ EmptyAtEnd /\ PullsFirst
  BY <1>1, <1>2, <1>3 DEF FirstFilled, EmptyAtEnd, PullsFirst
<1>6. BytesAccounted
  BY <1>1, <1>2 DEF BytesAccounted
<1>7. NoPanic /\ EndsRight
  BY <1>1 DEF NoPanic, EndsRight
<1> QED
  BY <1>4, <1>5, <1>6, <1>7 DEF IInv

\* Every step of the body, the loop and JavaScript keeps the invariant.
LEMMA NextHolds == IInv /\ [Next]_vars => IInv'
<1> SUFFICES ASSUME IInv, [Next]_vars
             PROVE  IInv'
  OBVIOUS
<1>1. ASSUME UNCHANGED vars
      PROVE  IInv'
  BY <1>1 DEF vars, IInv, TypeOK, FirstFilled, BytesAccounted, PullsFirst, EmptyAtEnd,
              NoPanic, EndsRight, Cut, Safe
<1> QED
  BY <1>1, ReadStep, SettleStep, RejectStep, CancelStep, ReadViewStep DEF Next

\* A behaviour keeps the inductive invariant.
LEMMA Inductive == Spec => []IInv
BY InitHolds, NextHolds, PTL DEF Spec

\* Whatever views JavaScript reads into, no byte of the body is lost or handed out
\* twice, and the goroutine of readInto writes where the stream hands out next and
\* never behind the view; with the inductive invariant this follows from.
THEOREM Invariance == Spec => []BytesInv
<1>1. IInv => WritesInView
  <2> SUFFICES ASSUME IInv, stream = "readable", pull.at = "reading"
               PROVE  /\ pull.from = Head(pending).offset + Head(pending).filled
                      /\ pull.to <= Head(pending).offset + Head(pending).length
    BY DEF WritesInView
  <2>1. /\ pending # <<>>
        /\ pull.from = Cut(pending[1]).from /\ pull.to = Cut(pending[1]).to
    BY DEF IInv, PullsFirst
  <2>2. /\ pending[1].offset \in 0 .. MaxOffset /\ pending[1].length \in 1 .. MaxLength
        /\ pending[1].filled \in 0 .. 1 /\ Head(pending) = pending[1]
    BY <2>1, Now, First
  <2>3. /\ pull.from = pending[1].offset + pending[1].filled
        /\ pull.to = pending[1].length - pending[1].filled
    BY <2>1, CutIs
  <2> QED
    BY <2>2, <2>3, BoundsAssumption
<1>2. IInv => BytesInv
  BY <1>1 DEF BytesInv
<1> QED
  BY <1>2, Inductive, PTL

\* The slice buffer[offset:length] of readInto is never reversed, and the process
\* never ends by it, as long as every view leaves more of the buffer behind its
\* offset than the offset and the elements being filled take.
THEOREM NeverPanics == Spec => []NoPanic
<1>1. IInv => NoPanic
  BY DEF IInv
<1> QED
  BY <1>1, Inductive, PTL

\* For such views pull closes the stream only when the whole body was handed out,
\* and a stream is in error only when reading failed or the body has ended: an
\* empty read is the end of the body.
THEOREM EndsWithBody == Spec => []EndsRight
<1>1. IInv => EndsRight
  BY DEF IInv
<1> QED
  BY <1>1, Inductive, PTL
=============================================================================
