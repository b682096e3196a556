--------------------------- MODULE ReadableStream ---------------------------
(***************************************************************************)
(* A body read by JavaScript: readInto of extensions/stream (the goroutine *)
(* that reads an io.Reader into a view of an ArrayBuffer) and the pull of  *)
(* wrapper.ts that calls it, between a reader of the stream and the body.  *)
(* The queues of the byte stream controller are those of the web-streams   *)
(* polyfill, as far as pull can tell them apart.                           *)
(*                                                                         *)
(* Bytes are counted, they have no values: a body is consumed in order by  *)
(* one goroutine at a time, so what can go wrong is where bytes are        *)
(* written, how many are handed out, and when the stream ends.             *)
(***************************************************************************)
EXTENDS Integers, Sequences

CONSTANTS
    Size,       \* bytes of the body
    MaxOffset,  \* bound: of the views that JavaScript reads into
    MaxLength,  \* bound: of these views
    MaxPending  \* bound: reads under way at once

ASSUME SizeAssumption == Size \in Nat
ASSUME BoundsAssumption ==
    MaxOffset \in Nat /\ MaxLength \in Nat /\ MaxPending \in Nat

\* A view given to read(view).  The default reader allocates one of offset 0
\* and of one-byte elements.  With elements of at most 2 bytes, at most one
\* byte is ever left over.
Views ==
    {v \in [offset : 0 .. MaxOffset, length : 1 .. MaxLength, elem : 1 .. 2] :
        v.offset % v.elem = 0 /\ v.length % v.elem = 0}

VARIABLES
    stream,  \* "readable", "closed", "errored", "cancelled" or "panicked"
    taken,   \* bytes read from the body
    got,     \* bytes handed out to JavaScript
    queue,   \* bytes left over from a view that they did not fill an element of
    pending, \* pull-into descriptors: views, with the bytes filled in
    pull,    \* the call of pull under way, see PullType
    failed,  \* has reading the body failed?
    plain    \* have all views been such that their cut is never empty?

vars == <<stream, taken, got, queue, pending, pull, failed, plain>>

Descriptor ==
    [offset : 0 .. MaxOffset, length : 1 .. MaxLength, elem : 1 .. 2,
     filled : 0 .. MaxLength]

\* at: its progress; from, to: the cut of the buffer given to Read; n: what
\* Read returned.
PullType ==
    [at : {"idle", "reading", "read", "error"},
     from : 0 .. MaxOffset + MaxLength, to : 0 .. MaxLength, n : 0 .. MaxLength]

\* Types of every variable.
TypeOK ==
    /\ stream \in {"readable", "closed", "errored", "cancelled", "panicked"}
    /\ taken \in 0 .. Size
    /\ got \in 0 .. Size
    /\ queue \in 0 .. 1
    /\ pending \in Seq(Descriptor)
    /\ pull \in PullType
    /\ failed \in BOOLEAN
    /\ plain \in BOOLEAN

NoPull == [at |-> "idle", from |-> 0, to |-> 0, n |-> 0]

Init ==
    /\ stream = "readable"
    /\ taken = 0 /\ got = 0 /\ queue = 0
    /\ pending = <<>>
    /\ pull = NoPull
    /\ failed = FALSE
    /\ plain = TRUE

-----------------------------------------------------------------------------
(* pull and readInto. *)

\* Faulty: the cut ends before an offset that was already left out.
CutShort(d) ==
    [from |-> d.offset + d.filled, to |-> d.length - d.filled - d.offset]

\* buffer[offset:length], where offset and length are those of the rest of the
\* head view: the second index is used as an end.
Cut(d) == [from |-> d.offset + d.filled, to |-> d.length - d.filled]

\* pull is called: the rest of the head view is cut and a goroutine reads; a
\* cut that ends before it starts ends the process.
Pull(descriptors) ==
    LET cut == Cut(Head(descriptors)) IN
    IF cut.from > cut.to
    THEN stream' = "panicked" /\ pull' = NoPull
    ELSE /\ pull' = [at |-> "reading", from |-> cut.from, to |-> cut.to, n |-> 0]
         /\ UNCHANGED stream

\* The goroutine: nothing is read into an empty cut nor at the end, else
\* some bytes, and reading may fail.
Read ==
    /\ pull.at = "reading"
    /\ \/ \E n \in 0 .. MaxLength :
             /\ n <= pull.to - pull.from /\ n <= Size - taken
             /\ n = 0 <=> (pull.to = pull.from \/ taken = Size)
             /\ pull' = [pull EXCEPT !.at = "read", !.n = n]
             /\ taken' = taken + n
             /\ UNCHANGED failed
       \/ /\ pull' = [pull EXCEPT !.at = "error"]
          /\ failed' = TRUE
          /\ UNCHANGED taken
    /\ UNCHANGED <<stream, got, queue, pending, plain>>

\* The pull that follows, for what is still pending.
PullAgain(descriptors) ==
    IF descriptors = <<>> THEN pull' = NoPull /\ UNCHANGED stream
                          ELSE Pull(descriptors)

\* The stream ends, and with it what is pending.
End(state) ==
    /\ stream' = state
    /\ pending' = <<>> /\ queue' = 0
    /\ pull' = NoPull
    /\ UNCHANGED got

\* controller.close: an element that has begun makes it an error.
Close == End(IF Head(pending).filled > 0 THEN "errored" ELSE "closed")

-----------------------------------------------------------------------------
(* The byte stream controller of the polyfill. *)

\* The descriptor d gives out its whole elements; a byte left over goes to
\* the next one, or to the queue when no other is pending.
HandOut(d, rest) ==
    LET over == d.filled % d.elem
        next == IF rest = <<>> THEN <<>>
                ELSE IF over > 0 /\ rest[1].elem = 1 THEN Tail(rest)
                ELSE [rest EXCEPT ![1].filled = over]
    IN
    /\ got' = got + d.filled - over
              + (IF over > 0 /\ rest # <<>> /\ rest[1].elem = 1 THEN 1 ELSE 0)
    /\ queue' = IF rest = <<>> THEN over ELSE 0
    /\ pending' = next
    /\ PullAgain(next)

\* respond(n).
Respond(n) ==
    LET d == [pending[1] EXCEPT !.filled = @ + n] IN
    IF d.filled < d.elem
    THEN /\ pending' = [pending EXCEPT ![1] = d]
         /\ PullAgain(<<d>>)
         /\ UNCHANGED <<got, queue>>
    ELSE HandOut(d, Tail(pending))

\* Faulty: the whole cut is handed out.
SettleWithCut ==
    /\ pull.at = "read"
    /\ IF stream # "readable" THEN pull' = NoPull /\ UNCHANGED <<stream, got, queue, pending>>
       ELSE IF pull.n = 0 THEN Close ELSE Respond(pull.to - pull.from)
    /\ UNCHANGED <<taken, failed, plain>>

\* Faulty: a short read counts as the last one.
SettleShortRead ==
    /\ pull.at = "read"
    /\ IF stream # "readable" THEN pull' = NoPull /\ UNCHANGED <<stream, got, queue, pending>>
       ELSE IF pull.n < pull.to - pull.from THEN Close ELSE Respond(pull.n)
    /\ UNCHANGED <<taken, failed, plain>>

\* Faulty: the stream is closed without a response to what is pending.
SettleClosing ==
    /\ pull.at = "read"
    /\ IF stream # "readable" THEN pull' = NoPull /\ UNCHANGED <<stream, got, queue, pending>>
       ELSE IF pull.n = 0
       THEN stream' = "closed" /\ pull' = NoPull /\ UNCHANGED <<got, queue, pending>>
       ELSE Respond(pull.n)
    /\ UNCHANGED <<taken, failed, plain>>

\* The promise of readInto is resolved: pull closes the stream or responds.
\* After a cancel there is nothing left to respond to.
Settle ==
    /\ pull.at = "read"
    /\ IF stream # "readable" THEN pull' = NoPull /\ UNCHANGED <<stream, got, queue, pending>>
       ELSE IF pull.n = 0 THEN Close ELSE Respond(pull.n)
    /\ UNCHANGED <<taken, failed, plain>>

\* It is rejected: so is the pull, which is an error of the stream.
Reject ==
    /\ pull.at = "error"
    /\ End(IF stream = "readable" THEN "errored" ELSE stream)
    /\ UNCHANGED <<taken, failed, plain>>

-----------------------------------------------------------------------------
(* JavaScript. *)

\* The rest of the view is never cut to nothing, however it is filled.
Safe(v) == v.offset + 2 * (v.elem - 1) < v.length

\* read() or read(view): what is queued is handed out, or fills the view, and
\* pull is called unless it is under way.
ReadView(v) ==
    LET filled == IF pending = <<>> THEN queue ELSE 0
        d == [offset |-> v.offset, length |-> v.length, elem |-> v.elem,
              filled |-> filled]
    IN
    /\ stream = "readable"
    /\ Len(pending) < MaxPending
    /\ plain' = (plain /\ Safe(v))
    /\ queue' = queue - filled
    /\ IF filled = v.elem
       THEN got' = got + filled /\ UNCHANGED <<pending, pull, stream>>
       ELSE /\ pending' = Append(pending, d)
            /\ UNCHANGED got
            /\ IF pull.at = "idle" THEN Pull(pending') ELSE UNCHANGED <<pull, stream>>
    /\ UNCHANGED <<taken, failed>>

\* cancel: the reading goroutine goes on.
Cancel ==
    /\ stream = "readable"
    /\ stream' = "cancelled"
    /\ pending' = <<>> /\ queue' = 0
    /\ UNCHANGED <<taken, got, pull, failed, plain>>

-----------------------------------------------------------------------------
Ended == stream # "readable" /\ pull.at = "idle"

Next ==
    \/ /\ stream # "panicked"
       /\ \/ \E v \in Views : ReadView(v)
          \/ Cancel
          \/ Read \/ Settle \/ Reject
    \/ Ended /\ UNCHANGED vars

\* A body answers or fails, and the loop runs what is posted to it.
Spec == Init /\ [][Next]_vars /\ WF_vars(Read) /\ WF_vars(Settle) /\ WF_vars(Reject)

-----------------------------------------------------------------------------
(* Properties. *)

\* readInto ends the process for no view that leaves a part of the buffer
\* behind its offset longer than the offset and the elements being filled.
NoPanic == stream = "panicked" => ~plain

\* For such views a stream is closed only when the whole body was handed out,
\* and is in error only when reading failed or the body ended within an
\* element: no body is cut short in silence.
EndsRight ==
    plain => /\ stream = "closed" => got = Size
             /\ stream = "errored" => failed \/ taken = Size

\* A goroutine writes where the stream hands out next, and not behind the view.
WritesInView ==
    (stream = "readable" /\ pull.at = "reading") =>
        LET d == Head(pending) IN
        /\ pull.from = d.offset + d.filled
        /\ pull.to <= d.offset + d.length

\* Only the first view has begun to be filled, by less than an element.
FirstFilled ==
    \A i \in 1 .. Len(pending) :
        /\ pending[i].filled < pending[i].elem
        /\ i > 1 => pending[i].filled = 0

\* No byte of the body is lost or handed out twice, whatever the views; a byte
\* left over waits in the first view, or in the queue when there is none.
BytesAccounted ==
    stream = "readable" =>
        /\ taken = got + queue + pull.n
                   + (IF pending = <<>> THEN 0 ELSE pending[1].filled)
        /\ queue # 0 => pending = <<>>

\* As long as the stream is readable, pull is under way for the first view, in
\* the cut that was made for it, exactly when a read is pending.
PullsFirst ==
    /\ pull.at # "read" => pull.n = 0
    /\ stream = "readable" =>
          /\ pull.at = "idle" <=> pending = <<>>
          /\ pull.at \in {"reading", "read"} =>
                /\ pull.from = Cut(pending[1]).from
                /\ pull.to = Cut(pending[1]).to

\* For plain views, Read returns nothing only at the end of the body; it fails
\* only with the body.
EmptyAtEnd ==
    /\ plain => \A i \in 1 .. Len(pending) : Safe(pending[i])
    /\ (plain /\ stream = "readable" /\ pull.at = "read" /\ pull.n = 0) => taken = Size
    /\ pull.at = "error" => failed

\* The inductive invariant.
IInv ==
    /\ TypeOK
    /\ FirstFilled /\ BytesAccounted /\ PullsFirst /\ EmptyAtEnd
    /\ NoPanic /\ EndsRight

\* Type correctness, and each byte in its place, with the inductive invariant
\* that this follows from.
BytesInv == IInv /\ WritesInView

\* A read is answered, whatever the views: bytes are handed out, or the stream
\* ends and leaves no read pending.
NoStall ==
    \A k \in 0 .. Size :
        (got = k /\ pending # <<>>) ~> (got # k \/ pending = <<>> \/ stream = "panicked")
=============================================================================
