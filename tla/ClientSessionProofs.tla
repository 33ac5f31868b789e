------------------------- MODULE ClientSessionProofs -------------------------
(***************************************************************************)
(* Safety of the command line client, for any number of chunks, pieces and *)
(* stalls.  The invariant is about the lines on their way to the parser:   *)
(* they are always a prefix of a well-formed stream, whose first line fits *)
(* the parser's state and whose chunks continue its output.  A connection  *)
(* that breaks keeps a prefix, and a prefix keeps the invariant.           *)
(***************************************************************************)
EXTENDS ClientSession, SequenceTheorems, TLAPS

\* The event in force when line i of w is read by a parser whose event is e.
EventAt(e, w, i) ==
    IF i = 1 THEN e ELSE IF w[i - 1].kind = "event" THEN w[i - 1].val ELSE "data"

\* Every payload is read under its own event, and no other line under an event that
\* still waits for its payload.
Framed(e, w) ==
    \A i \in 1..Len(w) : IF w[i].kind = "data" THEN w[i].val = EventAt(e, w, i)
                                               ELSE EventAt(e, w, i) = "data"

IsChunk(l) == l.kind = "data" /\ l.val = "data"
IsFinal(l) == l.kind = "data" /\ l.val \in {"done", "error"}

\* Chunk c is among the first n lines of w.
Has(w, n, c) == \E k \in 1..n : IsChunk(w[k]) /\ w[k].chunk = c

\* The chunks of w continue a text of got chunks without gap or repetition.
InOrder(w, got) ==
    \A i \in 1..Len(w) : IsChunk(w[i]) =>
        /\ w[i].chunk > got
        /\ \A k \in 1..(i - 1) : IsChunk(w[k]) => w[k].chunk < w[i].chunk
        /\ \A c \in (got + 1)..(w[i].chunk - 1) : Has(w, i - 1, c)

\* The first n lines of w bring a text of got chunks to all of the top chunks.
Completes(w, n, got, top) == \A c \in (got + 1)..top : Has(w, n, c)

ContractInv ==
    /\ produced \in 0..MaxChunks
    /\ sent \in 0..produced
    /\ outcome \in {"none", "completed", "failed", "cancelled"}
    /\ answer \in {"none", "refused", "streaming", "done", "error", "dropped"}
    /\ answer = "done" => outcome = "completed" /\ sent = produced
    /\ answer = "error" => outcome = "failed" /\ sent = produced

StageInv ==
    /\ place = "exited" <=> exit # "none"
    /\ place \in {"start", "connecting"} => uploaded = 0
    /\ place = "sending" => uploaded < BodyPieces
    /\ command = "status" => wire = <<>> /\ tail = "open" /\ answer = "none"
    /\ place = "reading" => answer \notin {"none", "refused"}
    /\ tail = "open" => (place # "exited" => present) /\ answer \in {"none", "streaming"}

TextInv ==
    /\ output = [i \in 1..Len(output) |-> i]
    /\ Len(output) <= sent
    /\ told => answer = "done" /\ Len(output) = sent

HeadInv ==
    /\ answer = "none" => wire = <<>>
    /\ place # "reading" /\ wire # <<>> => wire[1].kind = "head"
    /\ place # "reading" /\ tail = "open" => answer = "none" \/ wire # <<>>
    /\ \A i \in 1..Len(wire) : wire[i].kind = "head" =>
        IF wire[i].val = "200" THEN answer \notin {"none", "refused"} ELSE answer = "refused"

LinesInv ==
    /\ Framed(current_event, wire)
    /\ InOrder(wire, Len(output))
    /\ \A i \in 1..Len(wire) : IsChunk(wire[i]) => wire[i].chunk <= sent
    /\ \A i \in 1..Len(wire) : IsFinal(wire[i]) =>
        answer = wire[i].val /\ Completes(wire, i - 1, Len(output), sent)
    /\ tail = "open" => /\ EventAt(current_event, wire, Len(wire) + 1) = "data"
                        /\ Completes(wire, Len(wire), Len(output), sent)

ClockInv ==
    /\ stalled => stalls > 0
    /\ place = "reading" /\ stalls = 0 =>
        /\ quiet <= KeepAlive + 1
        /\ wire = <<>> /\ tail = "open" => quiet <= silent

SessionInv ==
    /\ ClientTypeOK
    /\ ContractInv
    /\ StageInv
    /\ TextInv
    /\ place # "exited" => HeadInv /\ LinesInv
    /\ ClockInv
    /\ FailureJustified
    /\ TimeoutJustified

-----------------------------------------------------------------------------
(* Streams of lines.                                                       *)

\* What the fields of a line are.
LEMMA LineFields ==
  ASSUME NEW l \in Lines
  PROVE  /\ l.kind \in {"head", "event", "data", "other"}
         /\ l.kind = "head" => l.val \in {"200", "error"}
         /\ l.kind = "event" => l.val \in Kinds
         /\ l.kind = "data" => l.val \in Kinds /\ l.chunk \in Nat
  BY DEF Lines

\* Reading the first line leaves a stream framed for the parser's next event.
LEMMA FramedTail ==
  ASSUME NEW w \in Seq(Lines), w # <<>>, NEW e, Framed(e, w)
  PROVE  /\ Framed(EventAt(e, w, 2), Tail(w))
         /\ EventAt(EventAt(e, w, 2), Tail(w), Len(Tail(w)) + 1) = EventAt(e, w, Len(w) + 1)
  <1>1. /\ Len(Tail(w)) = Len(w) - 1 /\ Len(w) \in Nat \ {0}
        /\ \A i \in 1..Len(Tail(w)) : Tail(w)[i] = w[i + 1]
    OBVIOUS
  <1>2. \A i \in 1..(Len(Tail(w)) + 1) :
            EventAt(EventAt(e, w, 2), Tail(w), i) = EventAt(e, w, i + 1)
    <2> SUFFICES ASSUME NEW i \in 1..(Len(Tail(w)) + 1)
                 PROVE  EventAt(EventAt(e, w, 2), Tail(w), i) = EventAt(e, w, i + 1)
      OBVIOUS
    <2>1. i = 1 \/ (i > 1 /\ Tail(w)[i - 1] = w[(i + 1) - 1])
      BY <1>1
    <2> QED
      BY <1>1, <2>1 DEF EventAt
  <1>3. \A i \in 1..Len(Tail(w)) : i + 1 \in 1..Len(w) /\ i \in 1..(Len(Tail(w)) + 1)
    BY <1>1
  <1> QED
    BY <1>1, <1>2, <1>3 DEF Framed

\* A prefix of a framed stream is framed.
LEMMA FramedPrefix ==
  ASSUME NEW w \in Seq(Lines), NEW k \in 0..Len(w), NEW e, Framed(e, w)
  PROVE  Framed(e, SubSeq(w, 1, k))
  <1>1. Len(SubSeq(w, 1, k)) = k /\ \A i \in 1..k : SubSeq(w, 1, k)[i] = w[i]
    OBVIOUS
  <1>2. \A i \in 1..k : EventAt(e, SubSeq(w, 1, k), i) = EventAt(e, w, i)
    BY <1>1 DEF EventAt
  <1> QED
    BY <1>1, <1>2 DEF Framed

\* Whole frames may be appended to a stream that does not end in an event line.
LEMMA FramedAppend ==
  ASSUME NEW w \in Seq(Lines), NEW v \in Seq(Lines), v # <<>>, NEW e,
         Framed(e, w), EventAt(e, w, Len(w) + 1) = "data", Framed("data", v),
         EventAt("data", v, Len(v) + 1) = "data"
  PROVE  Framed(e, w \o v) /\ EventAt(e, w \o v, Len(w \o v) + 1) = "data"
  <1>1. /\ Len(w \o v) = Len(w) + Len(v) /\ Len(w) \in Nat /\ Len(v) \in Nat \ {0}
        /\ \A i \in 1..Len(w) : (w \o v)[i] = w[i]
        /\ \A i \in 1..Len(v) : (w \o v)[Len(w) + i] = v[i]
    OBVIOUS
  <1>2. \A i \in 1..Len(w) : EventAt(e, w \o v, i) = EventAt(e, w, i)
    BY <1>1 DEF EventAt
  <1>3. \A i \in 1..(Len(v) + 1) : EventAt(e, w \o v, Len(w) + i) = EventAt("data", v, i)
    <2> SUFFICES ASSUME NEW i \in 1..(Len(v) + 1)
                 PROVE  EventAt(e, w \o v, Len(w) + i) = EventAt("data", v, i)
      OBVIOUS
    <2>1. CASE i = 1
      <3>1. EventAt(e, w \o v, Len(w) + 1) = EventAt(e, w, Len(w) + 1)
        BY <1>1 DEF EventAt
      <3> QED
        BY <2>1, <3>1 DEF EventAt
    <2>2. CASE i # 1
      <3>1. i - 1 \in 1..Len(v) /\ (Len(w) + i) - 1 = Len(w) + (i - 1) /\ Len(w) + i # 1
        BY <1>1, <2>2
      <3>2. (w \o v)[(Len(w) + i) - 1] = v[i - 1]
        BY <1>1, <3>1
      <3> QED
        BY <2>2, <3>1, <3>2 DEF EventAt
    <2> QED
      BY <2>1, <2>2
  <1>4. \A i \in 1..Len(w \o v) : i \in 1..Len(w) \/ \E j \in 1..Len(v) : i = Len(w) + j
    <2> SUFFICES ASSUME NEW i \in 1..Len(w \o v), i \notin 1..Len(w)
                 PROVE  i - Len(w) \in 1..Len(v) /\ i = Len(w) + (i - Len(w))
      OBVIOUS
    <2> QED
      BY <1>1
  <1>5. Framed(e, w \o v)
    <2> SUFFICES ASSUME NEW i \in 1..Len(w \o v)
                 PROVE  IF (w \o v)[i].kind = "data"
                        THEN (w \o v)[i].val = EventAt(e, w \o v, i)
                        ELSE EventAt(e, w \o v, i) = "data"
      BY DEF Framed
    <2>1. CASE i \in 1..Len(w)
      BY <1>1, <1>2, <2>1 DEF Framed
    <2>2. ASSUME NEW j \in 1..Len(v), i = Len(w) + j
          PROVE  IF (w \o v)[i].kind = "data"
                 THEN (w \o v)[i].val = EventAt(e, w \o v, i)
                 ELSE EventAt(e, w \o v, i) = "data"
      <3>1. j \in 1..(Len(v) + 1)
        BY <1>1
      <3> QED
        BY <1>1, <1>3, <2>2, <3>1 DEF Framed
    <2> QED
      BY <1>4, <2>1, <2>2
  <1>6. Len(v) + 1 \in 1..(Len(v) + 1) /\ Len(w \o v) + 1 = Len(w) + (Len(v) + 1)
    BY <1>1
  <1> QED
    BY <1>3, <1>5, <1>6

\* Where a chunk is that is not the first line, when the first line is read.
LEMMA HasTail ==
  ASSUME NEW w \in Seq(Lines), w # <<>>, NEW n \in 0..Len(w), NEW c, Has(w, n, c),
         ~ (IsChunk(w[1]) /\ w[1].chunk = c)
  PROVE  Has(Tail(w), n - 1, c)
  <1>1. PICK k \in 1..n : IsChunk(w[k]) /\ w[k].chunk = c
    BY DEF Has
  <1>2. k # 1
    BY <1>1
  <1>3. k - 1 \in 1..(n - 1) /\ Tail(w)[k - 1] = w[k]
    BY <1>1, <1>2
  <1> QED
    BY <1>1, <1>3 DEF Has

\* The text after line l has been read.
Got(got, l) == IF IsChunk(l) THEN got + 1 ELSE got

\* Reading the first line: if it is a chunk it is the next one of the text, and the
\* remaining chunks continue the text with it.
LEMMA InOrderTail ==
  ASSUME NEW w \in Seq(Lines), w # <<>>, NEW got \in Nat, InOrder(w, got)
  PROVE  /\ IsChunk(w[1]) => w[1].chunk = got + 1
         /\ InOrder(Tail(w), Got(got, w[1]))
         /\ \A n \in 1..Len(w), top \in Nat :
                Completes(w, n, got, top) => Completes(Tail(w), n - 1, Got(got, w[1]), top)
  <1>1. /\ Len(Tail(w)) = Len(w) - 1 /\ Len(w) \in Nat \ {0}
        /\ \A i \in 1..Len(Tail(w)) : Tail(w)[i] = w[i + 1]
        /\ \A i \in 1..Len(w) : w[i] \in Lines
    OBVIOUS
  <1>2. ASSUME IsChunk(w[1]) PROVE w[1].chunk = got + 1
    <2>1. 1 \in 1..Len(w) /\ w[1].chunk \in Nat
      BY <1>1, <1>2, LineFields DEF IsChunk
    <2>2. w[1].chunk > got /\ \A c \in (got + 1)..(w[1].chunk - 1) : Has(w, 0, c)
      BY <1>2, <2>1 DEF InOrder
    <2>3. \A c : ~ Has(w, 0, c)
      BY DEF Has
    <2>4. w[1].chunk # got + 1 => got + 1 \in (got + 1)..(w[1].chunk - 1)
      BY <2>1, <2>2
    <2> QED
      BY <2>2, <2>3, <2>4
  <1>3. Got(got, w[1]) \in Nat /\ Got(got, w[1]) >= got
    BY DEF Got
  <1>4. ASSUME NEW c \in Nat, c > Got(got, w[1])
        PROVE  ~ (IsChunk(w[1]) /\ w[1].chunk = c)
    BY <1>2, <1>4 DEF Got
  <1>5. ASSUME NEW i \in 1..Len(Tail(w)), IsChunk(Tail(w)[i])
        PROVE  /\ Tail(w)[i].chunk > Got(got, w[1])
               /\ \A k \in 1..(i - 1) : IsChunk(Tail(w)[k]) => Tail(w)[k].chunk < Tail(w)[i].chunk
               /\ \A c \in (Got(got, w[1]) + 1)..(Tail(w)[i].chunk - 1) : Has(Tail(w), i - 1, c)
    <2>1. i + 1 \in 1..Len(w) /\ Tail(w)[i] = w[i + 1] /\ 1 \in 1..((i + 1) - 1)
      BY <1>1
    <2>2. w[i + 1].chunk \in Nat
      BY <1>1, <1>5, <2>1, LineFields DEF IsChunk
    <2>3. /\ w[i + 1].chunk > got
          /\ \A k \in 1..((i + 1) - 1) : IsChunk(w[k]) => w[k].chunk < w[i + 1].chunk
          /\ \A c \in (got + 1)..(w[i + 1].chunk - 1) : Has(w, (i + 1) - 1, c)
      BY <1>5, <2>1 DEF InOrder
    <2>4. Tail(w)[i].chunk > Got(got, w[1])
      BY <1>2, <2>1, <2>2, <2>3 DEF Got
    <2>5. ASSUME NEW k \in 1..(i - 1), IsChunk(Tail(w)[k])
          PROVE  Tail(w)[k].chunk < Tail(w)[i].chunk
      <3>1. k \in 1..Len(Tail(w)) /\ k + 1 \in 1..((i + 1) - 1)
        BY <1>1
      <3> QED
        BY <1>1, <2>1, <2>3, <2>5, <3>1
    <2>6. ASSUME NEW c \in (Got(got, w[1]) + 1)..(Tail(w)[i].chunk - 1)
          PROVE  Has(Tail(w), i - 1, c)
      <3>1. c \in Nat /\ c > Got(got, w[1]) /\ c \in (got + 1)..(w[i + 1].chunk - 1)
        BY <1>3, <2>1, <2>2
      <3>2. i \in 0..Len(w) /\ (i + 1) - 1 = i
        BY <1>1
      <3>3. Has(w, i, c)
        BY <2>3, <3>1, <3>2
      <3> QED
        BY <1>4, <3>1, <3>2, <3>3, HasTail
    <2> QED
      BY <2>4, <2>5, <2>6
  <1>6. ASSUME NEW n \in 1..Len(w), NEW top \in Nat, Completes(w, n, got, top)
        PROVE  Completes(Tail(w), n - 1, Got(got, w[1]), top)
    <2> SUFFICES ASSUME NEW c \in (Got(got, w[1]) + 1)..top
                 PROVE  Has(Tail(w), n - 1, c)
      BY DEF Completes
    <2>1. c \in Nat /\ c > Got(got, w[1]) /\ c \in (got + 1)..top
      BY <1>3
    <2>2. n \in 0..Len(w)
      BY <1>1
    <2>3. Has(w, n, c)
      BY <1>6, <2>1 DEF Completes
    <2> QED
      BY <1>4, <2>1, <2>2, <2>3, HasTail
  <1> QED
    BY <1>2, <1>5, <1>6 DEF InOrder

\* A stream that starts like another one has its chunks, as far as that goes.
LEMMA HasSame ==
  ASSUME NEW w, NEW v, NEW n \in Nat, \A i \in 1..n : v[i] = w[i]
  PROVE  \A m \in 0..n : \A c : Has(v, m, c) <=> Has(w, m, c)
  <1> SUFFICES ASSUME NEW m \in 0..n PROVE \A c : Has(v, m, c) <=> Has(w, m, c)
    OBVIOUS
  <1>1. \A k \in 1..m : k \in 1..n
    OBVIOUS
  <1> QED
    BY <1>1 DEF Has

\* A prefix of the stream continues the text as well.
LEMMA InOrderPrefix ==
  ASSUME NEW w \in Seq(Lines), NEW k \in 0..Len(w), NEW got \in Nat, InOrder(w, got)
  PROVE  /\ InOrder(SubSeq(w, 1, k), got)
         /\ \A n \in 0..k : \A top :
                Completes(w, n, got, top) => Completes(SubSeq(w, 1, k), n, got, top)
  <1>1. Len(SubSeq(w, 1, k)) = k /\ k \in Nat /\ \A i \in 1..k : SubSeq(w, 1, k)[i] = w[i]
    OBVIOUS
  <1>2. \A m \in 0..k : \A c : Has(SubSeq(w, 1, k), m, c) <=> Has(w, m, c)
    BY <1>1, HasSame
  <1>3. \A i \in 1..k : i \in 1..Len(w) /\ i - 1 \in 0..k /\ \A j \in 1..(i - 1) : j \in 1..k
    OBVIOUS
  <1>4. InOrder(SubSeq(w, 1, k), got)
    BY <1>1, <1>2, <1>3 DEF InOrder
  <1>5. ASSUME NEW n \in 0..k, NEW top, Completes(w, n, got, top)
        PROVE  Completes(SubSeq(w, 1, k), n, got, top)
    BY <1>2, <1>5 DEF Completes
  <1> QED
    BY <1>4, <1>5

\* Lines without a chunk may be appended.
LEMMA InOrderOther ==
  ASSUME NEW w \in Seq(Lines), NEW v \in Seq(Lines), NEW got \in Nat, InOrder(w, got),
         \A i \in 1..Len(v) : ~ IsChunk(v[i])
  PROVE  /\ InOrder(w \o v, got)
         /\ \A n \in 0..Len(w) : \A m \in n..Len(w \o v) : \A top :
                Completes(w, n, got, top) => Completes(w \o v, m, got, top)
  <1>1. /\ Len(w \o v) = Len(w) + Len(v) /\ Len(w) \in Nat /\ Len(v) \in Nat
        /\ \A i \in 1..Len(w) : (w \o v)[i] = w[i]
        /\ \A i \in 1..Len(w \o v) : i \notin 1..Len(w) =>
              i - Len(w) \in 1..Len(v) /\ (w \o v)[i] = v[i - Len(w)]
    OBVIOUS
  <1>2. \A m \in 0..Len(w) : \A c : Has(w \o v, m, c) <=> Has(w, m, c)
    BY <1>1, HasSame
  <1>3. \A i \in 1..Len(w \o v) : IsChunk((w \o v)[i]) => i \in 1..Len(w)
    BY <1>1
  <1>4. \A i \in 1..Len(w) : i - 1 \in 0..Len(w) /\ \A j \in 1..(i - 1) : j \in 1..Len(w)
    BY <1>1
  <1>5. InOrder(w \o v, got)
    BY <1>1, <1>2, <1>3, <1>4 DEF InOrder
  <1>6. ASSUME NEW n \in 0..Len(w), NEW m \in n..Len(w \o v), NEW top, Completes(w, n, got, top)
        PROVE  Completes(w \o v, m, got, top)
    <2> SUFFICES ASSUME NEW c \in (got + 1)..top PROVE Has(w \o v, m, c)
      BY DEF Completes
    <2>1. Has(w \o v, n, c)
      BY <1>2, <1>6 DEF Completes
    <2>2. \A k \in 1..n : k \in 1..m
      BY <1>1
    <2> QED
      BY <2>1, <2>2 DEF Has
  <1> QED
    BY <1>5, <1>6

\* The next chunk may be appended to a stream that has all before it.
LEMMA InOrderNext ==
  ASSUME NEW w \in Seq(Lines), NEW l \in Lines, NEW got \in Nat, NEW top \in Nat, got <= top,
         InOrder(w, got), Completes(w, Len(w), got, top),
         \A i \in 1..Len(w) : IsChunk(w[i]) => w[i].chunk <= top,
         IsChunk(l), l.chunk = top + 1
  PROVE  /\ InOrder(w \o <<l>>, got)
         /\ Completes(w \o <<l>>, Len(w \o <<l>>), got, top + 1)
  <1> DEFINE v == w \o <<l>>
  <1>1. /\ Len(v) = Len(w) + 1 /\ Len(w) \in Nat
        /\ \A i \in 1..Len(w) : v[i] = w[i]
        /\ v[Len(v)] = l
    OBVIOUS
  <1>2. \A m \in 0..Len(w) : \A c : Has(v, m, c) <=> Has(w, m, c)
    BY <1>1, HasSame
  <1>3. \A i \in 1..Len(v) : i \in 1..Len(w) \/ i = Len(v)
    BY <1>1
  <1>4. \A i \in 1..Len(w) : i - 1 \in 0..Len(w) /\ \A j \in 1..(i - 1) : j \in 1..Len(w)
    BY <1>1
  <1>5. \A i \in 1..Len(w) : IsChunk(w[i]) => w[i].chunk \in Nat
    BY LineFields DEF IsChunk
  <1> HIDE DEF v
  <1>6. ASSUME NEW i \in 1..Len(v), IsChunk(v[i])
        PROVE  /\ v[i].chunk > got
               /\ \A k \in 1..(i - 1) : IsChunk(v[k]) => v[k].chunk < v[i].chunk
               /\ \A c \in (got + 1)..(v[i].chunk - 1) : Has(v, i - 1, c)
    <2>1. CASE i \in 1..Len(w)
      BY <1>1, <1>2, <1>4, <1>6, <2>1 DEF InOrder
    <2>2. CASE i = Len(v)
      <3>1. v[i].chunk = top + 1 /\ i - 1 = Len(w) /\ Len(w) \in 0..Len(w)
        BY <1>1, <2>2
      <3>2. \A k \in 1..(i - 1) : IsChunk(v[k]) => v[k].chunk < v[i].chunk
        BY <1>1, <1>5, <3>1
      <3>3. \A c \in (got + 1)..top : Has(v, i - 1, c)
        BY <1>2, <3>1 DEF Completes
      <3> QED
        BY <3>1, <3>2, <3>3
    <2> QED
      BY <1>3, <2>1, <2>2
  <1>7. ASSUME NEW c \in (got + 1)..(top + 1)
        PROVE  Has(v, Len(v), c)
    <2>1. CASE c = top + 1
      <3>1. Len(v) \in 1..Len(v)
        BY <1>1
      <3> QED
        BY <1>1, <2>1, <3>1 DEF Has
    <2>2. CASE c # top + 1
      <3>1. Has(v, Len(w), c)
        BY <1>1, <1>2, <2>2 DEF Completes
      <3>2. \A k \in 1..Len(w) : k \in 1..Len(v)
        BY <1>1
      <3> QED
        BY <3>1, <3>2 DEF Has
    <2> QED
      BY <2>1, <2>2
  <1>8. InOrder(v, got) /\ Completes(v, Len(v), got, top + 1)
    BY <1>6, <1>7 DEF InOrder, Completes
  <1> QED
    BY <1>8 DEF v

-----------------------------------------------------------------------------
(* What the service sends.                                                 *)

\* Lines that may follow any whole frame.
WholeFrames(v) ==
    /\ v \in Seq(Lines)
    /\ v # <<>>
    /\ Framed("data", v)
    /\ EventAt("data", v, Len(v) + 1) = "data"

\* A frame is whole: an event line and its payload, or a chunk.
LEMMA FrameIsWhole ==
  ASSUME NEW e \in Kinds, NEW n \in Nat
  PROVE  /\ WholeFrames(Frame(e, n))
         /\ \A i \in 1..Len(Frame(e, n)) :
              /\ Frame(e, n)[i].kind # "head"
              /\ IsChunk(Frame(e, n)[i]) => e = "data"
              /\ IsFinal(Frame(e, n)[i]) => Frame(e, n)[i].val = e
         /\ e = "data" => Frame(e, n) = <<[kind |-> "data", val |-> "data", chunk |-> n]>>
  <1> DEFINE ev == [kind |-> "event", val |-> e]
             da == [kind |-> "data", val |-> e, chunk |-> n]
             f == Frame(e, n)
  <1>1. ev \in Lines /\ da \in Lines
    BY DEF Lines
  <1>2. CASE e = "data"
    <2>1. f = <<da>>
      BY <1>1, <1>2 DEF Frame
    <2>2. f \in Seq(Lines) /\ Len(f) = 1 /\ f[1] = da
      BY <1>1, <2>1
    <2> HIDE DEF f
    <2>3. WholeFrames(f)
      BY <1>2, <2>1, <2>2 DEF WholeFrames, Framed, EventAt
    <2>4. \A i \in 1..Len(f) : f[i].kind # "head" /\ (IsFinal(f[i]) => f[i].val = e)
      BY <2>2 DEF IsFinal
    <2> QED
      BY <1>2, <2>1, <2>3, <2>4 DEF f
  <1>3. CASE e # "data"
    <2>1. f = <<ev>> \o <<da>>
      BY <1>3 DEF Frame
    <2>2. <<ev>> \in Seq(Lines) /\ <<da>> \in Seq(Lines)
      BY <1>1
    <2>3. f \in Seq(Lines) /\ Len(f) = 2 /\ f[1] = ev /\ f[2] = da
      BY <2>1, <2>2
    <2> HIDE DEF f
    <2>4. EventAt("data", f, 1) = "data" /\ EventAt("data", f, 2) = e /\ EventAt("data", f, 3) = "data"
      BY <2>3 DEF EventAt
    <2>5. \A i \in 1..Len(f) : i = 1 \/ i = 2
      BY <2>3
    <2>6. WholeFrames(f)
      <3>1. f # <<>> /\ Len(f) + 1 = 3
        BY <2>3
      <3>2. Framed("data", f)
        BY <2>3, <2>4, <2>5 DEF Framed
      <3> QED
        BY <2>3, <2>4, <3>1, <3>2 DEF WholeFrames
    <2>7. \A i \in 1..Len(f) : /\ f[i].kind # "head"
                               /\ IsChunk(f[i]) => e = "data"
                               /\ IsFinal(f[i]) => f[i].val = e
      BY <2>3, <2>5 DEF IsChunk, IsFinal
    <2> QED
      BY <1>3, <2>6, <2>7 DEF f
  <1> QED
    BY <1>2, <1>3

\* A comment and a status line are lines of their own.
LEMMA SingleIsWhole ==
  ASSUME NEW l \in Lines, l.kind \notin {"data", "event"}
  PROVE  WholeFrames(<<l>>) /\ \A i \in 1..Len(<<l>>) : <<l>>[i] = l
  <1> DEFINE f == <<l>>
  <1>1. f \in Seq(Lines) /\ Len(f) = 1 /\ f[1] = l
    OBVIOUS
  <1> HIDE DEF f
  <1>2. f # <<>> /\ Len(f) + 1 = 2 /\ \A i \in 1..Len(f) : i = 1
    BY <1>1
  <1>3. EventAt("data", f, 1) = "data" /\ EventAt("data", f, 2) = "data"
    BY <1>1 DEF EventAt
  <1>4. Framed("data", f)
    BY <1>1, <1>2, <1>3 DEF Framed
  <1>5. WholeFrames(f) /\ \A i \in 1..Len(f) : f[i] = l
    BY <1>1, <1>2, <1>3, <1>4 DEF WholeFrames
  <1> QED
    BY <1>5 DEF f

\* The first lines of an accepted request.
LEMMA GreetingIsWhole ==
  ASSUME NEW first \in {Frame("queue", 0), Comment}
  PROVE  LET v == <<Status("200")>> \o first
         IN  /\ WholeFrames(v)
             /\ v[1].kind = "head"
             /\ \A i \in 1..Len(v) : /\ ~ IsChunk(v[i])
                                     /\ ~ IsFinal(v[i])
                                     /\ v[i].kind = "head" => v[i].val = "200"
  <1> DEFINE h == <<Status("200")>>
             v == h \o first
  <1>1. Status("200") \in Lines /\ Other \in Lines
    BY DEF Status, Other, Lines
  <1>2. WholeFrames(h) /\ Len(h) = 1 /\ h[1] = Status("200")
    BY <1>1, SingleIsWhole DEF Status
  <1>3. WholeFrames(first) /\ \A i \in 1..Len(first) : /\ first[i].kind # "head"
                                                       /\ ~ IsChunk(first[i])
                                                       /\ ~ IsFinal(first[i])
    <2>1. CASE first = Frame("queue", 0)
      <3>1. "queue" \in Kinds /\ 0 \in Nat
        BY DEF Kinds
      <3> QED
        BY <2>1, <3>1, FrameIsWhole DEF IsFinal
    <2>2. CASE first = Comment
      BY <1>1, <2>2, SingleIsWhole DEF Comment, Other, IsChunk, IsFinal
    <2> QED
      BY <2>1, <2>2
  <1>4. /\ v \in Seq(Lines) /\ Len(v) = 1 + Len(first) /\ Len(first) \in Nat
        /\ v[1] = h[1]
        /\ \A i \in 1..Len(v) : i = 1 \/ (i - 1 \in 1..Len(first) /\ v[i] = first[i - 1])
    BY <1>2, <1>3 DEF WholeFrames
  <1> HIDE DEF h
  <1>5. WholeFrames(v)
    BY <1>2, <1>3, <1>4, FramedAppend DEF WholeFrames
  <1>6. \A i \in 1..Len(v) : /\ ~ IsChunk(v[i])
                             /\ ~ IsFinal(v[i])
                             /\ v[i].kind = "head" => v[i].val = "200"
    BY <1>2, <1>3, <1>4 DEF Status, IsChunk, IsFinal
  <1> QED
    BY <1>2, <1>4, <1>5, <1>6 DEF Status, h

\* Lines without a chunk leave the stream in order, if a final one tells the answer.
LEMMA EmitLines ==
  ASSUME SessionInv, Requested, NEW v, WholeFrames(v), NEW end, Emit(v, end),
         \A i \in 1..Len(v) : ~ IsChunk(v[i]) /\ (IsFinal(v[i]) => answer' = v[i].val),
         answer' # answer => answer \in {"none", "streaming"},
         UNCHANGED <<current_event, output, sent>>
  PROVE  LinesInv' /\ wire' \in Seq(Lines)
  <1> USE DEF Requested
  <1>1. /\ LinesInv /\ wire \in Seq(Lines) /\ Len(output) \in Nat /\ sent \in Nat
        /\ v \in Seq(Lines)
        /\ tail = "open" => present
    BY DEF SessionInv, ClientTypeOK, ContractInv, StageInv, WholeFrames
  <1>2. \A i \in 1..Len(wire) : IsFinal(wire[i]) => answer' = answer
    BY <1>1 DEF LinesInv, IsFinal
  <1>3. CASE ~ (present /\ tail = "open")
    BY <1>1, <1>2, <1>3 DEF Emit, LinesInv
  <1>4. CASE present /\ tail = "open"
    <2>1. wire' = wire \o v
      BY <1>4 DEF Emit
    <2>2. /\ Len(wire') = Len(wire) + Len(v) /\ Len(wire) \in Nat /\ Len(v) \in Nat \ {0}
          /\ \A i \in 1..Len(wire) : wire'[i] = wire[i]
          /\ \A i \in 1..Len(wire') : i \notin 1..Len(wire) =>
                i - Len(wire) \in 1..Len(v) /\ wire'[i] = v[i - Len(wire)]
          /\ wire' \in Seq(Lines)
      BY <1>1, <2>1 DEF WholeFrames
    <2>3. Framed(current_event, wire') /\ EventAt(current_event, wire', Len(wire') + 1) = "data"
      BY <1>1, <1>4, <2>1, FramedAppend DEF WholeFrames, LinesInv
    <2>4. /\ InOrder(wire', Len(output))
          /\ \A n \in 0..Len(wire) : \A m \in n..Len(wire') : \A top :
                Completes(wire, n, Len(output), top) => Completes(wire', m, Len(output), top)
      BY <1>1, <2>1, InOrderOther DEF LinesInv
    <2>5. \A i \in 1..Len(wire') : IsChunk(wire'[i]) => wire'[i].chunk <= sent
      BY <1>1, <2>2 DEF LinesInv
    <2>6. ASSUME NEW i \in 1..Len(wire'), IsFinal(wire'[i])
          PROVE  answer' = wire'[i].val /\ Completes(wire', i - 1, Len(output), sent)
      <3>1. CASE i \in 1..Len(wire)
        <4>1. i - 1 \in 0..Len(wire) /\ i - 1 \in (i - 1)..Len(wire')
          BY <2>2, <3>1
        <4> QED
          BY <1>1, <1>2, <2>2, <2>4, <2>6, <3>1, <4>1 DEF LinesInv
      <3>2. CASE i \notin 1..Len(wire)
        <4>1. Len(wire) \in 0..Len(wire) /\ i - 1 \in Len(wire)..Len(wire')
          BY <2>2, <3>2
        <4> QED
          BY <1>1, <1>4, <2>2, <2>4, <2>6, <3>2, <4>1 DEF LinesInv
      <3> QED
        BY <3>1, <3>2
    <2>7. Completes(wire', Len(wire'), Len(output), sent)
      <3>1. Len(wire) \in 0..Len(wire) /\ Len(wire') \in Len(wire)..Len(wire')
        BY <2>2
      <3> QED
        BY <1>1, <1>4, <2>4, <3>1 DEF LinesInv
    <2> QED
      BY <2>2, <2>3, <2>4, <2>5, <2>6, <2>7 DEF LinesInv
  <1> QED
    BY <1>3, <1>4

\* What a stream that has begun sends does not disturb its head.
LEMMA EmitHead ==
  ASSUME SessionInv, Requested, NEW v \in Seq(Lines), NEW end, Emit(v, end),
         \A i \in 1..Len(v) : v[i].kind # "head",
         answer = "streaming", answer' \notin {"none", "refused"}, UNCHANGED place
  PROVE  HeadInv'
  <1> USE DEF Requested
  <1>1. HeadInv /\ wire \in Seq(Lines) /\ (tail = "open" => present)
    BY DEF SessionInv, ClientTypeOK, StageInv
  <1>2. CASE ~ (present /\ tail = "open")
    BY <1>1, <1>2 DEF Emit, HeadInv
  <1>3. CASE present /\ tail = "open"
    <2>1. wire' = wire \o v
      BY <1>3 DEF Emit
    <2>2. /\ Len(wire') = Len(wire) + Len(v) /\ Len(wire) \in Nat /\ Len(v) \in Nat
          /\ \A i \in 1..Len(wire) : wire'[i] = wire[i]
          /\ \A i \in 1..Len(wire') : i \notin 1..Len(wire) =>
                i - Len(wire) \in 1..Len(v) /\ wire'[i] = v[i - Len(wire)]
          /\ wire # <<>> => Len(wire) > 0 /\ wire' # <<>>
      BY <1>1, <2>1
    <2>3. place # "reading" => wire # <<>>
      BY <1>1, <1>3 DEF HeadInv
    <2>4. place # "reading" => wire'[1].kind = "head" /\ wire' # <<>>
      BY <1>1, <2>2, <2>3 DEF HeadInv
    <2>5. \A i \in 1..Len(wire') : wire'[i].kind = "head" => wire'[i].val = "200"
      BY <1>1, <2>2 DEF HeadInv
    <2> QED
      BY <2>4, <2>5 DEF HeadInv
  <1> QED
    BY <1>2, <1>3

-----------------------------------------------------------------------------
(* The steps.                                                              *)

\* The initial states satisfy the invariant.
LEMMA InitSession == ClientInit => SessionInv
  <1> SUFFICES ASSUME ClientInit PROVE SessionInv
    OBVIOUS
  <1> USE DEF ClientInit, Init
  <1>1. wire = <<>> /\ Len(wire) = 0 /\ Len(output) = 0 /\ wire \in Seq(Lines) /\ output \in Seq(1..MaxChunks)
    OBVIOUS
  <1>2. ClientTypeOK
    <2>1. 0 \in 0..BodyPieces /\ 0 \in 0..SocketTimeout /\ 0 \in 0..KeepAlive /\ 0 \in 0..MaxStalls
      BY ClientConstants
    <2> QED
      BY <1>1, <2>1 DEF ClientTypeOK, Exits, Kinds
  <1>3. ContractInv /\ StageInv /\ ClockInv /\ FailureJustified /\ TimeoutJustified
    BY ClientConstants DEF ContractInv, StageInv, ClockInv, FailureJustified, TimeoutJustified
  <1>4. TextInv
    <2>1. <<>> = [i \in 1..0 |-> i]
      OBVIOUS
    <2> QED
      BY <1>1, <2>1 DEF TextInv
  <1>5. HeadInv
    BY <1>1 DEF HeadInv
  <1>6. LinesInv
    BY <1>1 DEF LinesInv, Framed, InOrder, Completes, EventAt
  <1> QED
    BY <1>2, <1>3, <1>4, <1>5, <1>6 DEF SessionInv

\* A client that ends for a good reason, with its text as it is.
LEMMA ExitStep ==
  ASSUME SessionInv, place # "exited", NEW why \in Exits \ {"none", "crash", "error"},
         Exits1(why), UNCHANGED <<command, uploaded, current_event, output, told, wireVars, clockVars>>,
         command = "transcribe" /\ why = "http" => answer = "refused",
         command = "transcribe" /\ why = "timeout" => stalls > 0
  PROVE  SessionInv'
  <1> USE DEF Exits1, wireVars, clockVars
  <1>1. ClientTypeOK'
    BY DEF SessionInv, ClientTypeOK
  <1>2. ContractInv'
    BY DEF SessionInv, ContractInv
  <1>3. StageInv'
    BY DEF SessionInv, StageInv
  <1>4. TextInv'
    BY DEF SessionInv, TextInv
  <1>5. ClockInv'
    BY DEF SessionInv, ClockInv
  <1>6. FailureJustified' /\ TimeoutJustified'
    BY DEF SessionInv, FailureJustified, TimeoutJustified
  <1> QED
    BY <1>1, <1>2, <1>3, <1>4, <1>5, <1>6 DEF SessionInv

\* Up to the response the client reads nothing.
LEMMA RequestStep ==
  ASSUME SessionInv,
         \/ Start \/ StartFails \/ Connected \/ ConnectFails
         \/ SendPiece \/ SendFails \/ SendTimesOut \/ StatusAnswered
  PROVE  SessionInv'
  <1> USE DEF contractVars, wireVars, clockVars
  <1>1. ASSUME place \in {"start", "connecting", "sending"},
               place' \in {"connecting", "sending", "response"},
               place' = "connecting" => uploaded' = 0,
               place' = "sending" => uploaded' < BodyPieces, uploaded' \in 0..BodyPieces,
               UNCHANGED <<contractVars, command, exit, current_event, output, told, wireVars, clockVars>>
        PROVE  SessionInv'
    <2>1. ClientTypeOK'
      BY <1>1 DEF SessionInv, ClientTypeOK
    <2>2. ContractInv'
      BY <1>1 DEF SessionInv, ContractInv
    <2>3. StageInv'
      BY <1>1 DEF SessionInv, StageInv
    <2>4. TextInv'
      BY <1>1 DEF SessionInv, TextInv
    <2>5. HeadInv'
      BY <1>1 DEF SessionInv, HeadInv
    <2>6. LinesInv'
      BY <1>1 DEF SessionInv, LinesInv
    <2>7. ClockInv'
      BY <1>1 DEF SessionInv, ClockInv
    <2>8. FailureJustified' /\ TimeoutJustified'
      BY <1>1 DEF SessionInv, FailureJustified, TimeoutJustified
    <2> QED
      BY <2>1, <2>2, <2>3, <2>4, <2>5, <2>6, <2>7, <2>8 DEF SessionInv
  <1>2. CASE Start
    BY <1>1, <1>2 DEF Start, SessionInv, ClientTypeOK, StageInv
  <1>3. CASE StartFails
    BY <1>3, ExitStep DEF StartFails, Exits
  <1>4. CASE Connected
    <2>1. uploaded = 0 => uploaded < BodyPieces
      BY ClientConstants
    <2> QED
      BY <1>1, <1>4, <2>1 DEF Connected, SessionInv, ClientTypeOK, StageInv
  <1>5. CASE ConnectFails
    BY <1>5, ExitStep DEF ConnectFails, Exits
  <1>6. CASE SendPiece
    <2>1. uploaded \in Nat /\ uploaded < BodyPieces /\ BodyPieces \in Nat
      BY <1>6, ClientConstants DEF SendPiece, SessionInv, StageInv, ClientTypeOK
    <2> QED
      BY <1>1, <1>6, <2>1 DEF SendPiece
  <1>7. CASE SendFails
    BY <1>7, ExitStep DEF SendFails, Exits
  <1>8. CASE SendTimesOut
    BY <1>8, ExitStep DEF SendTimesOut, Exits
  <1>9. CASE StatusAnswered
    BY <1>9, ExitStep DEF StatusAnswered, Exits
  <1> QED
    BY <1>2, <1>3, <1>4, <1>5, <1>6, <1>7, <1>8, <1>9

\* The rest of the stream fits the parser after it has taken the first line.
LEMMA ReadLines ==
  ASSUME SessionInv, place # "exited", wire # <<>>, wire' = Tail(wire),
         current_event' = EventAt(current_event, wire, 2),
         Len(output') = Got(Len(output), wire[1]), UNCHANGED <<sent, answer, tail>>
  PROVE  LinesInv'
  <1>1. LinesInv /\ wire \in Seq(Lines) /\ Len(output) \in Nat /\ sent \in Nat
    BY DEF SessionInv, ClientTypeOK, ContractInv
  <1>2. /\ Len(wire') = Len(wire) - 1 /\ Len(wire) \in Nat \ {0}
        /\ \A i \in 1..Len(wire') : i + 1 \in 1..Len(wire) /\ wire'[i] = wire[i + 1]
    BY <1>1
  <1>3. /\ Framed(current_event', wire')
        /\ EventAt(current_event', wire', Len(wire') + 1)
              = EventAt(current_event, wire, Len(wire) + 1)
    BY <1>1, FramedTail DEF LinesInv
  <1>4. /\ InOrder(wire', Len(output'))
        /\ \A n \in 1..Len(wire) : Completes(wire, n, Len(output), sent)
                                      => Completes(wire', n - 1, Len(output'), sent)
    BY <1>1, InOrderTail DEF LinesInv
  <1>5. \A i \in 1..Len(wire') : IsChunk(wire'[i]) => wire'[i].chunk <= sent
    BY <1>1, <1>2 DEF LinesInv
  <1>6. ASSUME NEW i \in 1..Len(wire'), IsFinal(wire'[i])
        PROVE  answer = wire'[i].val /\ Completes(wire', i - 1, Len(output'), sent)
    <2>1. answer = wire'[i].val /\ Completes(wire, (i + 1) - 1, Len(output), sent)
      BY <1>1, <1>2, <1>6 DEF LinesInv
    <2>2. (i + 1) - 1 = i /\ i \in 1..Len(wire)
      BY <1>2
    <2> QED
      BY <1>4, <2>1, <2>2
  <1>7. tail = "open" => Completes(wire', Len(wire'), Len(output'), sent)
    <2>1. Len(wire) \in 1..Len(wire)
      BY <1>2
    <2> QED
      BY <1>1, <1>2, <1>4, <2>1 DEF LinesInv
  <1>8. tail = "open" => EventAt(current_event', wire', Len(wire') + 1) = "data"
    BY <1>1, <1>3 DEF LinesInv
  <1> QED
    BY <1>3, <1>4, <1>5, <1>6, <1>7, <1>8 DEF LinesInv

\* What the parser knows of the line it takes.
LEMMA FirstLine ==
  ASSUME SessionInv, place # "exited", wire # <<>>
  PROVE  /\ Head(wire) = wire[1] /\ wire[1] \in Lines /\ 1 \in 1..Len(wire)
         /\ IF wire[1].kind = "data" THEN wire[1].val = current_event ELSE current_event = "data"
         /\ IsChunk(wire[1]) => wire[1].chunk = Len(output) + 1 /\ wire[1].chunk <= sent
         /\ IsFinal(wire[1]) => answer = wire[1].val /\ Len(output) = sent
  <1>1. LinesInv /\ wire \in Seq(Lines) /\ Len(output) \in Nat /\ sent \in Nat /\ Len(output) <= sent
    <2>1. LinesInv /\ TextInv /\ ContractInv /\ ClientTypeOK
      BY DEF SessionInv
    <2>2. Len(output) <= sent
      BY <2>1 DEF TextInv
    <2> QED
      BY <2>1, <2>2 DEF ClientTypeOK, ContractInv
  <1>2. Head(wire) = wire[1] /\ wire[1] \in Lines /\ 1 \in 1..Len(wire)
    BY <1>1
  <1>3. IF wire[1].kind = "data" THEN wire[1].val = current_event ELSE current_event = "data"
    BY <1>1, <1>2 DEF LinesInv, Framed, EventAt
  <1>4. IsChunk(wire[1]) => wire[1].chunk = Len(output) + 1 /\ wire[1].chunk <= sent
    BY <1>1, <1>2, InOrderTail DEF LinesInv
  <1>5. ASSUME IsFinal(wire[1]) PROVE answer = wire[1].val /\ Len(output) = sent
    <2>1. answer = wire[1].val /\ Completes(wire, 0, Len(output), sent)
      BY <1>1, <1>2, <1>5 DEF LinesInv
    <2>2. \A c : ~ Has(wire, 0, c)
      BY DEF Has
    <2>3. Len(output) # sent => Len(output) + 1 \in (Len(output) + 1)..sent
      BY <1>1
    <2> QED
      BY <2>1, <2>2, <2>3 DEF Completes
  <1> QED
    BY <1>2, <1>3, <1>4, <1>5

\* The chunks of the text t are the first ones, each once and in order.
Gapless(t) == t = [i \in 1..Len(t) |-> i]

\* A text without gap or repetition stays one with the next chunk.
LEMMA TextGrows ==
  ASSUME NEW S, NEW t \in Seq(S), Gapless(t), NEW x \in S, x = Len(t) + 1
  PROVE  /\ Append(t, x) \in Seq(S)
         /\ Len(Append(t, x)) = Len(t) + 1
         /\ Gapless(Append(t, x))
  <1> USE DEF Gapless
  <1>1. Append(t, x) \in Seq(S) /\ Len(Append(t, x)) = Len(t) + 1 /\ Len(t) \in Nat
    BY AppendProperties, LenProperties
  <1>2. DOMAIN Append(t, x) = 1..Len(Append(t, x))
    BY <1>1, LenProperties
  <1>3. \A i \in 1..Len(Append(t, x)) : Append(t, x)[i] = i
    <2> SUFFICES ASSUME NEW i \in 1..(Len(t) + 1) PROVE Append(t, x)[i] = i
      BY <1>1
    <2>1. CASE i = Len(t) + 1
      BY <2>1, AppendProperties
    <2>2. CASE i # Len(t) + 1
      <3>1. i \in 1..Len(t)
        BY <1>1, <2>2
      <3>2. Append(t, x)[i] = t[i]
        BY <3>1, AppendProperties
      <3>3. [j \in 1..Len(t) |-> j][i] = i
        BY <3>1
      <3> QED
        BY <3>2, <3>3
    <2> QED
      BY <2>1, <2>2
  <1>4. Append(t, x) = [i \in DOMAIN Append(t, x) |-> Append(t, x)[i]]
    BY <1>1
  <1> QED
    BY <1>1, <1>2, <1>3, <1>4

\* A step that takes a line and goes on reading.
LEMMA GoesOn ==
  ASSUME SessionInv, place \in {"response", "reading"}, wire # <<>>, place' = "reading",
         answer \notin {"none", "refused"}, command = "transcribe",
         UNCHANGED <<contractVars, exit, command, uploaded, tail, stalled, stalls, silent>>,
         wire' = Tail(wire), quiet' = 0,
         current_event' = EventAt(current_event, wire, 2), current_event' \in Kinds,
         output' = IF IsChunk(wire[1]) THEN Append(output, wire[1].chunk) ELSE output,
         told' \in BOOLEAN, told' => told \/ (IsFinal(wire[1]) /\ wire[1].val = "done")
  PROVE  SessionInv'
  <1> USE DEF contractVars
  <1>1. /\ wire \in Seq(Lines) /\ output \in Seq(1..MaxChunks) /\ Len(output) \in Nat
        /\ sent \in 0..MaxChunks /\ TextInv /\ LinesInv
    <2>1. ClientTypeOK /\ ContractInv /\ TextInv /\ LinesInv
      BY DEF SessionInv
    <2>2. wire \in Seq(Lines) /\ output \in Seq(1..MaxChunks)
      BY <2>1 DEF ClientTypeOK
    <2>3. sent \in 0..MaxChunks
      <3>1. MaxChunks \in Nat BY ClientConstants
      <3>2. produced \in 0..MaxChunks /\ sent \in 0..produced BY <2>1 DEF ContractInv
      <3>3. QED BY ONLY <3>1, <3>2
    <2>4. Len(output) \in Nat
      BY <2>2
    <2>5. QED BY <2>1, <2>2, <2>3, <2>4
  <1>2. /\ IsChunk(wire[1]) => wire[1].chunk = Len(output) + 1 /\ wire[1].chunk <= sent
        /\ IsFinal(wire[1]) => answer = wire[1].val /\ Len(output) = sent
    BY FirstLine
  <1>3. /\ Len(wire') = Len(wire) - 1 /\ Len(wire) \in Nat \ {0} /\ wire' \in Seq(Lines)
        /\ \A i \in 1..Len(wire') : i + 1 \in 1..Len(wire) /\ wire'[i] = wire[i + 1]
    BY <1>1
  <1>4. /\ output' \in Seq(1..MaxChunks)
        /\ Len(output') = Got(Len(output), wire[1])
        /\ output' = [i \in 1..Len(output') |-> i]
        /\ Len(output') <= sent
    <2>1. CASE IsChunk(wire[1])
      <3>1. Len(output) + 1 \in 1..MaxChunks /\ output' = Append(output, Len(output) + 1)
        BY <1>1, <1>2, <2>1, ClientConstants
      <3>2. Gapless(output)
        BY <1>1 DEF TextInv, Gapless
      <3>3. /\ output' \in Seq(1..MaxChunks) /\ Len(output') = Len(output) + 1
            /\ Gapless(output')
        <4>1. PICK x \in 1..MaxChunks : x = Len(output) + 1
          BY <3>1
        <4>2. output' = Append(output, x)
          BY <3>1, <4>1
        <4>3. /\ Append(output, x) \in Seq(1..MaxChunks) /\ Len(Append(output, x)) = Len(output) + 1
              /\ Gapless(Append(output, x))
          BY <1>1, <3>2, <4>1, TextGrows, Zenon
        <4> QED
          BY <4>2, <4>3
      <3>4. output' = [i \in 1..Len(output') |-> i]
        BY <3>3 DEF Gapless
      <3>5. Len(output') <= sent
        BY <1>2, <2>1, <3>3
      <3> QED
        BY <2>1, <3>3, <3>4, <3>5 DEF Got
    <2>2. CASE ~ IsChunk(wire[1])
      BY <1>1, <2>2 DEF Got, TextInv
    <2> QED
      BY <2>1, <2>2
  <1>5. TextInv'
    <2>1. told' => answer = "done" /\ Len(output') = sent
      <3>1. CASE told
        BY <1>1, <1>2, <1>4, <3>1 DEF TextInv, Got
      <3>2. CASE IsFinal(wire[1]) /\ wire[1].val = "done"
        <4>1. ~ IsChunk(wire[1])
          BY <3>2 DEF IsChunk
        <4> QED
          BY <1>1, <1>2, <1>4, <3>2, <4>1 DEF Got
      <3> QED
        BY <3>1, <3>2
    <2> QED
      BY <1>4, <2>1 DEF TextInv
  <1>6. ClientTypeOK'
    <2>1. told' \in BOOLEAN /\ 0 \in 0..SocketTimeout
      BY ClientConstants
    <2> QED
      BY <1>3, <1>4, <2>1 DEF SessionInv, ClientTypeOK
  <1>7. ContractInv'
    BY DEF SessionInv, ContractInv
  <1>8. StageInv'
    BY DEF SessionInv, StageInv
  <1>9. HeadInv'
    BY <1>3 DEF SessionInv, HeadInv
  <1>10. LinesInv'
    BY <1>4, ReadLines
  <1>11. ClockInv'
    BY ClientConstants DEF SessionInv, ClockInv, ClientTypeOK
  <1>12. FailureJustified' /\ TimeoutJustified'
    <2>1. exit' = "none"
      BY DEF SessionInv, StageInv
    <2> QED
      BY <2>1 DEF FailureJustified, TimeoutJustified
  <1> QED
    BY <1>5, <1>6, <1>7, <1>8, <1>9, <1>10, <1>11, <1>12 DEF SessionInv

\* Reading: the status line, and then one line of the stream at a time.
LEMMA ReadStep ==
  ASSUME SessionInv, ReadLine
  PROVE  SessionInv'
  <1> USE DEF contractVars
  <1>1. /\ place \in {"response", "reading"} /\ wire # <<>> /\ wire' = Tail(wire) /\ quiet' = 0
        /\ UNCHANGED <<command, uploaded, tail, stalled, stalls, silent>>
    BY DEF ReadLine
  <1>2. /\ Head(wire) = wire[1] /\ wire[1] \in Lines /\ 1 \in 1..Len(wire)
        /\ IF wire[1].kind = "data" THEN wire[1].val = current_event ELSE current_event = "data"
        /\ IsFinal(wire[1]) => answer = wire[1].val /\ Len(output) = sent
    BY <1>1, FirstLine
  <1>3. command = "transcribe" /\ current_event \in Kinds /\ told \in BOOLEAN /\ wire \in Seq(Lines)
    BY <1>1 DEF SessionInv, ClientTypeOK, StageInv
  <1>4. EventAt(current_event, wire, 2) = IF wire[1].kind = "event" THEN wire[1].val ELSE "data"
    BY DEF EventAt
  <1>5. \* An exit that takes the line with it.
        ASSUME place' = "exited", exit' \in Exits \ {"none", "crash", "timeout"},
               exit' = "http" => answer = "refused",
               exit' = "error" => answer = "error" /\ Len(output) = sent,
               UNCHANGED <<produced, outcome, sent, answer, output, told>>,
               current_event' \in Kinds
        PROVE  SessionInv'
    <2>1. wire' \in Seq(Lines) /\ 0 \in 0..SocketTimeout
      BY <1>1, <1>3, ClientConstants
    <2>2. ClientTypeOK'
      BY <1>1, <1>5, <2>1 DEF SessionInv, ClientTypeOK
    <2>3. ContractInv'
      BY <1>5 DEF SessionInv, ContractInv
    <2>4. StageInv'
      BY <1>1, <1>3, <1>5 DEF SessionInv, StageInv
    <2>5. TextInv'
      BY <1>5 DEF SessionInv, TextInv
    <2>6. ClockInv'
      BY <1>1, <1>5 DEF SessionInv, ClockInv
    <2>7. FailureJustified' /\ TimeoutJustified'
      BY <1>1, <1>5 DEF SessionInv, ContractInv, FailureJustified, TimeoutJustified
    <2> QED
      BY <1>5, <2>2, <2>3, <2>4, <2>5, <2>6, <2>7 DEF SessionInv
  <1>6. CASE place = "response"
    <2>1. ReadHead(wire[1])
      BY <1>2, <1>6 DEF ReadLine
    <2>2. /\ wire[1].kind = "head"
          /\ IF wire[1].val = "200" THEN answer \notin {"none", "refused"} ELSE answer = "refused"
      BY <1>1, <1>2, <1>6 DEF SessionInv, HeadInv
    <2>3. ~ IsChunk(wire[1]) /\ current_event = "data" /\ EventAt(current_event, wire, 2) = "data"
      BY <1>2, <1>4, <2>2 DEF IsChunk
    <2>4. CASE wire[1].val = "200"
      BY <1>1, <1>3, <2>1, <2>2, <2>3, <2>4, GoesOn DEF ReadHead
    <2>5. CASE wire[1].val # "200"
      BY <1>1, <1>3, <1>5, <2>1, <2>2, <2>5 DEF ReadHead, Exits1, Exits
    <2> QED
      BY <2>4, <2>5
  <1>7. CASE place = "reading"
    <2>1. Feed(wire[1])
      BY <1>2, <1>7 DEF ReadLine
    <2>2. answer \notin {"none", "refused"}
      BY <1>7 DEF SessionInv, StageInv
    <2>3. CASE wire[1].kind = "event"
      <3>1. wire[1].val \in Kinds /\ ~ IsChunk(wire[1])
        BY <1>2, <2>3, LineFields DEF IsChunk
      <3>2. /\ current_event' = EventAt(current_event, wire, 2)
            /\ UNCHANGED <<contractVars, place, exit, output, told>>
        BY <1>4, <2>1, <2>3 DEF Feed
      <3> QED
        BY <1>1, <1>3, <1>4, <1>7, <2>2, <2>3, <3>1, <3>2, GoesOn
    <2>4. CASE wire[1].kind = "data"
      <3>1. Fits(wire[1].val) /\ current_event = wire[1].val
        BY <1>2, <2>4 DEF Fits
      <3>2. /\ output' = IF current_event = "data" THEN Append(output, wire[1].chunk) ELSE output
            /\ told' = (told \/ current_event = "done")
            /\ IF current_event = "error" THEN Exits1("error")
               ELSE UNCHANGED <<contractVars, place, exit>>
            /\ current_event' = "data"
        BY <2>1, <2>4, <3>1 DEF Feed
      <3>3. CASE current_event = "error"
        <4>1. IsFinal(wire[1])
          BY <2>4, <3>1, <3>3 DEF IsFinal
        <4>2. told' = told
          BY <1>3, <3>2, <3>3
        <4> QED
          BY <1>2, <1>5, <3>1, <3>2, <3>3, <4>1, <4>2 DEF Exits1, Exits, Kinds
      <3>4. CASE current_event # "error"
        <4>1. IsChunk(wire[1]) <=> current_event = "data"
          BY <2>4, <3>1 DEF IsChunk
        <4>2. current_event = "done" => IsFinal(wire[1]) /\ wire[1].val = "done"
          BY <2>4, <3>1 DEF IsFinal
        <4>3. told' \in BOOLEAN /\ (told' => told \/ (IsFinal(wire[1]) /\ wire[1].val = "done"))
          BY <1>3, <3>2, <4>2
        <4>4. output' = IF IsChunk(wire[1]) THEN Append(output, wire[1].chunk) ELSE output
          BY <3>2, <4>1
        <4>5. current_event' = EventAt(current_event, wire, 2) /\ current_event' \in Kinds
          BY <1>4, <2>4, <3>2 DEF Kinds
        <4>6. UNCHANGED <<contractVars, place, exit>>
          BY <3>2, <3>4
        <4> QED
          BY <1>1, <1>3, <1>7, <2>2, <4>3, <4>4, <4>5, <4>6, GoesOn
      <3> QED
        BY <3>3, <3>4
    <2>5. CASE wire[1].kind \notin {"event", "data"}
      <3>1. UNCHANGED <<contractVars, place, exit, current_event, output, told>>
        BY <2>1, <2>5 DEF Feed
      <3>2. ~ IsChunk(wire[1]) /\ current_event' = EventAt(current_event, wire, 2)
        BY <1>2, <1>4, <2>5, <3>1 DEF IsChunk
      <3> QED
        BY <1>1, <1>3, <1>7, <2>2, <3>1, <3>2, GoesOn
    <2> QED
      BY <2>3, <2>4, <2>5
  <1> QED
    BY <1>1, <1>6, <1>7

\* The other ways to end.
LEMMA EndStep ==
  ASSUME SessionInv, ReadEnd \/ NoResponse \/ TimesOut
  PROVE  SessionInv'
  <1>1. CASE ReadEnd
    BY <1>1, ExitStep DEF ReadEnd, Exits
  <1>2. CASE NoResponse
    BY <1>2, ExitStep DEF NoResponse, Exits
  <1>3. CASE TimesOut
    <2>1. place = "reading" => stalls > 0
      BY <1>3, ClientConstants DEF TimesOut, SessionInv, ClockInv, ClientTypeOK
    <2> QED
      BY <1>3, <2>1, ExitStep DEF TimesOut, Exits
  <1> QED
    BY <1>1, <1>2, <1>3

\* What a step of the service leaves to show: the contract's own part, and the wire.
LEMMA ServiceOnWire ==
  ASSUME SessionInv, Requested, UNCHANGED <<clientVars, stalled, stalls, quiet>>,
         ContractInv', HeadInv', LinesInv', wire' \in Seq(Lines), UNCHANGED present,
         tail' \in {"open", "final"} \cup Breaks, tail' = "open" => tail = "open",
         tail' = "open" => answer' \in {"none", "streaming"},
         place = "reading" => answer' \notin {"none", "refused"},
         silent' = silent \/ silent' = 0, sent <= sent',
         answer = "done" => answer' = "done" /\ UNCHANGED sent,
         tail' = "open" /\ wire' = <<>> => wire = <<>> /\ UNCHANGED silent
  PROVE  SessionInv'
  <1> USE DEF clientVars
  <1>1. command = "transcribe" /\ place \in {"sending", "response", "reading"}
    BY DEF Requested
  <1>2. 0 \in 0..KeepAlive
    BY ClientConstants
  <1>3. ClientTypeOK'
    BY <1>2 DEF SessionInv, ClientTypeOK
  <1>4. StageInv'
    BY <1>1 DEF SessionInv, StageInv
  <1>5. TextInv'
    <2>1. output' = [i \in 1..Len(output') |-> i]
      BY DEF SessionInv, TextInv
    <2>2. Len(output) <= sent /\ (told => answer = "done" /\ Len(output) = sent)
      BY DEF SessionInv, TextInv
    <2>3. Len(output) \in Nat /\ sent \in Nat /\ sent' \in Nat
      BY DEF SessionInv, ClientTypeOK, ContractInv
    <2>4. Len(output') <= sent' /\ (told' => answer' = "done" /\ Len(output') = sent')
      BY <2>2, <2>3
    <2> QED
      BY <2>1, <2>4 DEF TextInv
  <1>6. ClockInv'
    BY DEF SessionInv, ClockInv
  <1>7. FailureJustified' /\ TimeoutJustified'
    <2>1. exit' = "none"
      BY <1>1 DEF SessionInv, StageInv
    <2> QED
      BY <2>1 DEF FailureJustified, TimeoutJustified
  <1> QED
    BY <1>3, <1>4, <1>5, <1>6, <1>7 DEF SessionInv

\* Every step of the service.
LEMMA ServiceStep ==
  ASSUME SessionInv, Service
  PROVE  SessionInv'
  <1> USE DEF contractVars, wireVars, clockVars
  <1>1. /\ ClientTypeOK /\ ContractInv /\ StageInv /\ wire \in Seq(Lines)
        /\ produced \in Nat /\ sent \in Nat /\ MaxChunks \in Nat
    BY ClientConstants DEF SessionInv, ClientTypeOK, ContractInv
  <1>2. ASSUME Requested PROVE HeadInv /\ LinesInv /\ (tail = "open" => present)
    BY <1>2 DEF Requested, SessionInv, StageInv
  <1>3. tail \in {"open", "final"} \cup Breaks
    BY <1>1 DEF ClientTypeOK
  <1>4. CASE ServiceRefuses
    <2> DEFINE v == <<Status("error")>>
    <2>1. Requested /\ Emit(v, "final") /\ answer = "none" /\ answer' = "refused"
      BY <1>4 DEF ServiceRefuses, Refuse
    <2>2. UNCHANGED <<clientVars, stalled, stalls, clockVars, produced, sent, present>>
      BY <1>4 DEF ServiceRefuses, Refuse
    <2>3. Status("error") \in Lines /\ Status("error").kind = "head" /\ Status("error").val = "error"
      BY DEF Status, Lines
    <2>4. WholeFrames(v) /\ \A i \in 1..Len(v) : v[i] = Status("error")
      BY <2>3, SingleIsWhole
    <2> HIDE DEF v
    <2>5. LinesInv' /\ wire' \in Seq(Lines)
      BY <2>1, <2>2, <2>3, <2>4, EmitLines DEF IsChunk, IsFinal, clientVars
    <2>6. wire = <<>> /\ place # "reading"
      BY <1>1, <1>2, <2>1 DEF HeadInv, StageInv
    <2>7. wire' = v \/ (wire' = <<>> /\ tail' = tail /\ tail # "open")
      BY <1>2, <2>1, <2>4, <2>6 DEF Emit, WholeFrames
    <2>8. tail' # "open" /\ tail' \in {"open", "final"} \cup Breaks
      BY <1>2, <1>3, <2>1 DEF Emit
    <2>9. HeadInv'
      <3>1. v # <<>> /\ 1 \in 1..Len(v)
        BY <2>4 DEF WholeFrames
      <3> QED
        BY <2>1, <2>2, <2>3, <2>4, <2>6, <2>7, <2>8, <3>1 DEF HeadInv, clientVars
    <2>10. ContractInv'
      BY <1>1, <1>4, <2>1, <2>2 DEF ContractInv, ServiceRefuses, Refuse, Settles
    <2> QED
      BY <1>1, <2>1, <2>2, <2>5, <2>6, <2>8, <2>9, <2>10, ServiceOnWire
  <1>5. CASE ServiceAccepts
    <2>1. PICK first \in {Frame("queue", 0), Comment} : Emit(<<Status("200")>> \o first, "open")
      BY <1>5 DEF ServiceAccepts
    <2> DEFINE v == <<Status("200")>> \o first
    <2>2. Requested /\ Emit(v, "open") /\ answer = "none" /\ answer' = "streaming" /\ silent' = 0
      BY <1>5, <2>1 DEF ServiceAccepts, Accept
    <2>3. UNCHANGED <<clientVars, stalled, stalls, quiet, produced, outcome, sent, present>>
      BY <1>5 DEF ServiceAccepts, Accept
    <2>4. /\ WholeFrames(v)
          /\ v[1].kind = "head"
          /\ \A i \in 1..Len(v) : /\ ~ IsChunk(v[i])
                                  /\ ~ IsFinal(v[i])
                                  /\ v[i].kind = "head" => v[i].val = "200"
      BY GreetingIsWhole
    <2> HIDE DEF v
    <2>5. LinesInv' /\ wire' \in Seq(Lines)
      BY <2>2, <2>3, <2>4, EmitLines DEF clientVars
    <2>6. wire = <<>> /\ place # "reading"
      BY <1>1, <1>2, <2>2 DEF HeadInv, StageInv
    <2>7. \/ wire' = v /\ tail = "open" /\ tail' = "open"
          \/ wire' = <<>> /\ tail' = tail /\ tail # "open"
      BY <1>2, <2>2, <2>4, <2>6 DEF Emit, WholeFrames
    <2>8. HeadInv'
      <3>1. v # <<>>
        BY <2>4 DEF WholeFrames
      <3> QED
        BY <2>2, <2>3, <2>4, <2>6, <2>7, <3>1 DEF HeadInv, clientVars
    <2>9. ContractInv'
      BY <1>1, <2>2, <2>3 DEF ContractInv
    <2> QED
      BY <1>1, <1>3, <2>2, <2>3, <2>4, <2>5, <2>6, <2>7, <2>8, <2>9, ServiceOnWire DEF WholeFrames
  <1>6. CASE JobProceeds \/ ServiceDrops
    <2>1. /\ Requested /\ UNCHANGED <<clientVars, wireVars, clockVars, sent, present>>
          /\ answer' = answer \/ (answer = "streaming" /\ answer' = "dropped" /\ ~ present)
      BY <1>6 DEF JobProceeds, ServiceDrops, Produce, Settle, Drop
    <2>2. ContractInv'
      <3>1. \/ outcome = "none" /\ produced < MaxChunks /\ produced' = produced + 1 /\ outcome' = outcome
            \/ produced' = produced /\ Settles
        BY <1>6 DEF JobProceeds, ServiceDrops, Produce, Settle, Drop
      <3> QED
        BY <1>1, <2>1, <3>1 DEF ContractInv, Settles
    <2>3. HeadInv'
      BY <1>2, <2>1 DEF HeadInv, clientVars
    <2>4. LinesInv'
      <3>1. \A i \in 1..Len(wire) : IsFinal(wire[i]) => answer' = answer
        BY <1>2, <2>1 DEF LinesInv, IsFinal
      <3> QED
        BY <1>2, <2>1, <3>1 DEF LinesInv, clientVars
    <2> QED
      BY <1>1, <1>2, <1>3, <2>1, <2>2, <2>3, <2>4, ServiceOnWire DEF StageInv
  <1>7. CASE ServiceSends
    <2> DEFINE l == [kind |-> "data", val |-> "data", chunk |-> sent + 1]
               v == Frame("data", sent + 1)
    <2>1. Requested /\ Emit(v, "open") /\ answer = "streaming" /\ sent < produced
      BY <1>7 DEF ServiceSends, Send
    <2>2. /\ sent' = sent + 1 /\ silent' = 0
          /\ UNCHANGED <<clientVars, stalled, stalls, quiet, produced, outcome, answer, present>>
      BY <1>7 DEF ServiceSends, Send
    <2>3. /\ WholeFrames(v) /\ v = <<l>>
          /\ \A i \in 1..Len(v) : v[i].kind # "head"
      <3>1. "data" \in Kinds /\ sent + 1 \in Nat
        BY <1>1 DEF Kinds
      <3> QED
        BY <3>1, FrameIsWhole
    <2>4. l \in Lines /\ IsChunk(l) /\ l.chunk = sent + 1 /\ ~ IsFinal(l)
      BY <1>1 DEF Lines, IsChunk, IsFinal, Kinds
    <2> HIDE DEF l, v
    <2>5. HeadInv'
      BY <2>1, <2>2, <2>3, EmitHead DEF WholeFrames, clientVars
    <2>6. /\ Len(output) \in Nat /\ Len(output) <= sent
      <3>1. TextInv
        BY DEF SessionInv
      <3>2. Len(output) <= sent
        BY <3>1 DEF TextInv
      <3> QED
        BY <1>1, <3>2 DEF ClientTypeOK
    <2>7. \A i \in 1..Len(wire) : ~ IsFinal(wire[i])
      BY <1>2, <2>1 DEF LinesInv, IsFinal
    <2>8. LinesInv' /\ wire' \in Seq(Lines) /\ (tail' = "open" => wire' # <<>> /\ tail = "open")
      <3>1. CASE ~ (present /\ tail = "open")
        <4>1. wire' = wire /\ tail' = tail /\ tail # "open"
          BY <1>2, <2>1, <3>1 DEF Emit
        <4>2. \A i \in 1..Len(wire) : IsChunk(wire[i]) => wire[i].chunk <= sent + 1
          BY <1>1, <1>2, <2>1, LineFields DEF LinesInv, IsChunk
        <4> QED
          BY <1>1, <1>2, <2>1, <2>2, <2>7, <4>1, <4>2 DEF LinesInv, clientVars
      <3>2. CASE present /\ tail = "open"
        <4>1. wire' = wire \o <<l>> /\ tail' = "open"
          BY <2>1, <2>3, <3>2 DEF Emit
        <4>2. /\ Len(wire') = Len(wire) + 1 /\ Len(wire) \in Nat /\ wire' \in Seq(Lines)
              /\ \A i \in 1..Len(wire) : wire'[i] = wire[i]
              /\ wire'[Len(wire')] = l
              /\ wire' # <<>>
          BY <1>1, <2>4, <4>1
        <4>3. \A i \in 1..Len(wire') : i \in 1..Len(wire) \/ i = Len(wire')
          BY <4>2
        <4>4. Framed(current_event, wire') /\ EventAt(current_event, wire', Len(wire') + 1) = "data"
          BY <1>1, <1>2, <2>1, <2>3, <3>2, <4>1, FramedAppend DEF WholeFrames, LinesInv
        <4>5. InOrder(wire', Len(output)) /\ Completes(wire', Len(wire'), Len(output), sent + 1)
          BY <1>1, <1>2, <2>1, <2>4, <2>6, <3>2, <4>1, InOrderNext DEF LinesInv
        <4>6. \A i \in 1..Len(wire') : IsChunk(wire'[i]) => wire'[i].chunk <= sent + 1
          <5>1. \A i \in 1..Len(wire) : IsChunk(wire[i]) => wire[i].chunk <= sent + 1
            BY <1>1, <1>2, <2>1, LineFields DEF LinesInv, IsChunk
          <5> QED
            BY <1>1, <2>4, <4>2, <4>3, <5>1
        <4>7. \A i \in 1..Len(wire') : ~ IsFinal(wire'[i])
          BY <2>4, <2>7, <4>2, <4>3
        <4> QED
          BY <2>2, <3>2, <4>1, <4>2, <4>4, <4>5, <4>6, <4>7 DEF LinesInv, clientVars
      <3> QED
        BY <3>1, <3>2
    <2>9. ContractInv'
      BY <1>1, <2>1, <2>2 DEF ContractInv
    <2>10. tail' \in {"open", "final"} \cup Breaks
      BY <1>3, <2>1 DEF Emit
    <2> QED
      BY <1>1, <2>1, <2>2, <2>5, <2>8, <2>9, <2>10, ServiceOnWire
  <1>8. CASE ServiceFinishes
    <2>1. PICK e \in {"done", "error"} : answer' = e
      BY <1>8 DEF ServiceFinishes, Finish
    <2> DEFINE v == Frame(e, 0)
    <2>2. Requested /\ Emit(v, "final") /\ answer = "streaming"
      BY <1>8, <2>1 DEF ServiceFinishes, Finish
    <2>3. UNCHANGED <<clientVars, stalled, stalls, clockVars, produced, outcome, sent, present>>
      BY <1>8 DEF ServiceFinishes, Finish
    <2>4. /\ WholeFrames(v)
          /\ \A i \in 1..Len(v) : /\ v[i].kind # "head"
                                  /\ ~ IsChunk(v[i])
                                  /\ IsFinal(v[i]) => v[i].val = e
      <3>1. e \in Kinds /\ 0 \in Nat /\ e # "data"
        BY DEF Kinds
      <3> QED
        BY <3>1, FrameIsWhole
    <2> HIDE DEF v
    <2>5. HeadInv'
      BY <2>1, <2>2, <2>3, <2>4, EmitHead DEF WholeFrames, clientVars
    <2>6. LinesInv' /\ wire' \in Seq(Lines)
      BY <2>1, <2>2, <2>3, <2>4, EmitLines DEF clientVars
    <2>7. tail' # "open" /\ tail' \in {"open", "final"} \cup Breaks
      BY <1>2, <1>3, <2>2 DEF Emit
    <2>8. ContractInv'
      BY <1>1, <1>8, <2>3 DEF ContractInv, ServiceFinishes, Finish
    <2> QED
      BY <1>1, <2>1, <2>2, <2>3, <2>5, <2>6, <2>7, <2>8, ServiceOnWire
  <1> QED
    BY <1>4, <1>5, <1>6, <1>7, <1>8 DEF Service

\* A second passes.  Without a stall nothing is on its way then, and event_stream has
\* been silent for as long as the client has heard nothing: the wake-up that makes this
\* longer than KeepAlive is the one that sends.
LEMMA SecondStep ==
  ASSUME SessionInv, Second
  PROVE  SessionInv'
  <1> USE DEF contractVars, clientVars
  <1>1. /\ ClientTypeOK /\ ContractInv /\ StageInv /\ ClockInv /\ wire \in Seq(Lines)
        /\ KeepAlive \in Nat /\ SocketTimeout \in Nat /\ quiet \in Nat /\ silent \in Nat
        /\ silent <= KeepAlive
    BY ClientConstants DEF SessionInv, ClientTypeOK
  <1>2. /\ UNCHANGED <<contractVars, clientVars, stalled, stalls>>
        /\ quiet < SocketTimeout /\ quiet' = quiet + 1
        /\ command = "transcribe" /\ place \in {"response", "reading"}
    BY DEF Second
  <1>3. Requested /\ HeadInv /\ LinesInv /\ (tail = "open" => present)
    BY <1>1, <1>2 DEF Requested, SessionInv, StageInv
  <1>4. /\ place = "reading" /\ stalls = 0 =>
             wire = <<>> /\ tail = "open" /\ quiet <= silent /\ Waiting
        /\ stalled => stalls > 0
    BY <1>1, <1>2 DEF Second, ClockInv, StageInv
  <1>5. ASSUME HeadInv', LinesInv', wire' \in Seq(Lines), tail' = tail, silent' \in 0..KeepAlive,
               place = "reading" /\ stalls = 0 /\ wire' = <<>> => quiet' <= silent'
        PROVE  SessionInv'
    <2>1. quiet' \in 0..SocketTimeout
      BY <1>1, <1>2
    <2>2. ClientTypeOK'
      BY <1>1, <1>2, <1>5, <2>1 DEF ClientTypeOK
    <2>3. ContractInv'
      BY <1>1, <1>2 DEF ContractInv
    <2>4. StageInv'
      BY <1>1, <1>2, <1>5 DEF StageInv
    <2>5. TextInv'
      BY <1>2 DEF SessionInv, TextInv
    <2>6. ClockInv'
      <3>1. place = "reading" /\ stalls = 0 => quiet' <= KeepAlive + 1
        BY <1>1, <1>2, <1>4
      <3> QED
        BY <1>2, <1>4, <1>5, <3>1 DEF ClockInv
    <2>7. FailureJustified' /\ TimeoutJustified'
      <3>1. exit' = "none"
        BY <1>1, <1>2 DEF StageInv
      <3> QED
        BY <3>1 DEF FailureJustified, TimeoutJustified
    <2> QED
      BY <1>5, <2>2, <2>3, <2>4, <2>5, <2>6, <2>7 DEF SessionInv
  <1>6. CASE Waiting /\ Emit(Comment, "open") /\ silent' = 0
    <2>1. WholeFrames(Comment) /\ \A i \in 1..Len(Comment) : Comment[i].kind = "other"
      <3>1. Other \in Lines /\ Other.kind = "other"
        BY DEF Other, Lines
      <3> QED
        BY <3>1, SingleIsWhole DEF Comment
    <2>2. answer = "streaming"
      BY <1>6 DEF Waiting
    <2>3. HeadInv'
      BY <1>2, <1>3, <1>6, <2>1, <2>2, EmitHead DEF WholeFrames
    <2>4. LinesInv' /\ wire' \in Seq(Lines)
      BY <1>2, <1>3, <1>6, <2>1, EmitLines DEF IsChunk, IsFinal
    <2>5. tail' = tail /\ (tail = "open" => wire' # <<>>)
      BY <1>1, <1>3, <1>6, <2>1 DEF Emit, WholeFrames
    <2>6. 0 \in 0..KeepAlive
      BY <1>1
    <2> QED
      BY <1>4, <1>5, <1>6, <2>3, <2>4, <2>5, <2>6
  <1>7. CASE /\ Waiting => silent < KeepAlive
             /\ silent' = IF Waiting THEN silent + 1 ELSE silent
             /\ UNCHANGED <<wire, tail>>
    <2>1. HeadInv'
      BY <1>2, <1>3, <1>7 DEF HeadInv
    <2>2. LinesInv'
      BY <1>2, <1>3, <1>7 DEF LinesInv
    <2>3. silent' \in 0..KeepAlive
      BY <1>1, <1>7
    <2>4. place = "reading" /\ stalls = 0 => quiet' <= silent'
      BY <1>1, <1>2, <1>4, <1>7
    <2> QED
      BY <1>1, <1>5, <1>7, <2>1, <2>2, <2>3, <2>4
  <1> QED
    BY <1>6, <1>7 DEF Second, WakesUp

\* The network and time.
LEMMA NetworkStep ==
  ASSUME SessionInv, Break \/ Stall \/ Unstall \/ Second
  PROVE  SessionInv'
  <1> USE DEF contractVars, clientVars, wireVars, clockVars
  <1>1. /\ ClientTypeOK /\ wire \in Seq(Lines) /\ Len(output) \in Nat /\ sent \in Nat
        /\ place # "exited" => HeadInv /\ LinesInv
    BY DEF SessionInv, ClientTypeOK, ContractInv
  <1>2. CASE Break
    <2>1. PICK k \in 0..Len(wire) : wire' = SubSeq(wire, 1, k)
      BY <1>2 DEF Break
    <2>2. /\ tail' \in Breaks /\ Requested
          /\ UNCHANGED <<produced, outcome, sent, answer, clientVars, stalled, stalls, clockVars>>
      BY <1>2 DEF Break
    <2>3. /\ Len(wire') = k /\ wire' \in Seq(Lines)
          /\ \A i \in 1..k : i \in 1..Len(wire) /\ wire'[i] = wire[i] /\ i - 1 \in 0..k
          /\ wire' # <<>> => 1 \in 1..k /\ wire # <<>>
      BY <1>1, <2>1
    <2>4. command = "transcribe" /\ place \in {"sending", "response", "reading"} /\ tail' # "open"
      BY <2>2 DEF Requested, Breaks
    <2>5. ClientTypeOK'
      BY <1>1, <2>2, <2>3 DEF ClientTypeOK
    <2>6. ContractInv'
      BY <2>2 DEF SessionInv, ContractInv
    <2>7. StageInv'
      BY <2>2, <2>4 DEF SessionInv, StageInv
    <2>8. TextInv'
      BY <2>2 DEF SessionInv, TextInv
    <2>9. HeadInv'
      BY <1>1, <2>2, <2>3, <2>4 DEF HeadInv
    <2>10. LinesInv'
      <3>1. Framed(current_event, wire')
        BY <1>1, <2>1, <2>4, FramedPrefix DEF LinesInv
      <3>2. /\ InOrder(wire', Len(output))
            /\ \A n \in 0..k : Completes(wire, n, Len(output), sent)
                                  => Completes(wire', n, Len(output), sent)
        BY <1>1, <2>1, <2>4, InOrderPrefix DEF LinesInv
      <3>3. \A i \in 1..Len(wire') : IsFinal(wire'[i]) =>
                answer = wire'[i].val /\ Completes(wire', i - 1, Len(output), sent)
        BY <1>1, <2>3, <2>4, <3>2 DEF LinesInv
      <3>4. \A i \in 1..Len(wire') : IsChunk(wire'[i]) => wire'[i].chunk <= sent
        BY <1>1, <2>3, <2>4 DEF LinesInv
      <3> QED
        BY <2>2, <2>4, <3>1, <3>2, <3>3, <3>4 DEF LinesInv
    <2>11. ClockInv'
      BY <2>2, <2>4 DEF SessionInv, ClockInv
    <2>12. FailureJustified' /\ TimeoutJustified'
      BY <2>2 DEF SessionInv, FailureJustified, TimeoutJustified
    <2> QED
      BY <2>5, <2>6, <2>7, <2>8, <2>9, <2>10, <2>11, <2>12 DEF SessionInv
  <1>3. CASE Stall \/ Unstall
    <2>1. UNCHANGED <<contractVars, clientVars, wire, tail, clockVars>> /\ place # "exited"
      BY <1>3 DEF Stall, Unstall
    <2>2. ClientTypeOK'
      <3>1. stalled' \in BOOLEAN /\ stalls' \in 0..MaxStalls
        <4>1. CASE Stall
          BY <1>1, <4>1, ClientConstants DEF Stall, ClientTypeOK
        <4>2. CASE Unstall
          BY <1>1, <4>2 DEF Unstall, ClientTypeOK
        <4> QED
          BY <1>3, <4>1, <4>2
      <3> QED
        BY <1>1, <2>1, <3>1 DEF ClientTypeOK
    <2>3. ContractInv'
      BY <2>1 DEF SessionInv, ContractInv
    <2>4. StageInv'
      BY <2>1 DEF SessionInv, StageInv
    <2>5. TextInv'
      BY <2>1 DEF SessionInv, TextInv
    <2>6. HeadInv' /\ LinesInv'
      BY <1>1, <2>1 DEF HeadInv, LinesInv
    <2>7. ClockInv'
      <3>1. CASE Stall
        BY <1>1, <3>1 DEF Stall, SessionInv, ClientTypeOK, ClockInv
      <3>2. CASE Unstall
        BY <1>1, <3>2 DEF Unstall, SessionInv, ClientTypeOK, ClockInv
      <3> QED
        BY <1>3, <3>1, <3>2
    <2>8. FailureJustified' /\ TimeoutJustified'
      <3>1. exit' = "none"
        BY <2>1 DEF SessionInv, StageInv
      <3> QED
        BY <3>1 DEF FailureJustified, TimeoutJustified
    <2> QED
      BY <2>2, <2>3, <2>4, <2>5, <2>6, <2>7, <2>8 DEF SessionInv
  <1>4. CASE Second
    BY <1>4, SecondStep
  <1> QED
    BY <1>2, <1>3, <1>4

-----------------------------------------------------------------------------
(* Theorems.                                                               *)

\* Every step keeps the invariant.
LEMMA StepSession == SessionInv /\ [ClientNext]_sessionVars => SessionInv'
  <1> SUFFICES ASSUME SessionInv, [ClientNext]_sessionVars PROVE SessionInv'
    OBVIOUS
  <1>1. CASE Client
    BY <1>1, RequestStep, ReadStep, EndStep DEF Client
  <1>2. CASE Service
    BY <1>2, ServiceStep
  <1>3. CASE Break \/ Stall \/ Unstall \/ Second
    BY <1>3, NetworkStep
  <1>4. CASE UNCHANGED sessionVars
    <2>1. UNCHANGED <<contractVars, clientVars, wireVars, clockVars>>
      BY <1>4 DEF sessionVars
    <2> USE DEF contractVars, clientVars, wireVars, clockVars
    <2>2. ClientTypeOK'
      BY <2>1 DEF SessionInv, ClientTypeOK
    <2>3. ContractInv' /\ StageInv' /\ ClockInv' /\ FailureJustified' /\ TimeoutJustified'
      BY <2>1 DEF SessionInv, ContractInv, StageInv, ClockInv, FailureJustified, TimeoutJustified
    <2>4. TextInv'
      BY <2>1 DEF SessionInv, TextInv
    <2>5. place # "exited" => HeadInv' /\ LinesInv'
      BY <2>1 DEF SessionInv, HeadInv, LinesInv
    <2> QED
      BY <2>1, <2>2, <2>3, <2>4, <2>5 DEF SessionInv
  <1> QED
    BY <1>1, <1>2, <1>3, <1>4 DEF ClientNext

\* The invariant holds in every reachable state.
THEOREM SessionInvariance == ClientSpec => []SessionInv
  BY InitSession, StepSession, PTL DEF ClientSpec

\* Type correctness, for any number of chunks, pieces and stalls: what is on the wire
\* are lines of the protocol, and the text consists of chunks that the job may produce.
THEOREM ClientTyped == ClientSpec => []ClientTypeOK
  <1>1. SessionInv => ClientTypeOK
    BY DEF SessionInv
  <1> QED
    BY <1>1, SessionInvariance, PTL

\* However long the transcript, and wherever the connection breaks: what transcribe()
\* has yielded is a prefix of it without gap or repetition, and DONE is seen only
\* behind the whole of a completed job.
THEOREM TextIsFaithful == ClientSpec => []TranscriptFaithful
  <1>1. SessionInv => TranscriptFaithful
    <2> SUFFICES ASSUME SessionInv PROVE TranscriptFaithful
      OBVIOUS
    <2>1. TextInv /\ ContractInv
      BY DEF SessionInv
    <2>2. told => outcome = "completed" /\ Len(output) = produced
      BY <2>1 DEF TextInv, ContractInv
    <2> QED
      BY <2>1, <2>2 DEF TextInv, TranscriptFaithful
  <1> QED
    BY <1>1, SessionInvariance, PTL

\* For any transcript and any break of the connection: the client fails with ERROR or
\* an HTTP error only for its cause, and the parser of transcribe() never raises.
THEOREM FailuresAreJustified == ClientSpec => []FailureJustified
  <1>1. SessionInv => FailureJustified
    BY DEF SessionInv
  <1> QED
    BY <1>1, SessionInvariance, PTL

\* For any keep-alive interval that, with one more second, is below the socket's
\* timeout: event_stream keeps the client from giving up on a stream, however long the
\* job takes, unless the network stalls.
THEOREM TimeoutsAreJustified == ClientSpec => []TimeoutJustified
  <1>1. SessionInv => TimeoutJustified
    BY DEF SessionInv
  <1> QED
    BY <1>1, SessionInvariance, PTL
=============================================================================
