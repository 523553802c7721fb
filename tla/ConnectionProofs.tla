-------------------------- MODULE ConnectionProofs --------------------------
(***************************************************************************)
(* Connection implements Frames, for any requests, any cut of the stream   *)
(* into reads and any end of the client.                                   *)
(***************************************************************************)
EXTENDS Connection, ParserLemmas, WellFoundedInduction

\* What a read may rely on: while a payload or a discard is under way, all of it
\* that was in the buffer is taken out.
Phases ==
  /\ pc \in {"line", "payload", "discard", "skipline", "closed"}
  /\ waiting \in BOOLEAN /\ need \in Nat /\ pending.len \in Nat
  /\ pc \in {"line", "skipline"} => pending = NoHeader
  /\ pc \notin {"payload", "closed"} => payload = <<>>
  /\ pc = "payload" => Len(payload) + need = pending.len
  /\ pc \in {"payload", "discard"} /\ need > 0 => buffer = <<>>
  /\ waiting => pc # "skipline" /\ (pc = "discard" => need > 0)

Units == wire \in Seq(STRING) /\ buffer \in Seq(STRING) /\ payload \in Seq(STRING)

\* The responses are sequences of something.
Written == \E S : delivered \in Seq(S) /\ out \in Seq(S)

Inv == Units /\ Written /\ Phases

\* What Frames sees.
Stream == IF pc = "closed" THEN <<>> ELSE payload \o buffer \o wire

-----------------------------------------------------------------------------
(* Sequences.                                                               *)

LEMMA LeastIs ==
  ASSUME NEW T \in SUBSET Nat, T # {}
  PROVE  Min(T) \in T /\ \A y \in T : Min(T) <= y
<1> DEFINE R == OpToRel(<, Nat)
<1>1. IsWellFoundedOn(R, Nat)
  BY NatLessThanWellFounded
<1>2. \A x, y \in Nat : <<y, x>> \in R <=> y < x
  BY DEF OpToRel
<1> HIDE DEF R
<1>3. PICK x \in T : \A y \in T : ~ (<<y, x>> \in R)
  BY <1>1, WFMin
<1>4. x \in Nat /\ \A y \in T : y \in Nat
  OBVIOUS
<1>5. \A y \in T : ~ (y < x)
  BY <1>2, <1>3, <1>4
<1>6. \A y \in T : x <= y
  BY <1>4, <1>5
<1>7. \E z \in T : \A y \in T : z <= y
  BY <1>6
<1> QED
  BY <1>7 DEF Min

LEMMA CutIs ==
  ASSUME NEW S, NEW s \in Seq(S), NEW n \in 0 .. Len(s)
  PROVE  /\ SubSeq(s, 1, n) \in Seq(S) /\ Len(SubSeq(s, 1, n)) = n
         /\ \A i \in 1 .. n : SubSeq(s, 1, n)[i] = s[i]
         /\ SubSeq(s, n + 1, Len(s)) \in Seq(S) /\ Len(SubSeq(s, n + 1, Len(s))) = Len(s) - n
         /\ \A i \in 1 .. Len(s) - n : SubSeq(s, n + 1, Len(s))[i] = s[n + i]
<1>1. Len(s) \in Nat /\ n \in Nat /\ n <= Len(s) /\ \A i \in 1 .. Len(s) : s[i] \in S
  OBVIOUS
<1>2. /\ SubSeq(s, 1, n) \in Seq(S)
      /\ Len(SubSeq(s, 1, n)) = IF 1 <= n THEN n - 1 + 1 ELSE 0
      /\ \A i \in 1 .. n - 1 + 1 : SubSeq(s, 1, n)[i] = s[1 + i - 1]
  <2>1. \A i \in 1 .. n : s[i] \in S
    BY <1>1
  <2> QED
    BY <1>1, <2>1, SubSeqProperties
<1>3. /\ SubSeq(s, n + 1, Len(s)) \in Seq(S)
      /\ Len(SubSeq(s, n + 1, Len(s))) =
           IF n + 1 <= Len(s) THEN Len(s) - (n + 1) + 1 ELSE 0
      /\ \A i \in 1 .. Len(s) - (n + 1) + 1 : SubSeq(s, n + 1, Len(s))[i] = s[(n + 1) + i - 1]
  <2>1. \A i \in n + 1 .. Len(s) : s[i] \in S
    BY <1>1
  <2> QED
    BY <1>1, <2>1, SubSeqProperties
<1> QED
  BY <1>1, <1>2, <1>3

\* A sequence cut in two is the two parts, one after the other.
LEMMA Rejoined ==
  ASSUME NEW S, NEW s \in Seq(S), NEW n \in 0 .. Len(s)
  PROVE  SubSeq(s, 1, n) \o SubSeq(s, n + 1, Len(s)) = s
<1> DEFINE a == SubSeq(s, 1, n)
           b == SubSeq(s, n + 1, Len(s))
<1>1. /\ a \in Seq(S) /\ Len(a) = n /\ \A i \in 1 .. n : a[i] = s[i]
      /\ b \in Seq(S) /\ Len(b) = Len(s) - n
      /\ \A i \in 1 .. Len(s) - n : b[i] = s[n + i]
  BY CutIs
<1> HIDE DEF a, b
<1>2. /\ a \o b \in Seq(S) /\ Len(a \o b) = Len(a) + Len(b)
      /\ \A i \in 1 .. Len(a) + Len(b) :
           (a \o b)[i] = IF i <= Len(a) THEN a[i] ELSE b[i - Len(a)]
  BY <1>1, ConcatProperties
<1>3. Len(a \o b) = Len(s) /\ Len(s) \in Nat
  BY <1>1, <1>2
<1>4. \A i \in 1 .. Len(a \o b) : (a \o b)[i] = s[i]
  <2>1. SUFFICES ASSUME NEW i \in 1 .. Len(a \o b) PROVE (a \o b)[i] = s[i]
    OBVIOUS
  <2>2. CASE i <= n
    BY <1>1, <1>2, <1>3, <2>2
  <2>3. CASE ~ (i <= n)
    <3>1. i - n \in 1 .. Len(s) - n /\ n + (i - n) = i
      BY <1>3, <2>3
    <3> QED
      BY <1>1, <1>2, <1>3, <2>3, <3>1
  <2> QED
    BY <2>2, <2>3
<1>5. a \o b = s
  BY <1>2, <1>3, <1>4, SeqEqual
<1> QED
  BY <1>5 DEF a, b

\* A cut within the first of two sequences.
LEMMA CutFirst ==
  ASSUME NEW S, NEW s \in Seq(S), NEW t \in Seq(S), NEW n \in 0 .. Len(s)
  PROVE  /\ SubSeq(s \o t, 1, n) = SubSeq(s, 1, n)
         /\ SubSeq(s \o t, n + 1, Len(s \o t)) = SubSeq(s, n + 1, Len(s)) \o t
<1> DEFINE a == SubSeq(s, 1, n)
           b == SubSeq(s, n + 1, Len(s))
           c == b \o t
           u == s \o t
<1>1. a \in Seq(S) /\ b \in Seq(S) /\ Len(a) = n
  BY CutIs
<1>0. a \o b = s
  BY Rejoined
<1>2. u \in Seq(S) /\ Len(u) = Len(s) + Len(t) /\ n \in 0 .. Len(u)
  BY ConcatProperties
<1> HIDE DEF a, b
<1>3. u = a \o c /\ c \in Seq(S)
  <2>1. (a \o b) \o t = a \o (b \o t)
    BY <1>1, ConcatAssociative
  <2>2. b \o t \in Seq(S)
    BY <1>1, ConcatProperties
  <2> QED
    BY <1>0, <2>1, <2>2
<1> DEFINE d == SubSeq(u, 1, n)
           e == SubSeq(u, n + 1, Len(u))
<1> HIDE DEF c, u
<1>4. d \in Seq(S) /\ e \in Seq(S) /\ Len(d) = n /\ d \o e = u
  BY <1>2, CutIs, Rejoined
<1>5. \A i \in 1 .. n : d[i] = u[i] /\ a[i] = u[i]
  <2>1. \A i \in 1 .. n : d[i] = u[i]
    BY <1>2, CutIs
  <2>2. \A i \in 1 .. Len(a) + Len(c) : (a \o c)[i] = IF i <= Len(a) THEN a[i] ELSE c[i - Len(a)]
    BY <1>1, <1>3, ConcatProperties
  <2>3. Len(c) \in Nat
    BY <1>3
  <2> QED
    BY <1>1, <1>3, <2>1, <2>2, <2>3
<1>6. d = a
  BY <1>1, <1>4, <1>5, SeqEqual
<1> HIDE DEF d, e
<1>7. e = c
  BY <1>1, <1>3, <1>4, <1>6, ConcatSimplifications
<1> QED
  BY <1>6, <1>7 DEF a, b, c, d, e, u
\* A cut within the second of two sequences.
LEMMA CutSecond ==
  ASSUME NEW S, NEW s \in Seq(S), NEW t \in Seq(S), NEW n \in 0 .. Len(t)
  PROVE  SubSeq(s \o t, Len(s) + n + 1, Len(s \o t)) = SubSeq(t, n + 1, Len(t))
<1> DEFINE a == SubSeq(t, 1, n)
           b == SubSeq(t, n + 1, Len(t))
           h == s \o a
<1>1. a \in Seq(S) /\ b \in Seq(S) /\ Len(a) = n
  BY CutIs
<1>2. t = a \o b
  BY Rejoined
<1> HIDE DEF a, b
<1>3. h \in Seq(S) /\ Len(h) = Len(s) + n
  BY <1>1, ConcatProperties
<1>4. (s \o a) \o b = s \o (a \o b)
  BY <1>1, ConcatAssociative
<1>5. s \o t = h \o b
  BY <1>2, <1>4
<1> HIDE DEF h
<1>6. Len(h) \in 0 .. Len(h)
  BY <1>3
<1>7. SubSeq(h \o b, Len(h) + 1, Len(h \o b)) = SubSeq(h, Len(h) + 1, Len(h)) \o b
  BY <1>1, <1>3, <1>6, CutFirst
<1>8. SubSeq(h, Len(h) + 1, Len(h)) = <<>>
  BY <1>3, <1>6, SubSeqEmpty
<1>9. <<>> \o b = b
  BY <1>1, ConcatEmptySeq
<1> QED
  BY <1>3, <1>5, <1>7, <1>8, <1>9 DEF b

-----------------------------------------------------------------------------
(* Headers, lines, and the stream.                                          *)

LEMMA HeaderLength ==
  ASSUME NEW units
  PROVE  HeaderOfLine(units).len \in Nat
<1>1. CASE Len(Trimmed(units)) = 1 /\ Trimmed(units)[1] \in DOMAIN Text
  BY <1>1, LengthIsNat DEF HeaderOfLine, HeaderOf, HeaderOfWord
<1>2. CASE ~ (Len(Trimmed(units)) = 1 /\ Trimmed(units)[1] \in DOMAIN Text)
  BY <1>2, LengthIsNat DEF HeaderOfLine, HeaderOf
<1> QED
  BY <1>1, <1>2

\* The first line of the buffer.
LEMMA LineIs ==
  ASSUME buffer \in Seq(STRING), HasLine
  PROVE  \E k \in 1 .. Len(buffer) :
           /\ buffer[k] = LF /\ \A i \in 1 .. k - 1 : buffer[i] # LF
           /\ Line = SubSeq(buffer, 1, k)
           /\ AfterLine = SubSeq(buffer, k + 1, Len(buffer))
<1> DEFINE T == {n \in DOMAIN buffer : buffer[n] = LF}
           k == Min(T)
<1>1. DOMAIN buffer = 1 .. Len(buffer) /\ Len(buffer) \in Nat
  OBVIOUS
<1>2. T \in SUBSET Nat /\ T # {}
  BY <1>1 DEF HasLine, Range
<1>3. k \in T /\ \A y \in T : k <= y
  BY <1>2, LeastIs
<1>6. Line = SubSeq(buffer, 1, k)
  BY DEF Line
<1> HIDE DEF k
<1>4. k \in 1 .. Len(buffer) /\ buffer[k] = LF
  BY <1>1, <1>3
<1>5. \A i \in 1 .. k - 1 : buffer[i] # LF
  <2>1. \A i \in 1 .. Len(buffer) : buffer[i] = LF => k <= i
    BY <1>1, <1>3
  <2> QED
    BY <1>1, <1>4, <2>1
<1>7. Len(Line) = k
  BY <1>1, <1>4, <1>6, CutIs
<1>8. AfterLine = SubSeq(buffer, k + 1, Len(buffer))
  BY <1>7 DEF AfterLine, Drop
<1> QED
  BY <1>4, <1>5, <1>6, <1>8

LEMMA NoLine ==
  ASSUME buffer \in Seq(STRING), ~ HasLine
  PROVE  \A i \in 1 .. Len(buffer) : buffer[i] # LF
BY DEF HasLine, Range

\* Where no payload is held, the stream is the buffer and the wire.
LEMMA StreamIs ==
  ASSUME Inv, pc # "closed"
  PROVE  /\ payload = <<>> => Stream = buffer \o wire
         /\ Stream = payload \o (buffer \o wire)
         /\ buffer \o wire \in Seq(STRING) /\ Stream \in Seq(STRING)
         /\ Len(buffer \o wire) = Len(buffer) + Len(wire)
         /\ Len(Stream) = Len(payload) + Len(buffer) + Len(wire)
         /\ \A i \in 1 .. Len(buffer) : (buffer \o wire)[i] = buffer[i]
<1>1. wire \in Seq(STRING) /\ buffer \in Seq(STRING) /\ payload \in Seq(STRING)
  BY DEF Inv, Units
<1>2. Stream = (payload \o buffer) \o wire
  BY DEF Stream
<1>3. (payload \o buffer) \o wire = payload \o (buffer \o wire)
  BY <1>1, ConcatAssociative
<1>4. /\ buffer \o wire \in Seq(STRING) /\ Len(buffer \o wire) = Len(buffer) + Len(wire)
      /\ \A i \in 1 .. Len(buffer) + Len(wire) :
           (buffer \o wire)[i] = IF i <= Len(buffer) THEN buffer[i] ELSE wire[i - Len(buffer)]
  BY <1>1, ConcatProperties
<1>5. \A i \in 1 .. Len(buffer) : (buffer \o wire)[i] = buffer[i]
  BY <1>1, <1>4
<1> DEFINE rest == buffer \o wire
<1> HIDE DEF rest
<1>6. payload \o rest \in Seq(STRING) /\ Len(payload \o rest) = Len(payload) + Len(rest)
  BY <1>1, <1>4, ConcatProperties DEF rest
<1>7. payload = <<>> => payload \o rest = rest
  BY <1>1, <1>4, ConcatEmptySeq DEF rest
<1>8. Stream = payload \o rest
  BY <1>2, <1>3 DEF rest
<1>9. Len(payload) \in Nat /\ Len(buffer) \in Nat /\ Len(wire) \in Nat
  BY <1>1
<1>10. rest \in Seq(STRING) /\ Len(rest) = Len(buffer) + Len(wire)
  BY <1>4 DEF rest
<1>11. Len(Stream) = Len(payload) + Len(buffer) + Len(wire) /\ Stream \in Seq(STRING)
  BY <1>6, <1>8, <1>9, <1>10
<1>12. payload = <<>> => Stream = rest
  BY <1>7, <1>8
<1> QED
  BY <1>5, <1>8, <1>10, <1>11, <1>12 DEF rest

\* The first line of the buffer is the first line of the stream.
LEMMA LineOfStream ==
  ASSUME Inv, pc \in {"line", "skipline"}, HasLine
  PROVE  \E k \in 1 .. Len(Stream) :
           /\ Stream[k] = LF /\ \A i \in 1 .. k - 1 : Stream[i] # LF
           /\ SubSeq(Stream, 1, k) = Line
           /\ SubSeq(Stream, k + 1, Len(Stream)) = AfterLine \o wire
           /\ AfterLine \in Seq(STRING)
<1>1. wire \in Seq(STRING) /\ buffer \in Seq(STRING) /\ payload = <<>>
  BY DEF Inv, Units, Phases
<1>2. PICK k \in 1 .. Len(buffer) :
        /\ buffer[k] = LF /\ \A i \in 1 .. k - 1 : buffer[i] # LF
        /\ Line = SubSeq(buffer, 1, k)
        /\ AfterLine = SubSeq(buffer, k + 1, Len(buffer))
  BY <1>1, LineIs
<1>3. /\ Stream = buffer \o wire /\ Len(Stream) = Len(buffer) + Len(wire)
      /\ \A i \in 1 .. Len(buffer) : Stream[i] = buffer[i]
  BY <1>1, StreamIs
<1>4. /\ SubSeq(buffer \o wire, 1, k) = SubSeq(buffer, 1, k)
      /\ SubSeq(buffer \o wire, k + 1, Len(buffer \o wire)) =
           SubSeq(buffer, k + 1, Len(buffer)) \o wire
      /\ SubSeq(buffer, k + 1, Len(buffer)) \in Seq(STRING)
  <2>1. k \in 0 .. Len(buffer)
    OBVIOUS
  <2> QED
    BY <1>1, <2>1, CutFirst, CutIs
<1>5. k \in 1 .. Len(Stream) /\ Len(buffer) \in Nat /\ Len(wire) \in Nat
  BY <1>1, <1>3
<1>6. Stream[k] = LF /\ \A i \in 1 .. k - 1 : Stream[i] # LF
  BY <1>2, <1>3, <1>5
<1> QED
  BY <1>2, <1>3, <1>4, <1>5, <1>6

-----------------------------------------------------------------------------
(* Responses.                                                               *)

LEMMA WriteAppends ==
  ASSUME Written, NEW r, Write({r})
  PROVE  Framed!Answer(r) /\ Written'
<1>1. PICK S : delivered \in Seq(S) /\ out \in Seq(S)
  BY DEF Written
<1> DEFINE T == S \cup {r}
<1>2. delivered \in Seq(T) /\ out \in Seq(T) /\ r \in T /\ <<r>> \in Seq(T)
  BY <1>1, SeqMonotonic
<1> HIDE DEF T
<1>3. delivered \o out \in Seq(T) /\ Append(out, r) \in Seq(T)
  BY <1>2, ConcatProperties, AppendProperties
<1>4. CASE Len(out) = WriterCap
  <2>1. delivered' = delivered \o out /\ out' = <<r>>
    BY <1>4 DEF Write
  <2>2. (delivered \o out) \o <<r>> = Append(delivered \o out, r)
    BY <1>2, <1>3, AppendIsConcat
  <2> QED
    BY <1>2, <1>3, <2>1, <2>2 DEF Written, Framed!Answer
<1>5. CASE Len(out) # WriterCap
  <2>1. delivered' = delivered /\ out' = Append(out, r)
    BY <1>5 DEF Write
  <2>2. Append(out, r) = out \o <<r>> /\ Append(delivered \o out, r) = (delivered \o out) \o <<r>>
    BY <1>2, <1>3, AppendIsConcat
  <2>3. delivered \o (out \o <<r>>) = (delivered \o out) \o <<r>>
    BY <1>2, ConcatAssociative
  <2> QED
    BY <1>2, <1>3, <2>1, <2>2, <2>3 DEF Written, Framed!Answer
<1> QED
  BY <1>4, <1>5

LEMMA ExecuteRuns ==
  ASSUME Written, NEW cmd, NEW data, Execute(cmd, data)
  PROVE  Framed!Run(cmd, data) /\ Written'
<1>1. executed' = Append(executed, [cmd |-> cmd, data |-> data])
  BY DEF Execute
<1>2. CASE Response(cmd) = {}
  <2>1. UNCHANGED <<delivered, out>>
    BY <1>2 DEF Execute, WriteIfAny, responses
  <2> QED
    BY <1>1, <1>2, <2>1 DEF Framed!Run, Written
<1>3. CASE Response(cmd) # {}
  <2>1. PICK r : Response(cmd) = {r}
    BY <1>3 DEF Response
  <2>2. Write({r})
    BY <1>3, <2>1 DEF Execute, WriteIfAny
  <2>3. Framed!Answer(r) /\ Written'
    BY <2>2, WriteAppends
  <2> QED
    BY <1>1, <2>1, <2>3 DEF Framed!Run
<1> QED
  BY <1>2, <1>3

LEMMA NothingWritten ==
  ASSUME Written, UNCHANGED <<delivered, out>>
  PROVE  Written' /\ (delivered \o out)' = delivered \o out
BY DEF Written

-----------------------------------------------------------------------------
(* The client.                                                              *)

\* What arrives joins the end of the stream.
LEMMA Arrives ==
  ASSUME Inv, NEW more \in Seq(STRING), wire' = wire \o more, peer = "open",
         UNCHANGED session
  PROVE  Inv' /\ Framed!Next
<1>1. /\ UNCHANGED <<pc, waiting, buffer, need, pending, payload, out, delivered, executed>>
      /\ wire \in Seq(STRING)
  BY DEF session, body, responses, Inv, Units
<1>2. Inv'
  <2>1. wire' \in Seq(STRING)
    BY <1>1, ConcatProperties
  <2> QED
    BY <1>1, <2>1 DEF Inv, Units, Phases, Written
<1>3. CASE pc = "closed"
  <2>1. Stream = <<>> /\ Stream' = <<>>
    BY <1>1, <1>3 DEF Stream
  <2>2. Framed!IsPrefix(Stream, Stream')
    BY <2>1 DEF Framed!IsPrefix
  <2>3. Framed!Arrive
    BY <1>1, <1>3, <2>2 DEF Framed!Arrive, Stream
  <2> QED
    BY <1>2, <2>3 DEF Framed!Next
<1>4. CASE pc # "closed"
  <2> DEFINE s    == Stream
             held == payload \o buffer
  <2>1. s \in Seq(STRING) /\ s = held \o wire
    BY <1>4, StreamIs DEF Stream
  <2>2. Stream' = held \o (wire \o more)
    BY <1>1, <1>4 DEF Stream
  <2>3. held \in Seq(STRING)
    BY ConcatProperties DEF Inv, Units
  <2> HIDE DEF held
  <2>9. (held \o wire) \o more = held \o (wire \o more)
    BY <1>1, <2>3, ConcatAssociative
  <2>4. Stream' = s \o more
    BY <2>1, <2>2, <2>9
  <2> HIDE DEF s
  <2>5. Len(s) \in 0 .. Len(s) /\ Len(s) <= Len(s \o more)
    BY <2>1, ConcatProperties
  <2>6. SubSeq(s \o more, 1, Len(s)) = SubSeq(s, 1, Len(s))
    BY <2>1, <2>5, CutFirst
  <2>7. Framed!IsPrefix(Stream, Stream')
    BY <2>4, <2>5, <2>6 DEF Framed!IsPrefix, s
  <2>8. Framed!Arrive
    BY <1>1, <1>4, <2>7 DEF Framed!Arrive, Stream
  <2> QED
    BY <1>2, <2>8 DEF Framed!Next
<1> QED
  BY <1>3, <1>4

LEMMA ClientSteps ==
  ASSUME Inv, (\E r \in Requests : Send(r)) \/ Stop
  PROVE  Inv' /\ Framed!Next
<1>1. \A r \in Requests : r.bytes \in Seq(STRING)
  BY RequestsAssumption DEF Request
<1>2. wire \in Seq(STRING)
  BY DEF Inv, Units
<1>3. CASE \E r \in Requests : Send(r)
  <2>1. PICK r \in Requests : Send(r)
    BY <1>3
  <2>2. r.bytes \in Seq(STRING) /\ wire' = wire \o r.bytes /\ peer = "open" /\ UNCHANGED session
    BY <1>1, <2>1 DEF Send
  <2> QED
    BY <2>2, Arrives
<1>4. CASE Stop
  <2>1. peer = "open" /\ UNCHANGED session
    BY <1>4 DEF Stop
  <2>2. \/ wire' = wire
        \/ \E r \in Requests : \E n \in 1 .. Len(r.bytes) - 1 : wire' = wire \o SubSeq(r.bytes, 1, n)
    BY <1>4 DEF Stop
  <2>3. \E more \in Seq(STRING) : wire' = wire \o more
    <3>1. CASE wire' = wire
      BY <1>2, <3>1, ConcatEmptySeq, EmptySeq
    <3>2. CASE \E r \in Requests : \E n \in 1 .. Len(r.bytes) - 1 :
                 wire' = wire \o SubSeq(r.bytes, 1, n)
      <4>0. PICK r \in Requests : \E n \in 1 .. Len(r.bytes) - 1 :
              wire' = wire \o SubSeq(r.bytes, 1, n)
        BY <3>2
      <4>1. PICK n \in 1 .. Len(r.bytes) - 1 : wire' = wire \o SubSeq(r.bytes, 1, n)
        BY <4>0
      <4>2. r.bytes \in Seq(STRING) /\ n \in 0 .. Len(r.bytes)
        BY <1>1
      <4>3. SubSeq(r.bytes, 1, n) \in Seq(STRING)
        BY <4>2, CutIs
      <4> QED
        BY <4>1, <4>3
    <3> QED
      BY <2>2, <3>1, <3>2
  <2> QED
    BY <2>1, <2>3, Arrives
<1> QED
  BY <1>3, <1>4

-----------------------------------------------------------------------------
(* Reading.                                                                 *)

\* A step that the client cannot see.
LEMMA Unseen ==
  ASSUME Stream' = Stream, UNCHANGED <<peer, pc, pending, executed>>,
         pc = "discard" => need' = need, (delivered \o out)' = delivered \o out
  PROVE  UNCHANGED Framed!vars
BY DEF Framed!vars, Stream

\* The end of the session.
LEMMA Closes ==
  ASSUME pc' = "closed", UNCHANGED <<peer, executed, delivered, out>>
  PROVE  Framed!Over
<1>1. Stream' = <<>>
  BY DEF Stream
<1> QED
  BY <1>1 DEF Framed!Over, Stream

LEMMA CutWire ==
  ASSUME wire \in Seq(STRING), NEW n \in 0 .. Len(wire)
  PROVE  /\ SubSeq(wire, 1, n) \in Seq(STRING) /\ Drop(wire, n) \in Seq(STRING)
         /\ Len(SubSeq(wire, 1, n)) = n
         /\ SubSeq(wire, 1, n) \o Drop(wire, n) = wire
BY CutIs, Rejoined DEF Drop

LEMMA FlushStep ==
  ASSUME Inv, Flush
  PROVE  Inv' /\ UNCHANGED Framed!vars
<1>1. /\ UNCHANGED <<peer, wire, pc, buffer, need, pending, payload, executed>>
      /\ waiting' = TRUE /\ delivered' = delivered \o out /\ out' = <<>>
  BY DEF Flush, clientVars, body
<1>2. PICK S : delivered \in Seq(S) /\ out \in Seq(S)
  BY DEF Inv, Written
<1>3. delivered \o out \in Seq(S) /\ out' \in Seq(S)
  BY <1>1, <1>2, ConcatProperties
<1>4. (delivered \o out)' = delivered \o out
  BY <1>1, <1>3, ConcatEmptySeq
<1>5. pc \in {"line", "payload", "discard"} /\ (pc = "discard" => need > 0)
  BY DEF Flush, NeedsInput
<1>6. Phases'
  BY <1>1, <1>5 DEF Inv, Phases
<1>7. Units' /\ Written'
  BY <1>1, <1>3 DEF Inv, Units, Written
<1>8. Stream' = Stream
  BY <1>1 DEF Stream
<1> QED
  BY <1>1, <1>4, <1>6, <1>7, <1>8, Unseen DEF Inv

LEMMA FailStep ==
  ASSUME Inv, Fail
  PROVE  Inv' /\ Framed!Handle
<1>1. /\ UNCHANGED <<peer, wire, waiting, buffer, need, pending, payload, out, delivered, executed>>
      /\ pc' = "closed" /\ peer = "gone" /\ pc # "closed"
  BY DEF Fail, clientVars, body, responses
<1>2. Inv'
  BY <1>1 DEF Inv, Phases, Units, Written
<1>3. Framed!Hangup
  BY <1>1, Closes DEF Framed!Hangup
<1> QED
  BY <1>2, <1>3 DEF Framed!Handle

LEMMA FillStep ==
  ASSUME Inv, Fill
  PROVE  Inv' /\ UNCHANGED Framed!vars
<1>1. /\ UNCHANGED <<peer, pc, need, pending, payload, out, delivered, executed>>
      /\ waiting' \in BOOLEAN /\ ~ waiting'
      /\ pc = "line" \/ (pc = "payload" /\ need = 0)
  BY DEF Fill, clientVars, body, responses
<1>2. PICK n \in 1 .. Len(wire) :
        buffer' = buffer \o SubSeq(wire, 1, n) /\ wire' = Drop(wire, n)
  BY DEF Fill
<1> DEFINE got == SubSeq(wire, 1, n)
           left == Drop(wire, n)
<1>3. wire \in Seq(STRING) /\ buffer \in Seq(STRING) /\ payload \in Seq(STRING)
  BY DEF Inv, Units
<1>10. n \in 0 .. Len(wire)
  OBVIOUS
<1>4. got \in Seq(STRING) /\ left \in Seq(STRING)
  BY <1>3, <1>10, CutWire
<1>11. got \o left = wire
  BY <1>3, <1>10, CutWire
<1>5. buffer' = buffer \o got /\ wire' = left
  BY <1>2
<1> HIDE DEF got, left
<1>6. (payload \o (buffer \o got)) \o left = (payload \o buffer) \o (got \o left)
  <2> DEFINE held == payload \o buffer
  <2>0. got \in Seq(STRING) /\ buffer \in Seq(STRING) /\ payload \in Seq(STRING)
    BY <1>3, <1>4
  <2>1. (payload \o buffer) \o got = payload \o (buffer \o got)
    BY <2>0, ConcatAssociative
  <2>2. held \in Seq(STRING)
    BY <1>3, ConcatProperties
  <2> HIDE DEF held
  <2>3. (held \o got) \o left = held \o (got \o left)
    BY <1>4, <2>2, ConcatAssociative
  <2> QED
    BY <2>1, <2>3 DEF held
<1>7. Stream' = Stream
  BY <1>1, <1>5, <1>6, <1>11 DEF Stream
<1>8. buffer' \in Seq(STRING) /\ wire' \in Seq(STRING)
  BY <1>3, <1>4, <1>5, ConcatProperties
<1>9. Units' /\ Written'
  BY <1>1, <1>3, <1>8 DEF Inv, Units, Written
<1>12. Phases'
  BY <1>1 DEF Inv, Phases
<1> QED
  BY <1>1, <1>7, <1>9, <1>12, Unseen DEF Inv

LEMMA ReadDirectStep ==
  ASSUME Inv, ReadDirect
  PROVE  Inv' /\ (Framed!Handle \/ UNCHANGED Framed!vars)
<1>1. /\ UNCHANGED <<peer, pc, buffer, pending, out, delivered, executed>>
      /\ waiting' = FALSE /\ pc \in {"payload", "discard"}
  BY DEF ReadDirect, clientVars, responses
<1>2. PICK n \in 1 .. Least(need, Len(wire)) :
        /\ need' = need - n /\ wire' = Drop(wire, n)
        /\ payload' = IF pc = "payload" THEN payload \o SubSeq(wire, 1, n) ELSE payload
  BY DEF ReadDirect
<1>3. /\ wire \in Seq(STRING) /\ payload \in Seq(STRING) /\ need \in Nat
      /\ Len(wire) \in Nat /\ Len(payload) \in Nat
  BY DEF Inv, Units, Phases
<1>4. n \in Nat \ {0} /\ n <= need /\ n \in 0 .. Len(wire) /\ n \in 1 .. Len(wire)
  BY <1>3 DEF Least
<1>5. buffer = <<>> /\ need > 0 /\ need' \in Nat
  BY <1>1, <1>2, <1>3, <1>4 DEF Inv, Phases
<1> DEFINE a == SubSeq(wire, 1, n)
           w == Drop(wire, n)
<1>6. a \in Seq(STRING) /\ w \in Seq(STRING) /\ Len(a) = n
  BY <1>3, <1>4, CutWire
<1>11. a \o w = wire
  BY <1>3, <1>4, CutWire
<1>7. wire' = w /\ w = SubSeq(wire, n + 1, Len(wire))
  BY <1>2 DEF Drop
<1>8. payload' = IF pc = "payload" THEN payload \o a ELSE payload
  BY <1>2
<1> HIDE DEF a, w
<1>9. CASE pc = "payload"
  <2>1. payload \o a \in Seq(STRING) /\ Len(payload \o a) = Len(payload) + n
    BY <1>3, <1>6, ConcatProperties
  <2>7. (payload \o a) \o <<>> = payload \o a
    BY <2>1, ConcatEmptySeq
  <2>8. payload \o <<>> = payload
    BY <1>3, ConcatEmptySeq
  <2>2. (payload \o a) \o w = payload \o (a \o w)
    BY <1>3, <1>6, ConcatAssociative
  <2>3. Stream' = Stream
    BY <1>1, <1>5, <1>7, <1>8, <1>9, <1>11, <2>2, <2>7, <2>8 DEF Stream
  <2>4. Len(payload') + need' = pending.len
    <3>1. Len(payload) + need = pending.len
      BY <1>9 DEF Inv, Phases
    <3> QED
      BY <1>2, <1>3, <1>4, <1>8, <1>9, <2>1, <3>1
  <2>5. Phases'
    BY <1>1, <1>5, <1>9, <2>4 DEF Inv, Phases
  <2>6. Units' /\ Written'
    BY <1>1, <1>6, <1>7, <1>8, <1>9, <2>1 DEF Inv, Units, Written
  <2> QED
    BY <1>1, <1>9, <2>3, <2>5, <2>6, Unseen DEF Inv
<1>10. CASE pc = "discard"
  <2>1. payload = <<>> /\ payload' = <<>> /\ buffer' = <<>>
    BY <1>1, <1>5, <1>8, <1>10 DEF Inv, Phases
  <2>2. Stream = wire /\ Stream' = w
    BY <1>1, <1>3, <1>5, <1>6, <1>7, <1>10, <2>1, ConcatEmptySeq DEF Stream
  <2>3. Phases'
    BY <1>1, <1>5, <1>10, <2>1 DEF Inv, Phases
  <2>4. Units' /\ Written'
    BY <1>1, <1>6, <1>7, <2>1 DEF Inv, Units, Written
  <2>5. n \in 1 .. Len(Stream) /\ Stream' = SubSeq(Stream, n + 1, Len(Stream))
    BY <1>4, <1>7, <2>2
  <2>6. Framed!Discard
    BY <1>1, <1>2, <1>4, <1>10, <2>5 DEF Framed!Discard, Framed!After, Stream
  <2> QED
    BY <2>3, <2>4, <2>6 DEF Inv, Framed!Handle
<1> QED
  BY <1>1, <1>9, <1>10

LEMMA EndOfInputStep ==
  ASSUME Inv, EndOfInput
  PROVE  Inv' /\ (Framed!Handle \/ UNCHANGED Framed!vars)
<1>1. /\ UNCHANGED <<peer, wire, buffer, pending, payload, out, delivered, executed>>
      /\ waiting /\ waiting' = FALSE /\ peer = "gone" /\ wire = <<>>
  BY DEF EndOfInput, clientVars, responses
<1>2. CASE pc = "discard"
  <2>1. need' = 0 /\ pc' = pc
    BY <1>2 DEF EndOfInput
  <2>2. buffer = <<>> /\ payload = <<>>
    BY <1>1, <1>2 DEF Inv, Phases
  <2>3. Stream = <<>> /\ Stream' = <<>>
    BY <1>1, <1>2, <2>1, <2>2, EmptySeq, ConcatEmptySeq DEF Stream
  <2>4. Inv'
    BY <1>1, <1>2, <2>1, <2>2 DEF Inv, Phases, Units, Written
  <2>5. Framed!Discard
    BY <1>1, <1>2, <2>1, <2>3 DEF Framed!Discard, Stream
  <2> QED
    BY <2>4, <2>5 DEF Framed!Handle
<1>3. CASE pc # "discard"
  <2>1. pc' = "closed" /\ need' = need
    BY <1>3 DEF EndOfInput
  <2>2. Inv'
    BY <1>1, <2>1 DEF Inv, Phases, Units, Written
  <2>3. CASE pc = "closed"
    <3>1. Stream' = Stream
      BY <2>1, <2>3 DEF Stream
    <3> QED
      BY <1>1, <2>1, <2>2, <2>3, <3>1, Unseen
  <2>4. CASE pc # "closed"
    <3>1. Framed!Hangup
      BY <1>1, <2>1, <2>4, Closes DEF Framed!Hangup
    <3> QED
      BY <2>2, <3>1 DEF Framed!Handle
  <2> QED
    BY <2>3, <2>4
<1> QED
  BY <1>2, <1>3

-----------------------------------------------------------------------------
(* read_command.                                                            *)

\* What read_line returns is the first line of the stream.
LEMMA TakesLine ==
  ASSUME Inv, NEW header \in NextHeader
  PROVE  /\ pc = "line" /\ payload = <<>> /\ header.len \in Nat
         /\ AfterLine \in Seq(STRING) /\ wire \in Seq(STRING) /\ Stream \in Seq(STRING)
         /\ \E k \in 1 .. Len(Stream) :
              /\ Framed!EndsAt(k) /\ Framed!HeaderAt(k) = header
              /\ SubSeq(Stream, k + 1, Len(Stream)) = AfterLine \o wire
<1>1. pc = "line" /\ HasLine /\ header = HeaderOfLine(Line)
  BY DEF NextHeader
<1>2. header.len \in Nat
  BY <1>1, HeaderLength
<1>3. PICK k \in 1 .. Len(Stream) :
        /\ Stream[k] = LF /\ \A i \in 1 .. k - 1 : Stream[i] # LF
        /\ SubSeq(Stream, 1, k) = Line
        /\ SubSeq(Stream, k + 1, Len(Stream)) = AfterLine \o wire
        /\ AfterLine \in Seq(STRING)
  BY <1>1, LineOfStream
<1>4. Framed!EndsAt(k)
  BY <1>3 DEF Framed!EndsAt, Framed!NoLineIn, Stream
<1>5. Framed!HeaderAt(k) = header
  BY <1>1, <1>3 DEF Framed!HeaderAt, Stream
<1>6. payload = <<>> /\ wire \in Seq(STRING) /\ Stream \in Seq(STRING)
  BY <1>1, StreamIs DEF Inv, Units, Phases
<1> QED
  BY <1>1, <1>2, <1>3, <1>4, <1>5, <1>6

\* The stream after a step that leaves no payload held.
LEMMA NextStream ==
  ASSUME pc' # "closed", payload' = <<>>, NEW b \in Seq(STRING), buffer' = b
  PROVE  Stream' = b \o wire'
<1>1. <<>> \o b = b
  BY ConcatEmptySeq
<1> QED
  BY <1>1 DEF Stream

LEMMA ImmediateStep ==
  ASSUME Inv, NEW header \in NextHeader, RunImmediate(header)
  PROVE  Inv' /\ Framed!Handle
<1>1. /\ UNCHANGED <<peer, wire, pc, need, pending, payload>>
      /\ buffer' = AfterLine /\ waiting' \in BOOLEAN /\ ~ waiting'
      /\ header.kind = "immediate" /\ Execute(header.cmd, <<>>)
  BY DEF RunImmediate, Proceed, clientVars, body
<1>2. /\ pc = "line" /\ payload = <<>> /\ AfterLine \in Seq(STRING) /\ wire \in Seq(STRING)
  BY TakesLine
<1>3. PICK k \in 1 .. Len(Stream) :
        /\ Framed!EndsAt(k) /\ Framed!HeaderAt(k) = header
        /\ SubSeq(Stream, k + 1, Len(Stream)) = AfterLine \o wire
  BY TakesLine
<1>4. Framed!Run(header.cmd, <<>>) /\ Written'
  BY <1>1, ExecuteRuns DEF Inv
<1>5. Phases' /\ Units'
  BY <1>1, <1>2 DEF Inv, Phases, Units
<1>6. Stream' = SubSeq(Stream, k + 1, Len(Stream))
  BY <1>1, <1>2, <1>3, NextStream
<1>7. Framed!Immediate(k)
  BY <1>1, <1>2, <1>3, <1>4, <1>6 DEF Framed!Immediate, Framed!After, Stream
<1>8. Framed!TakeLine
  BY <1>2, <1>3, <1>7 DEF Framed!TakeLine, Stream
<1> QED
  BY <1>4, <1>5, <1>8 DEF Inv, Framed!Handle

LEMMA StoreHeaderStep ==
  ASSUME Inv, NEW header \in NextHeader, StoreHeader(header)
  PROVE  Inv' /\ Framed!Handle
<1> DEFINE n == Least(Len(AfterLine), header.len)
           a == SubSeq(AfterLine, 1, n)
           b == SubSeq(AfterLine, n + 1, Len(AfterLine))
<1>1. /\ UNCHANGED <<peer, wire, out, delivered, executed>>
      /\ payload' = a /\ buffer' = b /\ need' = header.len - n
      /\ waiting' \in BOOLEAN /\ ~ waiting'
      /\ pc' = "payload" /\ pending' = header /\ header.kind = "store"
  BY DEF StoreHeader, Proceed, clientVars, responses, Drop
<1>2. /\ pc = "line" /\ payload = <<>> /\ header.len \in Nat
      /\ AfterLine \in Seq(STRING) /\ wire \in Seq(STRING)
  BY TakesLine
<1>3. PICK k \in 1 .. Len(Stream) :
        /\ Framed!EndsAt(k) /\ Framed!HeaderAt(k) = header
        /\ SubSeq(Stream, k + 1, Len(Stream)) = AfterLine \o wire
  BY TakesLine
<1>4. /\ n \in 0 .. Len(AfterLine) /\ n \in Nat /\ n <= header.len
      /\ n = Len(AfterLine) \/ n = header.len
  BY <1>2 DEF Least
<1> HIDE DEF n
<1>5. a \in Seq(STRING) /\ b \in Seq(STRING) /\ Len(a) = n /\ Len(b) = Len(AfterLine) - n
  BY <1>2, <1>4, CutIs
<1>6. a \o b = AfterLine
  BY <1>2, <1>4, Rejoined
<1> HIDE DEF a, b
<1>7. need' \in Nat /\ Len(payload') + need' = pending'.len /\ pending'.len \in Nat
  BY <1>1, <1>2, <1>4, <1>5
<1>8. need' > 0 => buffer' = <<>>
  <2>1. need' > 0 => Len(b) = 0
    BY <1>1, <1>2, <1>4, <1>5
  <2> QED
    BY <1>1, <1>5, <2>1, EmptySeq
<1>9. Phases'
  BY <1>1, <1>7, <1>8 DEF Phases
<1>10. Units' /\ Written'
  BY <1>1, <1>2, <1>5 DEF Inv, Units, Written
<1>11. Stream' = AfterLine \o wire
  BY <1>1, <1>6 DEF Stream
<1>12. Framed!Store(k)
  BY <1>1, <1>2, <1>3, <1>11 DEF Framed!Store, Framed!After, Stream
<1>13. Framed!TakeLine
  BY <1>2, <1>3, <1>12 DEF Framed!TakeLine, Stream
<1> QED
  BY <1>9, <1>10, <1>13 DEF Inv, Framed!Handle

LEMMA ErroneousStep ==
  ASSUME Inv, NEW header \in NextHeader, Erroneous(header)
  PROVE  Inv' /\ Framed!Handle
<1>1. /\ UNCHANGED <<peer, wire, pc, need, pending, payload, executed>>
      /\ buffer' = AfterLine /\ waiting' \in BOOLEAN /\ ~ waiting'
      /\ header.kind = "error" /\ header.len = 0 /\ Write({header.error})
  BY DEF Erroneous, Proceed, clientVars, body
<1>2. /\ pc = "line" /\ payload = <<>> /\ AfterLine \in Seq(STRING) /\ wire \in Seq(STRING)
  BY TakesLine
<1>3. PICK k \in 1 .. Len(Stream) :
        /\ Framed!EndsAt(k) /\ Framed!HeaderAt(k) = header
        /\ SubSeq(Stream, k + 1, Len(Stream)) = AfterLine \o wire
  BY TakesLine
<1>4. Framed!Answer(header.error) /\ Written'
  BY <1>1, WriteAppends DEF Inv
<1>5. Phases' /\ Units'
  BY <1>1, <1>2 DEF Inv, Phases, Units
<1>6. Stream' = SubSeq(Stream, k + 1, Len(Stream))
  BY <1>1, <1>2, <1>3, NextStream
<1>7. Framed!Refuse(k)
  BY <1>1, <1>2, <1>3, <1>4, <1>6 DEF Framed!Refuse, Framed!After, Stream
<1>8. Framed!TakeLine
  BY <1>2, <1>3, <1>7 DEF Framed!TakeLine, Stream
<1> QED
  BY <1>4, <1>5, <1>8 DEF Inv, Framed!Handle

LEMMA SkipHeaderStep ==
  ASSUME Inv, NEW header \in NextHeader, SkipHeader(header)
  PROVE  Inv' /\ Framed!Handle
<1> DEFINE n == Least(Len(AfterLine), header.len)
           b == SubSeq(AfterLine, n + 1, Len(AfterLine))
<1>1. /\ UNCHANGED <<peer, wire, payload, out, delivered, executed>>
      /\ buffer' = b /\ need' = header.len - n
      /\ waiting' \in BOOLEAN /\ ~ waiting'
      /\ pc' = "discard" /\ pending' = header /\ header.kind = "error" /\ header.len > 0
  BY DEF SkipHeader, Proceed, clientVars, responses, Drop
<1>2. /\ pc = "line" /\ payload = <<>> /\ header.len \in Nat
      /\ AfterLine \in Seq(STRING) /\ wire \in Seq(STRING) /\ Stream \in Seq(STRING)
  BY TakesLine
<1>3. PICK k \in 1 .. Len(Stream) :
        /\ Framed!EndsAt(k) /\ Framed!HeaderAt(k) = header
        /\ SubSeq(Stream, k + 1, Len(Stream)) = AfterLine \o wire
  BY TakesLine
<1>4. /\ n \in 0 .. Len(AfterLine) /\ n \in Nat /\ n <= header.len
      /\ n = Len(AfterLine) \/ n = header.len
  BY <1>2 DEF Least
<1> HIDE DEF n
<1>5. b \in Seq(STRING) /\ Len(b) = Len(AfterLine) - n
  BY <1>2, <1>4, CutIs
<1> DEFINE s == Stream
           front == SubSeq(s, 1, k)
           rest  == SubSeq(s, k + 1, Len(s))
<1>6. rest = AfterLine \o wire
  BY <1>3
<1>7. /\ front \in Seq(STRING) /\ Len(front) = k /\ Len(rest) = Len(s) - k
      /\ rest \in Seq(STRING) /\ k \in Nat
  <2>1. k \in 0 .. Len(s)
    BY <1>2
  <2> QED
    BY <1>2, <2>1, CutIs
<1>8. front \o rest = s
  <2>1. k \in 0 .. Len(s)
    BY <1>2
  <2> QED
    BY <1>2, <2>1, Rejoined
<1> HIDE DEF s, front, rest
<1>9. Len(rest) = Len(AfterLine) + Len(wire)
  BY <1>2, <1>6, ConcatProperties
<1>10. n \in 0 .. Len(rest) /\ n \in 0 .. Len(s) - k
  BY <1>2, <1>4, <1>7, <1>9
<1>11. SubSeq(s, k + n + 1, Len(s)) = SubSeq(rest, n + 1, Len(rest))
  BY <1>7, <1>8, <1>10, CutSecond
<1>12. SubSeq(rest, n + 1, Len(rest)) = b \o wire
  BY <1>2, <1>4, <1>6, CutFirst
<1> HIDE DEF b
<1>13. Stream' = b \o wire
  BY <1>1, <1>2, <1>5, NextStream
<1>14. Stream' = Framed!After(k + n)
  BY <1>2, <1>11, <1>12, <1>13 DEF Framed!After, Stream, s
<1>15. need' \in Nat /\ (need' > 0 => buffer' = <<>>)
  <2>1. need' \in Nat /\ (need' > 0 => Len(b) = 0)
    BY <1>1, <1>2, <1>4, <1>5
  <2> QED
    BY <1>1, <1>5, <2>1, EmptySeq
<1>16. Phases'
  BY <1>1, <1>2, <1>15 DEF Phases
<1>17. Units' /\ Written'
  BY <1>1, <1>2, <1>5 DEF Inv, Units, Written
<1>18. n \in 0 .. Len(Stream) - k
  BY <1>10 DEF s
<1>19. Framed!RefuseAndDiscard(k)
  BY <1>1, <1>2, <1>3, <1>4, <1>14, <1>18 DEF Framed!RefuseAndDiscard, Stream
<1>20. Framed!TakeLine
  BY <1>2, <1>3, <1>19 DEF Framed!TakeLine, Stream
<1> QED
  BY <1>16, <1>17, <1>20 DEF Inv, Framed!Handle

LEMMA QuitStep ==
  ASSUME Inv, NEW header \in NextHeader, Quit(header)
  PROVE  Inv' /\ Framed!Handle
<1>1. /\ UNCHANGED <<peer, wire, need, pending, payload, out, delivered, executed>>
      /\ buffer' = AfterLine /\ waiting' \in BOOLEAN /\ ~ waiting'
      /\ pc' = "closed" /\ header.kind = "quit"
  BY DEF Quit, Proceed, clientVars, body, responses
<1>2. pc = "line" /\ AfterLine \in Seq(STRING)
  BY TakesLine
<1>3. PICK k \in 1 .. Len(Stream) : Framed!EndsAt(k) /\ Framed!HeaderAt(k) = header
  BY TakesLine
<1>4. Inv'
  BY <1>1, <1>2 DEF Inv, Phases, Units, Written
<1>5. Framed!Quit(k)
  BY <1>1, <1>3, Closes DEF Framed!Quit
<1>6. Framed!TakeLine
  BY <1>2, <1>3, <1>5 DEF Framed!TakeLine, Stream
<1> QED
  BY <1>4, <1>6 DEF Framed!Handle

-----------------------------------------------------------------------------
(* Payloads, discards and lines that are too long.                          *)

\* A payload read whole is followed by the buffer.
LEMMA PayloadInStream ==
  ASSUME Inv, pc = "payload", need = 0, Len(buffer) >= 2
  PROVE  /\ Len(payload) = pending.len /\ pending.len + 2 <= Len(Stream)
         /\ SubSeq(Stream, 1, pending.len) = payload
         /\ SubSeq(Stream, pending.len + 1, pending.len + 2) = SubSeq(buffer, 1, 2)
         /\ SubSeq(Stream, pending.len + 2 + 1, Len(Stream)) = Drop(buffer, 2) \o wire
         /\ Drop(buffer, 2) \in Seq(STRING)
<1> DEFINE l    == Len(payload)
           rest == buffer \o wire
<1>1. /\ wire \in Seq(STRING) /\ buffer \in Seq(STRING) /\ payload \in Seq(STRING)
      /\ l \in Nat /\ Len(buffer) \in Nat /\ Len(wire) \in Nat /\ 2 \in 0 .. Len(buffer)
  BY DEF Inv, Units
<1>2. l = pending.len
  BY <1>1 DEF Inv, Phases
<1>3. /\ Stream = payload \o rest /\ rest \in Seq(STRING)
      /\ Len(rest) = Len(buffer) + Len(wire) /\ Len(Stream) = l + Len(rest)
  BY <1>1, StreamIs
<1> HIDE DEF rest
<1>4. SubSeq(Stream, 1, l) = payload
  <2>1. SubSeq(payload \o rest, 1, l) = SubSeq(payload, 1, l)
    BY <1>1, <1>3, CutFirst
  <2>2. SubSeq(payload, 1, l) = payload
    BY <1>1, SubSeqFull
  <2> QED
    BY <1>3, <2>1, <2>2
<1>5. SubSeq(Stream, l + 1, l + 2) = SubSeq(buffer, 1, 2)
  <2>1. /\ l + 1 \in l + 1 .. l + Len(rest) /\ l + 2 \in l + 1 .. l + Len(rest)
        /\ (l + 1) - l = 1 /\ (l + 2) - l = 2
    BY <1>1, <1>3
  <2>2. SubSeq(payload \o rest, l + 1, l + 2) = SubSeq(rest, (l + 1) - l, (l + 2) - l)
    BY <1>1, <1>3, <2>1, SubSeqOfConcat2
  <2>3. SubSeq(rest, 1, 2) = SubSeq(buffer, 1, 2)
    BY <1>1, CutFirst DEF rest
  <2> QED
    BY <1>3, <2>1, <2>2, <2>3
<1>6. SubSeq(Stream, l + 2 + 1, Len(Stream)) = Drop(buffer, 2) \o wire
  <2>1. 2 \in 0 .. Len(rest)
    BY <1>1, <1>3
  <2>2. SubSeq(payload \o rest, l + 2 + 1, Len(payload \o rest)) = SubSeq(rest, 2 + 1, Len(rest))
    BY <1>1, <1>3, <2>1, CutSecond
  <2>3. SubSeq(rest, 2 + 1, Len(rest)) = SubSeq(buffer, 2 + 1, Len(buffer)) \o wire
    BY <1>1, CutFirst DEF rest
  <2> QED
    BY <1>3, <2>2, <2>3 DEF Drop
<1>7. Drop(buffer, 2) \in Seq(STRING)
  BY <1>1, CutIs DEF Drop
<1>8. l + 2 <= Len(Stream)
  BY <1>1, <1>3
<1> QED
  BY <1>2, <1>4, <1>5, <1>6, <1>7, <1>8

LEMMA TerminatorStep ==
  ASSUME Inv, Terminator
  PROVE  Inv' /\ Framed!Handle
<1>1. /\ UNCHANGED <<peer, wire, need>>
      /\ pc = "payload" /\ need = 0 /\ Len(buffer) >= 2
      /\ buffer' = Drop(buffer, 2) /\ payload' = <<>>
      /\ waiting' \in BOOLEAN /\ ~ waiting'
      /\ pc' = "line" /\ pending' = NoHeader
  BY DEF Terminator, Proceed, clientVars
<1>2. /\ Len(payload) = pending.len /\ pending.len + 2 <= Len(Stream)
      /\ SubSeq(Stream, 1, pending.len) = payload
      /\ SubSeq(Stream, pending.len + 1, pending.len + 2) = SubSeq(buffer, 1, 2)
      /\ SubSeq(Stream, pending.len + 2 + 1, Len(Stream)) = Drop(buffer, 2) \o wire
      /\ Drop(buffer, 2) \in Seq(STRING)
  BY <1>1, PayloadInStream
<1>3. Stream' = Framed!After(pending.len + 2)
  <2>1. Stream' = Drop(buffer, 2) \o wire
    BY <1>1, <1>2, NextStream
  <2> QED
    BY <1>1, <1>2, <2>1 DEF Framed!After, Stream
<1>4. NoHeader.len \in Nat
  BY DEF NoHeader, CommandHeader
<1>5. Phases'
  BY <1>1, <1>4 DEF Inv, Phases
<1>6. Units'
  BY <1>1, <1>2, EmptySeq DEF Inv, Units
<1>7. CASE SubSeq(buffer, 1, 2) = <<CR, LF>>
  <2>1. Execute(pending.cmd, payload)
    BY <1>7 DEF Terminator
  <2>2. Framed!Run(pending.cmd, payload) /\ Written'
    BY <2>1, ExecuteRuns DEF Inv
  <2>3. Framed!TakePayload
    BY <1>1, <1>2, <1>3, <1>7, <2>2 DEF Framed!TakePayload, Framed!Back, Stream
  <2> QED
    BY <1>5, <1>6, <2>2, <2>3 DEF Inv, Framed!Handle
<1>8. CASE SubSeq(buffer, 1, 2) # <<CR, LF>>
  <2>1. Write({"BAD_CHUNK"}) /\ executed' = executed
    BY <1>8 DEF Terminator
  <2>2. Framed!Answer("BAD_CHUNK") /\ Written'
    BY <2>1, WriteAppends DEF Inv
  <2>3. Framed!TakePayload
    BY <1>1, <1>2, <1>3, <1>8, <2>1, <2>2 DEF Framed!TakePayload, Framed!Back, Stream
  <2> QED
    BY <1>5, <1>6, <2>2, <2>3 DEF Inv, Framed!Handle
<1> QED
  BY <1>7, <1>8

LEMMA DiscardDoneStep ==
  ASSUME Inv, DiscardDone
  PROVE  Inv' /\ Framed!Handle
<1>1. /\ UNCHANGED <<peer, wire, buffer, need, payload, executed>>
      /\ pc = "discard" /\ need = 0
      /\ waiting' \in BOOLEAN /\ ~ waiting'
      /\ pc' = "line" /\ pending' = NoHeader /\ Write({pending.error})
  BY DEF DiscardDone, Proceed, clientVars
<1>2. Framed!Answer(pending.error) /\ Written'
  BY <1>1, WriteAppends DEF Inv
<1>3. NoHeader.len \in Nat /\ payload = <<>>
  BY <1>1 DEF NoHeader, CommandHeader, Inv, Phases
<1>4. Phases' /\ Units'
  BY <1>1, <1>3 DEF Inv, Phases, Units
<1>5. Stream' = Stream
  BY <1>1 DEF Stream
<1>6. Framed!Discarded
  BY <1>1, <1>2, <1>5 DEF Framed!Discarded, Framed!Back, Stream
<1> QED
  BY <1>2, <1>4, <1>6 DEF Inv, Framed!Handle

LEMMA TooLongStep ==
  ASSUME Inv, TooLong
  PROVE  Inv' /\ Framed!Handle
<1>1. /\ UNCHANGED <<peer, wire, buffer, need, pending, payload, out, delivered, executed>>
      /\ pc = "line" /\ ~ HasLine /\ Len(buffer) >= MaxLine
      /\ waiting' \in BOOLEAN /\ ~ waiting' /\ pc' = "skipline"
  BY DEF TooLong, Proceed, clientVars, body, responses
<1>2. Phases'
  BY <1>1 DEF Inv, Phases
<1>3. Units' /\ Written'
  BY <1>1 DEF Inv, Units, Written
<1>4. Stream' = Stream
  BY <1>1 DEF Stream
<1>5. /\ payload = <<>> /\ wire \in Seq(STRING) /\ buffer \in Seq(STRING)
      /\ MaxLine \in Nat /\ Len(buffer) \in Nat /\ Len(wire) \in Nat
  BY <1>1, SessionAssumption DEF Inv, Units, Phases
<1>6. /\ Len(Stream) = Len(buffer) + Len(wire) /\ Stream = buffer \o wire
      /\ \A i \in 1 .. Len(buffer) : Stream[i] = buffer[i]
  BY <1>1, <1>5, StreamIs
<1>7. MaxLine <= Len(Stream)
  BY <1>1, <1>5, <1>6
<1>8. \A i \in 1 .. MaxLine : Stream[i] # LF
  <2>1. \A i \in 1 .. Len(buffer) : buffer[i] # LF
    BY <1>1, <1>5, NoLine
  <2>2. \A i \in 1 .. MaxLine : i \in 1 .. Len(buffer)
    BY <1>1, <1>5
  <2> QED
    BY <1>6, <2>1, <2>2
<1>9. Framed!TooLong
  BY <1>1, <1>4, <1>7, <1>8 DEF Framed!TooLong, Framed!NoLineIn, Stream
<1> QED
  BY <1>2, <1>3, <1>9 DEF Inv, Framed!Handle

\* The buffer is cleared, and read again.
LEMMA SkipMore ==
  ASSUME Inv, pc = "skipline", ~ HasLine, NEW n \in 1 .. Len(wire),
         buffer' = SubSeq(wire, 1, n), wire' = Drop(wire, n),
         UNCHANGED <<peer, pc, waiting, need, pending, payload, out, delivered, executed>>
  PROVE  Inv' /\ (Framed!Handle \/ UNCHANGED Framed!vars)
<1>1. payload = <<>> /\ wire \in Seq(STRING) /\ buffer \in Seq(STRING) /\ Len(buffer) \in Nat
  BY DEF Inv, Units, Phases
<1>2. n \in 0 .. Len(wire)
  BY <1>1
<1>3. SubSeq(wire, 1, n) \in Seq(STRING) /\ Drop(wire, n) \in Seq(STRING)
  BY <1>1, <1>2, CutWire
<1>4. SubSeq(wire, 1, n) \o Drop(wire, n) = wire
  BY <1>1, <1>2, CutWire
<1>5. Stream' = wire
  BY <1>1, <1>3, <1>4, NextStream
<1>6. /\ Stream = buffer \o wire /\ Len(Stream) = Len(buffer) + Len(wire)
      /\ \A i \in 1 .. Len(buffer) : Stream[i] = buffer[i]
  BY <1>1, StreamIs
<1>7. Phases'
  BY <1>1 DEF Inv, Phases
<1>8. Units' /\ Written'
  BY <1>1, <1>3 DEF Inv, Units, Written
<1>9. CASE buffer = <<>>
  <2>1. Stream' = Stream
    BY <1>1, <1>5, <1>6, <1>9, ConcatEmptySeq
  <2> QED
    BY <1>7, <1>8, <2>1, Unseen DEF Inv
<1>10. CASE buffer # <<>>
  <2> DEFINE m == Len(buffer)
  <2>1. m \in 0 .. Len(buffer) /\ m \in 1 .. Len(Stream)
    BY <1>1, <1>6, <1>10, EmptySeq
  <2>2. /\ SubSeq(buffer \o wire, m + 1, Len(buffer \o wire)) =
             SubSeq(buffer, m + 1, Len(buffer)) \o wire
    BY <1>1, <2>1, CutFirst
  <2>3. SubSeq(buffer, m + 1, Len(buffer)) = <<>>
    BY <1>1, SubSeqEmpty
  <2>4. <<>> \o wire = wire
    BY <1>1, ConcatEmptySeq
  <2>5. Stream' = Framed!After(m)
    BY <1>5, <1>6, <2>2, <2>3, <2>4 DEF Framed!After, Stream
  <2>6. Framed!NoLineIn(m)
    BY <1>1, <1>6, NoLine DEF Framed!NoLineIn, Stream
  <2>7. Framed!Skip
    BY <2>1, <2>5, <2>6 DEF Framed!Skip, Stream
  <2> QED
    BY <1>7, <1>8, <2>7 DEF Inv, Framed!Handle
<1> QED
  BY <1>9, <1>10

LEMMA SkipLineStep ==
  ASSUME Inv, SkipLine
  PROVE  Inv' /\ (Framed!Handle \/ UNCHANGED Framed!vars)
<1>1. /\ UNCHANGED <<peer, waiting, need, pending, payload, executed>> /\ pc = "skipline"
  BY DEF SkipLine, clientVars, body
<1>2. /\ payload = <<>> /\ pending = NoHeader /\ ~ waiting /\ waiting \in BOOLEAN
      /\ wire \in Seq(STRING) /\ buffer \in Seq(STRING)
  BY <1>1 DEF Inv, Units, Phases
<1>3. CASE /\ HasLine /\ buffer' = AfterLine /\ pc' = "line"
           /\ Write({"TOO_LONG"}) /\ wire' = wire
  <2>1. PICK k \in 1 .. Len(Stream) :
          /\ Stream[k] = LF /\ \A i \in 1 .. k - 1 : Stream[i] # LF
          /\ SubSeq(Stream, k + 1, Len(Stream)) = AfterLine \o wire
          /\ AfterLine \in Seq(STRING)
    BY <1>1, <1>3, LineOfStream
  <2>2. Framed!Answer("TOO_LONG") /\ Written'
    BY <1>3, WriteAppends DEF Inv
  <2>3. Stream' = AfterLine \o wire
    BY <1>1, <1>2, <1>3, <2>1, NextStream
  <2>4. Phases' /\ Units'
    BY <1>1, <1>2, <1>3, <2>1 DEF Inv, Phases, Units
  <2>5. Framed!EndsAt(k)
    BY <2>1 DEF Framed!EndsAt, Framed!NoLineIn, Stream
  <2>6. Framed!Skipped
    BY <1>1, <1>2, <1>3, <2>1, <2>2, <2>3, <2>5
       DEF Framed!Skipped, Framed!Back, Framed!After, Stream
  <2> QED
    BY <2>2, <2>4, <2>6 DEF Inv, Framed!Handle
<1>4. CASE /\ ~ HasLine /\ UNCHANGED <<pc, out, delivered>>
           /\ \E n \in 1 .. Len(wire) : buffer' = SubSeq(wire, 1, n) /\ wire' = Drop(wire, n)
  BY <1>1, <1>4, SkipMore
<1>5. CASE /\ ~ HasLine /\ peer = "gone" /\ wire = <<>> /\ wire' = wire
           /\ buffer' = <<>> /\ pc' = "line" /\ Write({"TOO_LONG"})
  <2>1. Framed!Answer("TOO_LONG") /\ Written'
    BY <1>5, WriteAppends DEF Inv
  <2>2. <<>> \in Seq(STRING) /\ <<>> \o <<>> = <<>>
    BY EmptySeq, ConcatEmptySeq
  <2>3. Stream' = <<>>
    BY <1>1, <1>2, <1>5, <2>2, NextStream
  <2>4. Phases' /\ Units'
    BY <1>1, <1>2, <1>5, <2>2 DEF Inv, Phases, Units
  <2>5. Stream = buffer
    BY <1>1, <1>2, <1>5, StreamIs, ConcatEmptySeq
  <2>6. Framed!NoLineIn(Len(Stream))
    BY <1>2, <1>5, <2>5, NoLine DEF Framed!NoLineIn, Stream
  <2>7. Framed!Skipped
    BY <1>1, <1>2, <1>5, <2>1, <2>3, <2>6 DEF Framed!Skipped, Framed!Back, Stream
  <2> QED
    BY <2>1, <2>4, <2>7 DEF Inv, Framed!Handle
<1> QED
  BY <1>3, <1>4, <1>5 DEF SkipLine, responses

-----------------------------------------------------------------------------
(* The theorem.                                                             *)

\* What a session's step does to its stream is a step of Frames, or none.
LEMMA SessionSteps ==
  ASSUME Inv, Session
  PROVE  Inv' /\ (Framed!Handle \/ UNCHANGED Framed!vars)
<1>1. CASE \E header \in NextHeader :
             \/ RunImmediate(header) \/ StoreHeader(header) \/ Erroneous(header)
             \/ SkipHeader(header) \/ Quit(header)
  BY <1>1, ImmediateStep, StoreHeaderStep, ErroneousStep, SkipHeaderStep, QuitStep
<1>2. CASE Flush \/ Fail \/ Fill \/ ReadDirect \/ EndOfInput
  BY <1>2, FlushStep, FailStep, FillStep, ReadDirectStep, EndOfInputStep
<1>3. CASE Terminator \/ DiscardDone \/ TooLong \/ SkipLine
  BY <1>3, TerminatorStep, DiscardDoneStep, TooLongStep, SkipLineStep
<1> QED
  BY <1>1, <1>2, <1>3 DEF Session

LEMMA StepsFrames ==
  ASSUME Inv, [Next]_vars
  PROVE  Inv' /\ (Framed!Next \/ UNCHANGED Framed!vars)
<1>1. CASE (\E r \in Requests : Send(r)) \/ Stop
  BY <1>1, ClientSteps
<1>2. CASE Session
  BY <1>2, SessionSteps DEF Framed!Next
<1>3. CASE UNCHANGED vars
  <2>1. UNCHANGED <<peer, wire, pc, waiting, buffer, need, pending, payload,
                    out, delivered, executed>>
    BY <1>3 DEF vars, clientVars, session, body, responses
  <2>2. Stream' = Stream /\ (delivered \o out)' = delivered \o out
    BY <2>1 DEF Stream
  <2>3. Inv'
    BY <2>1 DEF Inv, Phases, Units, Written
  <2> QED
    BY <2>1, <2>2, <2>3, Unseen
<1> QED
  BY <1>1, <1>2, <1>3 DEF Next, Rest

\* Whatever is sent, however the reads cut it, and whenever the client stops:
\* the session handles its stream frame by frame.
THEOREM SessionHandlesFrames == Spec => HandlesFrames
<1>1. Init => Inv /\ Framed!Init
  <2>1. SUFFICES ASSUME Init PROVE Inv /\ Framed!Init
    OBVIOUS
  <2>2. \A S : <<>> \in Seq(S) /\ <<>> \o <<>> = <<>>
    BY EmptySeq, ConcatEmptySeq
  <2>3. Stream = <<>> /\ delivered \o out = <<>>
    BY <2>1, <2>2 DEF Init, Stream
  <2>4. NoHeader.len \in Nat
    BY DEF NoHeader, CommandHeader
  <2>5. Phases
    BY <2>1, <2>4 DEF Init, Phases
  <2>6. Units /\ Written
    BY <2>1, <2>2 DEF Init, Units, Written
  <2>7. Framed!Init
    BY <2>1, <2>3 DEF Init, Framed!Init, Stream
  <2> QED
    BY <2>5, <2>6, <2>7 DEF Inv
<1>2. Inv /\ [Next]_vars => Inv' /\ [Framed!Next]_(Framed!vars)
  BY StepsFrames
<1> QED
  BY <1>1, <1>2, PTL DEF Spec, HandlesFrames, Framed!Spec
=============================================================================
