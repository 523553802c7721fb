--------------------------- MODULE ConnectionOrder ---------------------------
(***************************************************************************)
(* A session keeps its requests apart: what it runs and what it answers    *)
(* are those of the requests, in their order.                              *)
(***************************************************************************)
EXTENDS ConnectionProofs, FiniteSetTheorems

\* All that the client has sent, request i after the first start[i] units; the
\* last request may be cut off.
Laid(i, r, start) ==
  /\ sent[i].bytes = r.bytes
  /\ \/ sent[i] = r /\ start[i + 1] = start[i] + Len(r.bytes)
     \/ /\ i = Len(sent) /\ peer # "open" /\ sent[i] = CutOff(r, peer)
        /\ start[i] < start[i + 1] /\ start[i + 1] < start[i] + Len(r.bytes)

Placed(start) ==
  /\ start \in [1 .. Len(sent) + 1 -> Nat]
  /\ \A i \in 1 .. Len(sent) :
       /\ start[i + 1] <= start[Len(sent) + 1]
       /\ \E r \in Requests : Laid(i, r, start)

\* The stream is what follows the first `taken` units of it.
Shows(start, taken) ==
  /\ taken \in Nat /\ Len(Stream) = start[Len(sent) + 1] - taken
  /\ \A i \in 1 .. Len(sent) : \A p \in 1 .. Len(Stream) :
       start[i] < taken + p /\ taken + p <= start[i + 1]
         => Stream[p] = sent[i].bytes[taken + p - start[i]]

\* The line of request i has n units, and its header is the pending one.
Announced(i, n) ==
  /\ i \in 1 .. Len(sent) /\ LineIn(sent[i].bytes, n)
  /\ pending = HeaderOfLine(SubSeq(sent[i].bytes, 1, n))

\* How far the session is in request i, whose turn it is.
InLine(i, start, taken)    == taken = start[i]
InPayload(i, start, taken) ==
  \E n \in Nat : Announced(i, n) /\ pending.kind = "store" /\ taken = start[i] + n
InDiscard(i, start, taken) ==
  \E n \in Nat :
    /\ Announced(i, n) /\ pending.kind = "error" /\ pending.len > 0
    /\ \/ taken + need = start[i] + n + pending.len
       \/ need = 0 /\ peer = "gone" /\ taken = start[i + 1]
InLongLine(i, start, taken) ==
  /\ i \in 1 .. Len(sent)
  /\ \E n \in Nat :
       /\ LineIn(sent[i].bytes, n) /\ n > MaxLine
       /\ start[i] <= taken /\ taken < start[i] + n

Within(i, start, taken) ==
  /\ pc = "line"     => InLine(i, start, taken)
  /\ pc = "payload"  => InPayload(i, start, taken)
  /\ pc = "discard"  => InDiscard(i, start, taken)
  /\ pc = "skipline" => InLongLine(i, start, taken)

\* A sequence has one choice of each request before i that has any.
Counts(seq, choices, i) ==
  /\ \E S : seq \in Seq(S)
  /\ Len(seq) = Rank(i - 1, Choosing(choices))
  /\ InOrder(seq, choices)

Counted(i) == Counts(executed, Runs, i) /\ Counts(delivered \o out, Answers, i)

\* It is the turn of request i, of which the session has taken a part.
Here(i, start, taken) ==
  /\ i \in 1 .. Len(sent) + 1 /\ taken \in Nat /\ Counted(i)
  /\ Placed(start) /\ Shows(start, taken) /\ Within(i, start, taken)

Aligned ==
  /\ sent \in Seq(Request)
  /\ \/ pc = "closed" /\ \E i \in 1 .. Len(sent) + 1 : Counted(i)
     \/ pc # "closed" /\ \E i, start, taken : Here(i, start, taken)

-----------------------------------------------------------------------------
(* Counting.                                                                *)

LEMMA RankIs ==
  ASSUME NEW I, I \subseteq Nat \ {0}, NEW i \in Nat
  PROVE  IsFiniteSet({j \in I : j <= i}) /\ Rank(i, I) \in Nat
<1>1. {j \in I : j <= i} \subseteq 1 .. i
  <2>1. \A j \in I : j \in Nat \ {0} /\ (j <= i => j \in 1 .. i)
    OBVIOUS
  <2> QED
    BY <2>1
<1>2. IsFiniteSet(1 .. i)
  BY FS_Interval
<1>3. IsFiniteSet({j \in I : j <= i})
  BY <1>1, <1>2, FS_Subset
<1> QED
  BY <1>3, FS_CardinalityType DEF Rank

\* The rank of a member is one more than that of the number before it.
LEMMA RankNext ==
  ASSUME NEW I, I \subseteq Nat \ {0}, NEW i \in Nat \ {0}
  PROVE  /\ i \in I => Rank(i, I) = Rank(i - 1, I) + 1
         /\ i \notin I => Rank(i, I) = Rank(i - 1, I)
<1> DEFINE before == {j \in I : j <= i - 1}
<1>1. IsFiniteSet(before) /\ i \notin before
  <2>1. i - 1 \in Nat
    OBVIOUS
  <2>2. IsFiniteSet({j \in I : j <= i - 1})
    BY <2>1, RankIs
  <2> QED
    BY <2>2
<1>4. \A j \in I : (j <= i <=> j <= i - 1 \/ j = i)
  OBVIOUS
<1>2. CASE i \in I
  <2>1. {j \in I : j <= i} = before \cup {i}
    BY <1>2, <1>4
  <2>2. Cardinality(before \cup {i}) = Cardinality(before) + 1
    BY <1>1, FS_AddElement
  <2> QED
    BY <1>2, <2>1, <2>2 DEF Rank
<1>3. CASE i \notin I
  <2>1. {j \in I : j <= i} = before
    BY <1>3, <1>4
  <2> QED
    BY <1>3, <2>1 DEF Rank
<1> QED
  BY <1>2, <1>3

\* Request i has been run, or answered.
LEMMA OneMore ==
  ASSUME NEW seq, NEW choices, NEW N \in Nat, DOMAIN choices = 1 .. N,
         NEW i \in 1 .. N, Counts(seq, choices, i), NEW e \in choices[i]
  PROVE  Counts(Append(seq, e), choices, i + 1)
<1>1. PICK S : seq \in Seq(S)
  BY DEF Counts
<1> DEFINE T == S \cup {e}
           I == Choosing(choices)
           more == Append(seq, e)
<1>2. seq \in Seq(T) /\ e \in T
  BY <1>1, SeqMonotonic
<1> HIDE DEF T
<1>3. /\ more \in Seq(T) /\ Len(more) = Len(seq) + 1
      /\ \A n \in 1 .. Len(seq) : more[n] = seq[n]
      /\ more[Len(seq) + 1] = e /\ Len(seq) \in Nat
  BY <1>2, AppendProperties
<1>4. I \subseteq Nat \ {0} /\ i \in I /\ i \in Nat \ {0}
  BY DEF Choosing
<1>5. Len(seq) = Rank(i - 1, I) /\ InOrder(seq, choices)
  BY DEF Counts
<1> HIDE DEF I, more
<1>6. Rank(i, I) = Rank(i - 1, I) + 1
  BY <1>4, RankNext
<1>7. Len(more) = Rank(i, I)
  BY <1>3, <1>5, <1>6
<1>8. ASSUME NEW n \in DOMAIN more
      PROVE  \E j \in DOMAIN choices : more[n] \in choices[j] /\ n = Rank(j, I)
  <2>1. DOMAIN more = 1 .. Len(seq) + 1 /\ DOMAIN seq = 1 .. Len(seq)
    BY <1>2, <1>3
  <2>2. CASE n = Len(seq) + 1
    BY <1>3, <1>7, <2>2
  <2>3. CASE n # Len(seq) + 1
    <3>1. n \in 1 .. Len(seq)
      BY <1>3, <2>1, <2>3
    <3>2. \E j \in DOMAIN choices : seq[n] \in choices[j] /\ n = Rank(j, I)
      BY <1>5, <2>1, <3>1 DEF InOrder, I
    <3> QED
      BY <1>3, <3>1, <3>2
  <2> QED
    BY <2>2, <2>3
<1>9. InOrder(more, choices)
  BY <1>8 DEF InOrder, I
<1>10. (i + 1) - 1 = i
  OBVIOUS
<1> QED
  BY <1>3, <1>7, <1>9, <1>10 DEF Counts, I, more

\* Request i has nothing to run, or no answer.
LEMMA NoMore ==
  ASSUME NEW seq, NEW choices, NEW N \in Nat, DOMAIN choices = 1 .. N,
         NEW i \in 1 .. N, Counts(seq, choices, i), choices[i] = {}
  PROVE  Counts(seq, choices, i + 1)
<1> DEFINE I == Choosing(choices)
<1>1. I \subseteq Nat \ {0} /\ i \notin I /\ i \in Nat \ {0}
  BY DEF Choosing
<1> HIDE DEF I
<1>2. Rank(i, I) = Rank(i - 1, I)
  BY <1>1, RankNext
<1>3. (i + 1) - 1 = i
  OBVIOUS
<1> QED
  BY <1>2, <1>3 DEF Counts, I

\* The client has sent one request more.
LEMMA StillCounts ==
  ASSUME NEW seq, NEW old, NEW new, NEW N \in Nat,
         DOMAIN old = 1 .. N, DOMAIN new = 1 .. N + 1,
         \A j \in 1 .. N : new[j] = old[j],
         NEW i \in 1 .. N + 1, Counts(seq, old, i)
  PROVE  Counts(seq, new, i)
<1> DEFINE I == Choosing(old)
           J == Choosing(new)
<1>1. \A n \in 0 .. N : Rank(n, I) = Rank(n, J)
  <2>1. SUFFICES ASSUME NEW n \in 0 .. N PROVE Rank(n, I) = Rank(n, J)
    OBVIOUS
  <2>2. \A j : j \in I /\ j <= n <=> j \in J /\ j <= n
    BY DEF Choosing
  <2>3. {j \in I : j <= n} = {j \in J : j <= n}
    BY <2>2
  <2> QED
    BY <2>3 DEF Rank
<1>2. Len(seq) = Rank(i - 1, I) /\ InOrder(seq, old) /\ i - 1 \in 0 .. N
  BY DEF Counts
<1>3. InOrder(seq, new)
  <2>1. SUFFICES ASSUME NEW n \in DOMAIN seq
                 PROVE  \E j \in DOMAIN new : seq[n] \in new[j] /\ n = Rank(j, J)
    BY DEF InOrder
  <2>2. PICK j \in DOMAIN old : seq[n] \in old[j] /\ n = Rank(j, I)
    BY <1>2 DEF InOrder
  <2>3. j \in 0 .. N /\ j \in DOMAIN new /\ new[j] = old[j]
    OBVIOUS
  <2> HIDE DEF I, J
  <2> QED
    BY <1>1, <2>2, <2>3
<1> HIDE DEF I, J
<1>4. Rank(i - 1, I) = Rank(i - 1, J)
  BY <1>1, <1>2
<1> QED
  BY <1>2, <1>3, <1>4 DEF Counts, I, J

-----------------------------------------------------------------------------
(* Requests and the stream.                                                 *)

LEMMA OneLine ==
  ASSUME NEW units \in Seq(STRING), NEW m, NEW n, LineIn(units, m), LineIn(units, n)
  PROVE  m = n
<1>1. m \in 1 .. Len(units) /\ n \in 1 .. Len(units) /\ Len(units) \in Nat
  BY DEF LineIn
<1>2. ~ (m < n)
  <2>1. m < n => m \in 1 .. n - 1
    BY <1>1
  <2> QED
    BY <2>1 DEF LineIn
<1>3. ~ (n < m)
  <2>1. n < m => n \in 1 .. m - 1
    BY <1>1
  <2> QED
    BY <2>1 DEF LineIn
<1> QED
  BY <1>1, <1>2, <1>3

\* A request is asked by its line.
LEMMA RequestIs ==
  ASSUME NEW r \in Requests, NEW n, LineIn(r.bytes, n)
  PROVE  /\ n \in Nat \ {0} /\ n <= Len(r.bytes)
         /\ Asks(r, n, HeaderOfLine(SubSeq(r.bytes, 1, n)))
<1>1. r.bytes \in Seq(STRING)
  BY RequestsAssumption DEF Request
<1>2. PICK m \in DOMAIN r.bytes :
        LineIn(r.bytes, m) /\ Asks(r, m, HeaderOfLine(SubSeq(r.bytes, 1, m)))
  BY RequestsAssumption
<1>3. m = n
  BY <1>1, <1>2, OneLine
<1>4. n \in 1 .. Len(r.bytes) /\ Len(r.bytes) \in Nat
  BY <1>1 DEF LineIn
<1> QED
  BY <1>2, <1>3, <1>4

\* What is sent, request by request.
LEMMA PlacedIs ==
  ASSUME NEW start, Placed(start), NEW i \in 1 .. Len(sent), Len(sent) \in Nat
  PROVE  /\ start[i] \in Nat /\ start[i + 1] \in Nat /\ start[Len(sent) + 1] \in Nat
         /\ start[i + 1] <= start[Len(sent) + 1]
         /\ sent[i].bytes \in Seq(STRING) /\ Len(sent[i].bytes) \in Nat
         /\ start[i + 1] <= start[i] + Len(sent[i].bytes)
         /\ \/ sent[i] \in Requests /\ start[i + 1] = start[i] + Len(sent[i].bytes)
            \/ i = Len(sent) /\ start[i + 1] < start[i] + Len(sent[i].bytes)
<1>1. i \in 1 .. Len(sent) + 1 /\ i + 1 \in 1 .. Len(sent) + 1
      /\ Len(sent) + 1 \in 1 .. Len(sent) + 1
  OBVIOUS
<1>2. start[i] \in Nat /\ start[i + 1] \in Nat /\ start[Len(sent) + 1] \in Nat
  BY <1>1 DEF Placed
<1>3. PICK r \in Requests : Laid(i, r, start)
  BY DEF Placed
<1>4. r.bytes \in Seq(STRING) /\ sent[i].bytes = r.bytes
  BY <1>3, RequestsAssumption DEF Request, Laid
<1>5. Len(r.bytes) \in Nat
  BY <1>4
<1>6. \/ sent[i] \in Requests /\ start[i + 1] = start[i] + Len(sent[i].bytes)
      \/ i = Len(sent) /\ start[i + 1] < start[i] + Len(sent[i].bytes)
  BY <1>3, <1>4 DEF Laid
<1>7. start[i + 1] <= start[Len(sent) + 1]
  BY DEF Placed
<1>8. start[i + 1] <= start[i] + Len(sent[i].bytes)
  BY <1>2, <1>4, <1>5, <1>6
<1> QED
  BY <1>2, <1>4, <1>5, <1>6, <1>7, <1>8

\* A request whose last unit is in the stream is whole.
LEMMA Entire ==
  ASSUME NEW start, NEW taken, Placed(start), Shows(start, taken),
         NEW i \in 1 .. Len(sent), Len(sent) \in Nat, Stream \in Seq(STRING),
         start[i] + Len(sent[i].bytes) <= taken + Len(Stream)
  PROVE  sent[i] \in Requests /\ start[i + 1] = start[i] + Len(sent[i].bytes)
<1>1. taken \in Nat /\ Len(Stream) \in Nat /\ Len(Stream) = start[Len(sent) + 1] - taken
  BY DEF Shows
<1>2. ~ (i = Len(sent) /\ start[i + 1] < start[i] + Len(sent[i].bytes))
  BY <1>1, PlacedIs
<1> QED
  BY <1>2, PlacedIs

\* The same units at another place.
LEMMA SameCut ==
  ASSUME NEW s \in Seq(STRING), NEW t \in Seq(STRING),
         NEW a \in Nat \ {0}, NEW b \in Nat, NEW d \in Nat,
         a <= b + 1, b <= Len(s), b + d <= Len(t),
         \A p \in a .. b : s[p] = t[p + d]
  PROVE  SubSeq(s, a, b) = SubSeq(t, a + d, b + d)
<1> DEFINE u == SubSeq(s, a, b)
           v == SubSeq(t, a + d, b + d)
<1>1. /\ u \in Seq(STRING) /\ Len(u) = IF a <= b THEN b - a + 1 ELSE 0
      /\ \A j \in 1 .. b - a + 1 : u[j] = s[a + j - 1]
  <2>1. a \in Nat /\ b \in Nat /\ \A p \in a .. b : s[p] \in STRING
    OBVIOUS
  <2> QED
    BY <2>1, SubSeqProperties
<1>2. /\ v \in Seq(STRING) /\ Len(v) = IF a + d <= b + d THEN (b + d) - (a + d) + 1 ELSE 0
      /\ \A j \in 1 .. (b + d) - (a + d) + 1 : v[j] = t[(a + d) + j - 1]
  <2>1. a + d \in Nat /\ b + d \in Nat /\ \A p \in a + d .. b + d : t[p] \in STRING
    OBVIOUS
  <2> QED
    BY <2>1, SubSeqProperties
<1> HIDE DEF u, v
<1>3. Len(u) = Len(v) /\ Len(u) = b - a + 1
  BY <1>1, <1>2
<1>4. \A j \in 1 .. Len(u) : u[j] = v[j]
  <2>1. SUFFICES ASSUME NEW j \in 1 .. Len(u) PROVE u[j] = v[j]
    OBVIOUS
  <2>2. j \in 1 .. b - a + 1 /\ j \in 1 .. (b + d) - (a + d) + 1
    BY <1>3
  <2>3. a + j - 1 \in a .. b /\ (a + d) + j - 1 = (a + j - 1) + d
    BY <2>2
  <2> QED
    BY <1>1, <1>2, <2>2, <2>3
<1>5. u = v
  BY <1>1, <1>2, <1>3, <1>4, SeqEqual
<1> QED
  BY <1>5 DEF u, v

\* Request i is what comes after the first `from` units, up to the first `to`.
Spans(i, start, from, to) == from = start[i] /\ to = start[i + 1]

\* Units a to b of the stream are units first to last of that request.
Covers(from, to, taken, a, b, first, last) ==
  /\ a \in Nat \ {0} /\ b \in Nat /\ a <= b + 1 /\ b <= Len(Stream)
  /\ from \in Nat /\ to \in Nat /\ taken \in Nat /\ from <= taken /\ taken + b <= to
  /\ first \in Nat /\ from + first = taken + a /\ last \in Nat /\ from + last = taken + b

InStream(a, b)            == SubSeq(Stream, a, b)
InRequest(i, first, last) == SubSeq(sent[i].bytes, first, last)

\* A piece of request i in the stream.
LEMMA Piece ==
  ASSUME NEW start, NEW taken, Placed(start), Shows(start, taken),
         NEW i \in 1 .. Len(sent), Len(sent) \in Nat, Stream \in Seq(STRING),
         NEW from, NEW to, Spans(i, start, from, to),
         NEW a, NEW b, NEW first, NEW last, Covers(from, to, taken, a, b, first, last)
  PROVE  InStream(a, b) = InRequest(i, first, last)
<1> DEFINE s == Stream
           t == sent[i].bytes
           d == taken - from
<1>7. /\ a \in Nat \ {0} /\ b \in Nat /\ a <= b + 1 /\ b <= Len(Stream)
      /\ from \in Nat /\ to \in Nat /\ taken \in Nat /\ from <= taken /\ taken + b <= to
      /\ first \in Nat /\ from + first = taken + a /\ last \in Nat /\ from + last = taken + b
  BY DEF Covers
<1>6. d \in Nat /\ taken = from + d /\ first = a + d /\ last = b + d
  BY <1>7
<1> HIDE DEF d
<1>1. to <= from + Len(t) /\ t \in Seq(STRING) /\ Len(t) \in Nat
  BY PlacedIs DEF Spans
<1>2. s \in Seq(STRING) /\ b <= Len(s) /\ Len(s) \in Nat
  BY <1>7
<1>3. b + d <= Len(t)
  <2> HIDE DEF t
  <2> QED
    BY <1>1, <1>6, <1>7
<1>4. \A p \in a .. b : s[p] = t[p + d]
  <2>1. SUFFICES ASSUME NEW p \in a .. b PROVE s[p] = t[p + d]
    OBVIOUS
  <2>2. p \in 1 .. Len(Stream) /\ p \in Nat /\ from < taken + p /\ taken + p <= to
    <3>1. p \in Nat /\ 1 <= p /\ p <= b
      BY <1>7
    <3>2. from < taken + p /\ taken + p <= to
      BY <1>6, <1>7, <3>1
    <3> QED
      BY <1>2, <1>7, <3>1, <3>2
  <2>3. Stream[p] = t[taken + p - from]
    BY <2>2 DEF Shows, Spans
  <2>4. taken + p - from = p + d
    BY <1>6, <1>7, <2>2
  <2> QED
    BY <2>3, <2>4
<1> HIDE DEF s, t
<1>5. SubSeq(s, a, b) = SubSeq(t, a + d, b + d)
  BY <1>1, <1>2, <1>3, <1>4, <1>6, <1>7, SameCut
<1> QED
  BY <1>5, <1>6 DEF s, t, InStream, InRequest

\* The first m units of the stream are taken off.
LEMMA Advance ==
  ASSUME NEW start, NEW taken, Placed(start), Shows(start, taken),
         Len(sent) \in Nat, Stream \in Seq(STRING), NEW m \in 0 .. Len(Stream),
         Stream' = SubSeq(Stream, m + 1, Len(Stream)), UNCHANGED <<sent, peer>>
  PROVE  Placed(start)' /\ Shows(start, taken + m)'
<1> DEFINE all == start[Len(sent) + 1]
           size == Len(Stream)
<1>1. taken \in Nat /\ m \in Nat /\ size \in Nat /\ m <= size
      /\ size = all - taken /\ taken + m \in Nat /\ all \in Nat
  <2>1. Len(sent) + 1 \in 1 .. Len(sent) + 1
    OBVIOUS
  <2> QED
    BY <2>1 DEF Shows, Placed
<1>2. /\ Len(Stream') = size - m
      /\ \A p \in 1 .. size - m : Stream'[p] = Stream[m + p]
  <2> DEFINE s == Stream
  <2>1. s \in Seq(STRING) /\ m \in 0 .. Len(s)
    OBVIOUS
  <2> HIDE DEF s
  <2>2. /\ Len(SubSeq(s, m + 1, Len(s))) = Len(s) - m
        /\ \A p \in 1 .. Len(s) - m : SubSeq(s, m + 1, Len(s))[p] = s[m + p]
    BY <2>1, CutIs
  <2> QED
    BY <2>2 DEF s
<1>3. Placed(start)'
  BY DEF Placed, Laid
<1>4. ASSUME NEW i \in 1 .. Len(sent), NEW p \in 1 .. Len(Stream'),
             start[i] < taken + m + p, taken + m + p <= start[i + 1]
      PROVE  Stream'[p] = sent[i].bytes[taken + m + p - start[i]]
  <2> DEFINE from == start[i]
             to   == start[i + 1]
  <2>1. p \in 1 .. size - m /\ m + p \in 1 .. size /\ p \in Nat
    <3>1. p \in 1 .. size - m
      BY <1>2
    <3> HIDE DEF size
    <3>2. size \in Nat /\ m \in Nat /\ m <= size
      BY <1>1
    <3> QED
      BY <3>1, <3>2
  <2>2. from \in Nat /\ to \in Nat /\ from < taken + m + p /\ taken + m + p <= to
    BY <1>4, PlacedIs
  <2> HIDE DEF from, to
  <2>3. taken + (m + p) = taken + m + p
    BY <1>1, <2>1
  <2>4. from < taken + (m + p) /\ taken + (m + p) <= to
    BY <2>2, <2>3
  <2>5. Stream[m + p] = sent[i].bytes[taken + (m + p) - from]
    BY <2>1, <2>4 DEF Shows, from, to
  <2>6. Stream'[p] = sent[i].bytes[taken + m + p - from]
    <3>1. Stream'[p] = Stream[m + p]
      BY <1>2, <2>1
    <3>2. taken + (m + p) - from = taken + m + p - from
      BY <1>1, <2>1, <2>2
    <3> QED
      BY <2>5, <3>1, <3>2
  <2> QED
    BY <2>6 DEF from
<1>5. Len(Stream') = all - (taken + m)
  <2> HIDE DEF all, size
  <2> QED
    BY <1>1, <1>2
<1> QED
  BY <1>1, <1>3, <1>4, <1>5 DEF Shows

\* At the turn of request i, the first line of the stream is the request's.
LEMMA FirstLine ==
  ASSUME NEW start, NEW taken, Placed(start), Shows(start, taken),
         Len(sent) \in Nat, Stream \in Seq(STRING),
         NEW i \in 1 .. Len(sent) + 1, taken = start[i],
         NEW n \in 1 .. Len(Stream), Stream[n] = LF, \A p \in 1 .. n - 1 : Stream[p] # LF
  PROVE  /\ i \in 1 .. Len(sent) /\ LineIn(sent[i].bytes, n)
         /\ SubSeq(Stream, 1, n) = SubSeq(sent[i].bytes, 1, n)
         /\ start[i] + n <= start[i + 1]
<1> DEFINE all  == start[Len(sent) + 1]
           size == Len(Stream)
           t    == sent[i].bytes
           to   == start[i + 1]
<1>1. taken \in Nat /\ size \in Nat /\ size = all - taken /\ n \in Nat /\ n <= size /\ n # 0
  BY DEF Shows
<1>2. i \in 1 .. Len(sent)
  BY <1>1
<1>3. /\ to \in Nat /\ t \in Seq(STRING) /\ Len(t) \in Nat
      /\ to <= taken + Len(t) /\ to <= all /\ all \in Nat
      /\ (sent[i] \in Requests /\ to = taken + Len(t)) \/ (i = Len(sent) /\ to < taken + Len(t))
  BY <1>2, PlacedIs
<1>4. ASSUME NEW p \in 1 .. size, taken + p <= to PROVE Stream[p] = t[p]
  <2>1. taken < taken + p /\ taken + p - taken = p
    <3> HIDE DEF size
    <3> QED
      BY <1>1, <1>4
  <2>2. Stream[p] = sent[i].bytes[taken + p - start[i]]
    BY <1>2, <1>4, <2>1 DEF Shows
  <2> QED
    BY <2>1, <2>2
<1>5. PICK m \in 1 .. Len(t) : LineIn(t, m)
  <2>1. PICK r \in Requests : Laid(i, r, start)
    BY <1>2 DEF Placed
  <2>2. t = r.bytes
    BY <2>1 DEF Laid
  <2> QED
    BY <1>3, <2>2, RequestsAssumption
<1>6. t[m] = LF /\ (\A p \in 1 .. m - 1 : t[p] # LF) /\ m \in Nat \ {0} /\ m <= Len(t)
  BY <1>3, <1>5 DEF LineIn
<1>15. i = Len(sent) => to = all
  OBVIOUS
<1>16. 1 .. size = 1 .. Len(Stream)
  OBVIOUS
<1> HIDE DEF t, to, all, size
<1>7. taken + n <= to
  <2>1. SUFFICES ASSUME to < taken + n PROVE FALSE
    BY <1>1, <1>3
  <2>2. to < all
    BY <1>1, <1>3, <2>1
  <2>4. to = taken + Len(t)
    BY <1>3, <1>15, <2>2
  <2>3. m < n /\ taken + m <= to /\ m \in Nat \ {0}
    <3> DEFINE l == Len(t)
    <3>1. /\ taken \in Nat /\ n \in Nat /\ m \in Nat \ {0} /\ l \in Nat
          /\ m <= l /\ to = taken + l /\ to < taken + n
      BY <1>1, <1>3, <1>6, <2>1, <2>4
    <3> HIDE DEF l
    <3> QED
      BY <3>1
  <2>5. m \in 1 .. n - 1 /\ m \in 1 .. size /\ taken + m <= to
    BY <1>1, <2>3
  <2>6. Stream[m] = LF
    BY <1>4, <1>6, <2>5
  <2> QED
    BY <2>5, <2>6
<1>8. \A p \in 1 .. n : p \in 1 .. size /\ taken + p <= to
  <2>1. SUFFICES ASSUME NEW p \in 1 .. n PROVE p \in 1 .. size /\ taken + p <= to
    OBVIOUS
  <2>2. p \in Nat /\ p <= n /\ p \in 1 .. size
    BY <1>1
  <2>3. to \in Nat
    BY <1>3
  <2> QED
    BY <1>1, <1>7, <2>2, <2>3
<1>9. \A p \in 1 .. n : Stream[p] = t[p]
  BY <1>4, <1>8
<1>10. n \in 1 .. n /\ \A p \in 1 .. n - 1 : p \in 1 .. n
  BY <1>1
<1>11. t[n] = LF /\ \A p \in 1 .. n - 1 : t[p] # LF
  BY <1>9, <1>10
<1>12. n \in 1 .. Len(t)
  BY <1>1, <1>3, <1>7
<1>13. LineIn(t, n)
  BY <1>3, <1>11, <1>12 DEF LineIn
<1>14. SubSeq(Stream, 1, n) = SubSeq(t, 1, n)
  <2> DEFINE s == Stream
  <2>1. s \in Seq(STRING) /\ \A p \in 1 .. n : s[p] = t[p + 0]
    BY <1>9
  <2>2. n <= Len(s) /\ n + 0 <= Len(t) /\ 1 <= n + 1
    BY <1>1, <1>12 DEF size
  <2> HIDE DEF s
  <2>3. SubSeq(s, 1, n) = SubSeq(t, 1 + 0, n + 0)
    BY <1>1, <1>3, <2>1, <2>2, SameCut
  <2> QED
    BY <1>1, <2>3 DEF s
<1> QED
  BY <1>2, <1>7, <1>13, <1>14 DEF t, to

-----------------------------------------------------------------------------
(* Requests that are done.                                                  *)

\* Request i is run, and answered, if it is to be.
Ran(i) ==
  \/ sent[i].run = {} /\ executed' = executed
  \/ \E e \in sent[i].run : executed' = Append(executed, e)
Replied(i) ==
  \/ sent[i].answers = {} /\ (delivered \o out)' = delivered \o out
  \/ \E e \in sent[i].answers : (delivered \o out)' = Append(delivered \o out, e)

LEMMA NextTurn ==
  ASSUME sent \in Seq(Request), sent' = sent, NEW i \in 1 .. Len(sent),
         Counted(i), Ran(i), Replied(i)
  PROVE  Counted(i + 1)'
<1>1. Len(sent) \in Nat /\ DOMAIN sent = 1 .. Len(sent)
  OBVIOUS
<1>2. /\ Runs' = Runs /\ DOMAIN Runs = 1 .. Len(sent) /\ Runs[i] = sent[i].run
      /\ Answers' = Answers /\ DOMAIN Answers = 1 .. Len(sent) /\ Answers[i] = sent[i].answers
  BY <1>1 DEF Runs, Answers
<1> DEFINE run     == Runs
           answers == Answers
           w       == delivered \o out
           next    == (delivered \o out)'
<1>3. /\ run' = run /\ DOMAIN run = 1 .. Len(sent) /\ run[i] = sent[i].run
      /\ answers' = answers /\ DOMAIN answers = 1 .. Len(sent) /\ answers[i] = sent[i].answers
  BY <1>2
<1>4. Counts(executed, run, i) /\ Counts(w, answers, i)
  BY DEF Counted
<1>5. \/ answers[i] = {} /\ next = w
      \/ \E e \in answers[i] : next = Append(w, e)
  BY <1>3 DEF Replied
<1> HIDE DEF run, answers, w, next
<1>6. Counts(executed', run, i + 1)
  <2>1. CASE sent[i].run = {} /\ executed' = executed
    BY <1>1, <1>3, <1>4, <2>1, NoMore
  <2>2. CASE \E e \in sent[i].run : executed' = Append(executed, e)
    BY <1>1, <1>3, <1>4, <2>2, OneMore
  <2> QED
    BY <2>1, <2>2 DEF Ran
<1>7. Counts(next, answers, i + 1)
  <2>1. CASE answers[i] = {} /\ next = w
    BY <1>1, <1>3, <1>4, <2>1, NoMore
  <2>2. CASE \E e \in answers[i] : next = Append(w, e)
    <3>1. PICK e \in answers[i] : next = Append(w, e)
      BY <2>2
    <3>2. Counts(Append(w, e), answers, i + 1)
      BY <1>1, <1>3, <1>4, OneMore
    <3> QED
      BY <3>1, <3>2
  <2> QED
    BY <1>5, <2>1, <2>2
<1>8. Counts(executed', Runs', i + 1) /\ Counts((delivered \o out)', Answers', i + 1)
  BY <1>2, <1>6, <1>7 DEF run, answers, next
<1> QED
  BY <1>8 DEF Counted, Counts, InOrder

LEMMA SameTurn ==
  ASSUME NEW i, Counted(i), sent' = sent, executed' = executed,
         (delivered \o out)' = delivered \o out
  PROVE  Counted(i)'
<1>1. Runs' = Runs /\ Answers' = Answers
  BY DEF Runs, Answers
<1> QED
  BY <1>1 DEF Counted, Counts, InOrder

\* The session is at request j after it has taken m units.
LEMMA Onward ==
  ASSUME NEW i, NEW start, NEW taken, Here(i, start, taken),
         sent \in Seq(Request), Stream \in Seq(STRING), UNCHANGED <<sent, peer>>,
         NEW m \in 0 .. Len(Stream), Stream' = SubSeq(Stream, m + 1, Len(Stream)),
         NEW j \in 1 .. Len(sent) + 1, Counted(j)', pc' # "closed",
         Within(j, start, taken + m)'
  PROVE  Aligned'
<1>1. Placed(start)' /\ Shows(start, taken + m)'
  BY Advance DEF Here
<1>2. taken + m \in Nat
  BY DEF Here
<1>3. Here(j, start, taken + m)'
  BY <1>1, <1>2 DEF Here
<1> QED
  BY <1>3 DEF Aligned

\* The session begins request i + 1.
LEMMA Begins ==
  ASSUME NEW i \in 1 .. Len(sent), NEW start, NEW taken, Here(i, start, taken),
         sent \in Seq(Request), Stream \in Seq(STRING), UNCHANGED <<sent, peer>>,
         NEW m \in 0 .. Len(Stream), Stream' = SubSeq(Stream, m + 1, Len(Stream)),
         Ran(i), Replied(i), pc' = "line", taken + m = start[i + 1]
  PROVE  Aligned'
<1>1. Counted(i + 1)'
  BY NextTurn DEF Here
<1>2. i + 1 \in 1 .. Len(sent) + 1
  OBVIOUS
<1>3. Within(i + 1, start, taken + m)'
  BY DEF Within, InLine
<1> QED
  BY <1>1, <1>2, <1>3, Onward

\* The session is over.
LEMMA IsOver ==
  ASSUME sent \in Seq(Request), NEW i \in 1 .. Len(sent) + 1, Counted(i),
         sent' = sent, Framed!Over
  PROVE  Aligned'
<1>1. Counted(i)'
  BY SameTurn DEF Framed!Over
<1> QED
  BY <1>1 DEF Aligned, Framed!Over

\* Run, of the command of request i.
LEMMA RunOfRequest ==
  ASSUME NEW i, NEW cmd, NEW data, Framed!Run(cmd, data),
         sent[i].run = {[cmd |-> cmd, data |-> data]}, sent[i].answers = Response(cmd)
  PROVE  Ran(i) /\ Replied(i)
BY DEF Framed!Run, Framed!Answer, Ran, Replied

LEMMA AnswerToRequest ==
  ASSUME NEW i, NEW e \in sent[i].answers, Framed!Answer(e),
         sent[i].run = {}, executed' = executed
  PROVE  Ran(i) /\ Replied(i)
BY DEF Framed!Answer, Ran, Replied

-----------------------------------------------------------------------------
(* Lines.                                                                   *)

LEMMA TurnOfLine ==
  ASSUME NEW i, NEW start, NEW taken, Here(i, start, taken), pc = "line",
         sent \in Seq(Request), Stream \in Seq(STRING),
         NEW n \in 1 .. Len(Stream), Framed!EndsAt(n)
  PROVE  /\ i \in 1 .. Len(sent) /\ LineIn(sent[i].bytes, n)
         /\ Framed!HeaderAt(n) = HeaderOfLine(SubSeq(sent[i].bytes, 1, n))
         /\ taken = start[i] /\ n \in Nat \ {0} /\ n \in 0 .. Len(Stream)
         /\ start[i] \in Nat /\ start[i + 1] \in Nat /\ start[i] + n <= start[i + 1]
         /\ \E r \in Requests : Laid(i, r, start) /\ Asks(r, n, Framed!HeaderAt(n))
<1>1. taken = start[i] /\ Placed(start) /\ Shows(start, taken) /\ i \in 1 .. Len(sent) + 1
  BY DEF Here, Within, InLine
<1>2. Stream[n] = LF /\ \A p \in 1 .. n - 1 : Stream[p] # LF
  BY DEF Framed!EndsAt, Framed!NoLineIn, Stream
<1>3. /\ i \in 1 .. Len(sent) /\ LineIn(sent[i].bytes, n)
      /\ SubSeq(Stream, 1, n) = SubSeq(sent[i].bytes, 1, n)
      /\ start[i] + n <= start[i + 1]
  BY <1>1, <1>2, FirstLine
<1>4. Framed!HeaderAt(n) = HeaderOfLine(SubSeq(sent[i].bytes, 1, n))
  BY <1>3 DEF Framed!HeaderAt, Stream
<1>5. PICK r \in Requests : Laid(i, r, start)
  BY <1>1, <1>3 DEF Placed
<1>6. sent[i].bytes = r.bytes
  BY <1>5 DEF Laid
<1>7. Asks(r, n, Framed!HeaderAt(n))
  BY <1>3, <1>4, <1>6, RequestIs
<1>8. start[i] \in Nat /\ start[i + 1] \in Nat
  BY <1>1, <1>3, PlacedIs
<1> QED
  BY <1>1, <1>3, <1>4, <1>5, <1>7, <1>8

\* A request that is nothing but its line.
LEMMA JustALine ==
  ASSUME NEW i, NEW start, NEW n \in Nat, NEW r \in Requests, Laid(i, r, start),
         start[i] \in Nat, start[i + 1] \in Nat, start[i] + n <= start[i + 1],
         Len(r.bytes) = n
  PROVE  sent[i] = r /\ start[i + 1] = start[i] + n
BY DEF Laid

LEMMA ImmediateInOrder ==
  ASSUME NEW i, NEW start, NEW taken, Here(i, start, taken), pc = "line",
         sent \in Seq(Request), Stream \in Seq(STRING), UNCHANGED <<sent, peer>>,
         NEW n \in 1 .. Len(Stream), Framed!EndsAt(n), Framed!Immediate(n)
  PROVE  Aligned'
<1> DEFINE h == Framed!HeaderAt(n)
<1>1. /\ h.kind = "immediate" /\ Framed!Run(h.cmd, <<>>) /\ pc' = "line"
      /\ Stream' = SubSeq(Stream, n + 1, Len(Stream))
  BY DEF Framed!Immediate, Framed!After, Stream
<1>2. PICK r \in Requests : Laid(i, r, start) /\ Asks(r, n, h)
  BY TurnOfLine
<1>3. Len(r.bytes) = n /\ r.run = {[cmd |-> h.cmd, data |-> <<>>]} /\ r.answers = Response(h.cmd)
  BY <1>1, <1>2 DEF Asks
<1>7. /\ i \in 1 .. Len(sent) /\ n \in Nat /\ n \in 0 .. Len(Stream) /\ taken = start[i]
      /\ start[i] \in Nat /\ start[i + 1] \in Nat /\ start[i] + n <= start[i + 1]
  BY TurnOfLine
<1>4. sent[i] = r /\ start[i + 1] = start[i] + n
  BY <1>2, <1>3, <1>7, JustALine
<1> HIDE DEF h
<1>5. Ran(i) /\ Replied(i)
  BY <1>1, <1>3, <1>4, RunOfRequest
<1>6. i \in 1 .. Len(sent) /\ n \in 0 .. Len(Stream) /\ taken + n = start[i + 1]
  BY <1>4, <1>7
<1> QED
  BY <1>1, <1>5, <1>6, Begins

LEMMA StoreInOrder ==
  ASSUME NEW i, NEW start, NEW taken, Here(i, start, taken), pc = "line",
         sent \in Seq(Request), Stream \in Seq(STRING), UNCHANGED <<sent, peer>>,
         NEW n \in 1 .. Len(Stream), Framed!EndsAt(n), Framed!Store(n)
  PROVE  Aligned'
<1> DEFINE h == Framed!HeaderAt(n)
<1>1. /\ h.kind = "store" /\ pc' = "payload" /\ pending' = h
      /\ executed' = executed /\ (delivered \o out)' = delivered \o out
      /\ Stream' = SubSeq(Stream, n + 1, Len(Stream))
  BY DEF Framed!Store, Framed!After, Stream
<1>2. /\ i \in 1 .. Len(sent) /\ n \in Nat /\ n \in 0 .. Len(Stream) /\ taken = start[i]
      /\ LineIn(sent[i].bytes, n) /\ h = HeaderOfLine(SubSeq(sent[i].bytes, 1, n))
  BY TurnOfLine
<1> HIDE DEF h
<1>3. Announced(i, n)'
  BY <1>1, <1>2 DEF Announced
<1>4. Within(i, start, taken + n)'
  BY <1>1, <1>2, <1>3 DEF Within, InPayload
<1>5. Counted(i)'
  BY <1>1, SameTurn DEF Here
<1>6. i \in 1 .. Len(sent) + 1
  BY <1>2
<1> QED
  BY <1>1, <1>2, <1>4, <1>5, <1>6, Onward

LEMMA RefuseInOrder ==
  ASSUME NEW i, NEW start, NEW taken, Here(i, start, taken), pc = "line",
         sent \in Seq(Request), Stream \in Seq(STRING), UNCHANGED <<sent, peer>>,
         NEW n \in 1 .. Len(Stream), Framed!EndsAt(n), Framed!Refuse(n)
  PROVE  Aligned'
<1> DEFINE h == Framed!HeaderAt(n)
<1>1. /\ h.kind = "error" /\ h.len = 0 /\ Framed!Answer(h.error) /\ pc' = "line"
      /\ executed' = executed /\ Stream' = SubSeq(Stream, n + 1, Len(Stream))
  BY DEF Framed!Refuse, Framed!After, Stream
<1>2. PICK r \in Requests : Laid(i, r, start) /\ Asks(r, n, h)
  BY TurnOfLine
<1>3. /\ i \in 1 .. Len(sent) /\ n \in Nat /\ n \in 0 .. Len(Stream) /\ taken = start[i]
      /\ start[i] \in Nat /\ start[i + 1] \in Nat /\ start[i] + n <= start[i + 1]
  BY TurnOfLine
<1> HIDE DEF h
<1>4. Len(r.bytes) = n /\ r.run = {} /\ h.error \in r.answers
  BY <1>1, <1>2, <1>3 DEF Asks
<1>5. sent[i] = r /\ start[i + 1] = start[i] + n
  BY <1>2, <1>3, <1>4, JustALine
<1>6. Ran(i) /\ Replied(i)
  BY <1>1, <1>4, <1>5, AnswerToRequest
<1>7. taken + n = start[i + 1]
  BY <1>3, <1>5
<1> QED
  BY <1>1, <1>3, <1>6, <1>7, Begins

LEMMA RefuseAndDiscardInOrder ==
  ASSUME NEW i, NEW start, NEW taken, Here(i, start, taken), pc = "line",
         sent \in Seq(Request), Stream \in Seq(STRING), UNCHANGED <<sent, peer>>,
         NEW n \in 1 .. Len(Stream), Framed!EndsAt(n), Framed!RefuseAndDiscard(n)
  PROVE  Aligned'
<1> DEFINE h    == Framed!HeaderAt(n)
           size == Len(Stream)
<1>1. /\ h.kind = "error" /\ h.len > 0 /\ pc' = "discard" /\ pending' = h
      /\ executed' = executed /\ (delivered \o out)' = delivered \o out
  BY DEF Framed!RefuseAndDiscard, Stream
<1>2. PICK k \in 0 .. size - n :
        /\ Stream' = SubSeq(Stream, n + k + 1, size) /\ need' = h.len - k
  BY <1>1 DEF Framed!RefuseAndDiscard, Framed!After, Stream
<1>3. /\ i \in 1 .. Len(sent) /\ n \in Nat /\ n <= size /\ taken = start[i]
      /\ LineIn(sent[i].bytes, n) /\ h = HeaderOfLine(SubSeq(sent[i].bytes, 1, n))
      /\ start[i] \in Nat /\ size \in Nat
  BY TurnOfLine
<1>4. h.len \in Nat
  BY <1>3, HeaderLength
<1>9. 0 .. size = 0 .. Len(Stream)
  OBVIOUS
<1> HIDE DEF h, size
<1>5. n + k \in 0 .. size /\ (taken + (n + k)) + need' = start[i] + n + h.len
  <2> DEFINE from == start[i]
             l    == h.len
             rest == need'
  <2>1. from \in Nat /\ l \in Nat /\ taken = from /\ rest = l - k /\ k \in Nat /\ k <= size - n
    BY <1>2, <1>3, <1>4
  <2> HIDE DEF from, l, rest
  <2>2. n + k \in 0 .. size /\ (taken + (n + k)) + rest = from + n + l
    BY <1>3, <2>1
  <2> QED
    BY <2>2 DEF from, l, rest
<1>6. Announced(i, n)'
  BY <1>1, <1>3 DEF Announced
<1>7. Within(i, start, taken + (n + k))'
  <2>1. InDiscard(i, start, taken + (n + k))'
    BY <1>1, <1>3, <1>5, <1>6 DEF InDiscard
  <2> QED
    BY <1>1, <2>1 DEF Within
<1>8. Counted(i)' /\ i \in 1 .. Len(sent) + 1
  BY <1>1, <1>3, SameTurn DEF Here
<1>10. n + k \in 0 .. Len(Stream) /\ Stream' = SubSeq(Stream, (n + k) + 1, Len(Stream))
  BY <1>2, <1>5, <1>9 DEF size
<1> QED
  BY <1>1, <1>7, <1>8, <1>10, Onward

LEMMA LineInOrder ==
  ASSUME NEW i, NEW start, NEW taken, Here(i, start, taken), pc = "line",
         sent \in Seq(Request), Stream \in Seq(STRING), UNCHANGED <<sent, peer>>,
         Framed!TakeLine
  PROVE  Aligned'
<1>1. PICK n \in 1 .. Len(Stream) :
        /\ Framed!EndsAt(n)
        /\ \/ Framed!Immediate(n) \/ Framed!Store(n) \/ Framed!Refuse(n)
           \/ Framed!RefuseAndDiscard(n) \/ Framed!Quit(n)
  BY DEF Framed!TakeLine, Stream
<1>2. CASE Framed!Quit(n)
  BY <1>2, IsOver DEF Framed!Quit, Here
<1> QED
  BY <1>1, <1>2, ImmediateInOrder, StoreInOrder, RefuseInOrder, RefuseAndDiscardInOrder

-----------------------------------------------------------------------------
(* Payloads.                                                                *)

LEMMA PayloadInOrder ==
  ASSUME NEW i, NEW start, NEW taken, Here(i, start, taken), pc = "payload",
         sent \in Seq(Request), Stream \in Seq(STRING), UNCHANGED <<sent, peer>>,
         pending.len \in Nat, Framed!TakePayload
  PROVE  Aligned'
<1> DEFINE l    == pending.len
           size == Len(Stream)
           from == start[i]
           to   == start[i + 1]
           t    == sent[i].bytes
<1>1. /\ l + 2 <= size /\ Stream' = SubSeq(Stream, l + 2 + 1, size) /\ pc' = "line"
      /\ \/ /\ SubSeq(Stream, l + 1, l + 2) = <<CR, LF>>
            /\ Framed!Run(pending.cmd, SubSeq(Stream, 1, l))
         \/ /\ SubSeq(Stream, l + 1, l + 2) # <<CR, LF>>
            /\ Framed!Answer("BAD_CHUNK") /\ executed' = executed
  BY DEF Framed!TakePayload, Framed!After, Framed!Back, Stream
<1>2. PICK n \in Nat : Announced(i, n) /\ pending.kind = "store" /\ taken = from + n
  BY DEF Here, Within, InPayload
<1>3. /\ i \in 1 .. Len(sent) /\ LineIn(t, n) /\ pending = HeaderOfLine(SubSeq(t, 1, n))
      /\ Placed(start) /\ Shows(start, taken)
  BY <1>2 DEF Announced, Here
<1>4. PICK r \in Requests : Laid(i, r, start)
  BY <1>3 DEF Placed
<1>5. t = r.bytes
  BY <1>4 DEF Laid
<1>6. Asks(r, n, pending)
  BY <1>3, <1>5, RequestIs
<1>7. /\ Len(t) = n + l + 2
      /\ IF SubSeq(t, n + l + 1, n + l + 2) = <<CR, LF>>
           THEN /\ r.run = {[cmd |-> pending.cmd, data |-> SubSeq(t, n + 1, n + l)]}
                /\ r.answers = Response(pending.cmd)
           ELSE r.run = {} /\ r.answers = {"BAD_CHUNK"}
  BY <1>2, <1>5, <1>6 DEF Asks
<1>8. l \in Nat /\ from \in Nat /\ n \in Nat /\ size \in Nat /\ taken \in Nat
  BY <1>3, PlacedIs DEF Here
<1>17. to \in Nat /\ Spans(i, start, from, to)
  BY <1>3, PlacedIs DEF Spans
<1>9. from + Len(t) <= taken + size
  <2> HIDE DEF l, size, from, t
  <2> QED
    BY <1>1, <1>2, <1>7, <1>8
<1>10. sent[i] \in Requests /\ to = from + Len(t)
  BY <1>3, <1>9, Entire
<1>11. sent[i] = r
  <2>1. from + Len(t) < from + Len(r.bytes) => FALSE
    BY <1>5, <1>7, <1>8
  <2> QED
    BY <1>4, <1>10, <1>5, <2>1 DEF Laid
<1> HIDE DEF l, size, from, to, t
<1>12. from <= taken /\ taken + (l + 2) = to /\ taken + l <= to /\ taken + (l + 2) <= to
  BY <1>2, <1>7, <1>8, <1>10
<1>18. /\ i \in 1 .. Len(sent) /\ Len(sent) \in Nat /\ Placed(start) /\ Shows(start, taken)
       /\ taken \in Nat /\ from \in Nat /\ to \in Nat /\ Spans(i, start, from, to)
  BY <1>3, <1>8, <1>17
<1>13. SubSeq(Stream, 1, l) = SubSeq(t, n + 1, n + l)
  <2> DEFINE first == n + 1
             last  == n + l
  <2>1. /\ 1 <= l + 1 /\ l <= Len(Stream) /\ 1 \in Nat \ {0}
        /\ first \in Nat /\ from + first = taken + 1 /\ last \in Nat /\ from + last = taken + l
    BY <1>1, <1>2, <1>8 DEF size
  <2> HIDE DEF first, last
  <2>3. Covers(from, to, taken, 1, l, first, last)
    BY <1>8, <1>12, <1>18, <2>1 DEF Covers
  <2>2. InStream(1, l) = InRequest(i, first, last)
    BY <1>18, <2>3, Piece
  <2> QED
    BY <2>2 DEF first, last, t, InStream, InRequest
<1>14. SubSeq(Stream, l + 1, l + 2) = SubSeq(t, n + l + 1, n + l + 2)
  <2> DEFINE a     == l + 1
             b     == l + 2
             first == n + l + 1
             last  == n + l + 2
  <2>1. /\ a <= b + 1 /\ b <= Len(Stream) /\ a \in Nat \ {0} /\ b \in Nat /\ taken + b <= to
        /\ first \in Nat /\ from + first = taken + a /\ last \in Nat /\ from + last = taken + b
    BY <1>1, <1>2, <1>8, <1>12 DEF size
  <2> HIDE DEF a, b, first, last
  <2>3. Covers(from, to, taken, a, b, first, last)
    BY <1>12, <1>18, <2>1 DEF Covers
  <2>2. InStream(a, b) = InRequest(i, first, last)
    BY <1>18, <2>3, Piece
  <2> QED
    BY <2>2 DEF a, b, first, last, t, InStream, InRequest
<1>15. Ran(i) /\ Replied(i)
  <2>1. CASE SubSeq(Stream, l + 1, l + 2) = <<CR, LF>>
    <3>1. /\ Framed!Run(pending.cmd, SubSeq(t, n + 1, n + l))
          /\ sent[i].run = {[cmd |-> pending.cmd, data |-> SubSeq(t, n + 1, n + l)]}
          /\ sent[i].answers = Response(pending.cmd)
      BY <1>1, <1>7, <1>11, <1>13, <1>14, <2>1
    <3> QED
      BY <3>1, RunOfRequest
  <2>2. CASE SubSeq(Stream, l + 1, l + 2) # <<CR, LF>>
    <3>1. /\ Framed!Answer("BAD_CHUNK") /\ executed' = executed
          /\ sent[i].run = {} /\ "BAD_CHUNK" \in sent[i].answers
      BY <1>1, <1>7, <1>11, <1>14, <2>2
    <3> QED
      BY <3>1, AnswerToRequest
  <2> QED
    BY <2>1, <2>2
<1>16. l + 2 \in 0 .. Len(Stream) /\ Stream' = SubSeq(Stream, (l + 2) + 1, Len(Stream))
  BY <1>1, <1>8 DEF size
<1> QED
  BY <1>1, <1>3, <1>12, <1>15, <1>16, Begins DEF to

-----------------------------------------------------------------------------
(* Discards.                                                                *)

\* A request that is not run is answered if it is whole, or if its client is gone.
LEMMA NotRun ==
  ASSUME NEW i, NEW start, NEW r \in Requests, Laid(i, r, start), r.run = {},
         (sent[i] \in Requests /\ start[i + 1] = start[i] + Len(r.bytes)) \/ peer = "gone",
         start[i] \in Nat
  PROVE  sent[i].run = {} /\ sent[i].answers = r.answers
<1>1. r.bytes \in Seq(STRING)
  BY RequestsAssumption DEF Request
<1>2. Len(r.bytes) \in Nat
  BY <1>1
<1>3. CASE sent[i] = r
  BY <1>3
<1>4. CASE peer # "open" /\ sent[i] = CutOff(r, peer) /\ start[i + 1] < start[i] + Len(r.bytes)
  <2>1. peer = "gone"
    BY <1>2, <1>4
  <2> QED
    BY <1>4, <2>1 DEF CutOff
<1> QED
  BY <1>3, <1>4 DEF Laid

\* What the session is discarding is the rest of request r, after n units.
Discards(i, start, taken, n, r) ==
  /\ Announced(i, n) /\ pending.kind = "error" /\ pending.len > 0
  /\ \/ taken + need = start[i] + n + pending.len
     \/ need = 0 /\ peer = "gone" /\ taken = start[i + 1]
  /\ Laid(i, r, start) /\ Len(r.bytes) = n + pending.len
  /\ r.run = {} /\ pending.error \in r.answers

LEMMA DiscardIs ==
  ASSUME NEW i, NEW start, NEW taken, Here(i, start, taken), pc = "discard"
  PROVE  \E n \in Nat : \E r \in Requests : Discards(i, start, taken, n, r)
<1>1. PICK n \in Nat :
        /\ Announced(i, n) /\ pending.kind = "error" /\ pending.len > 0
        /\ \/ taken + need = start[i] + n + pending.len
           \/ need = 0 /\ peer = "gone" /\ taken = start[i + 1]
  BY DEF Here, Within, InDiscard
<1>2. /\ i \in 1 .. Len(sent) /\ LineIn(sent[i].bytes, n)
      /\ pending = HeaderOfLine(SubSeq(sent[i].bytes, 1, n))
  BY <1>1 DEF Announced
<1>3. PICK r \in Requests : Laid(i, r, start)
  BY <1>2 DEF Here, Placed
<1>4. sent[i].bytes = r.bytes
  BY <1>3 DEF Laid
<1>5. Asks(r, n, pending)
  BY <1>2, <1>4, RequestIs
<1>6. Len(r.bytes) = n + pending.len /\ r.run = {} /\ pending.error \in r.answers
  BY <1>1, <1>5 DEF Asks
<1> QED
  BY <1>1, <1>3, <1>6 DEF Discards

LEMMA DiscardInOrder ==
  ASSUME NEW i, NEW start, NEW taken, Here(i, start, taken), pc = "discard",
         sent \in Seq(Request), Stream \in Seq(STRING), UNCHANGED <<sent, peer>>,
         need \in Nat, pending.len \in Nat, Framed!Discard
  PROVE  Aligned'
<1> DEFINE l    == pending.len
           size == Len(Stream)
           from == start[i]
           to   == start[i + 1]
           all  == start[Len(sent) + 1]
<1>1. /\ pc' = "discard" /\ pending' = pending
      /\ executed' = executed /\ (delivered \o out)' = delivered \o out
  BY DEF Framed!Discard
<1>0. PICK n \in Nat : \E r \in Requests : Discards(i, start, taken, n, r)
  BY DiscardIs
<1>2. \E r \in Requests :
        /\ Announced(i, n) /\ pending.kind = "error" /\ pending.len > 0
        /\ \/ taken + need = start[i] + n + pending.len
           \/ need = 0 /\ peer = "gone" /\ taken = start[i + 1]
        /\ Laid(i, r, start) /\ Len(r.bytes) = n + pending.len
  BY <1>0 DEF Discards
<1>3. /\ i \in 1 .. Len(sent) /\ Len(sent) \in Nat /\ i \in 1 .. Len(sent) + 1
      /\ Placed(start) /\ Shows(start, taken)
  BY <1>2 DEF Announced, Here
<1>4. /\ from \in Nat /\ to \in Nat /\ all \in Nat /\ to <= all /\ size = all - taken
      /\ taken \in Nat /\ size \in Nat
  <2>1. size = all - taken /\ taken \in Nat /\ size \in Nat
    BY <1>3 DEF Shows
  <2>2. from \in Nat /\ to \in Nat /\ all \in Nat /\ to <= all
    BY <1>3, PlacedIs
  <2> QED
    BY <2>1, <2>2
<1>5. to = from + n + l \/ i = Len(sent)
  <2>1. PICK r \in Requests : Laid(i, r, start) /\ Len(r.bytes) = n + l
    BY <1>2
  <2>2. start[i + 1] = start[i] + (n + l) \/ i = Len(sent)
    BY <2>1 DEF Laid
  <2> QED
    BY <1>4, <2>2
<1>6. i = Len(sent) => to = all
  OBVIOUS
<1>7. Announced(i, n)' /\ Counted(i)'
  <2>1. Announced(i, n)'
    BY <1>1, <1>2 DEF Announced
  <2>2. Counted(i)'
    BY <1>1, SameTurn DEF Here
  <2> QED
    BY <2>1, <2>2
<1>8. (taken + need = from + n + l) \/ (need = 0 /\ peer = "gone" /\ taken = to)
  BY <1>2
<1>9. CASE \E k \in 1 .. size : /\ k <= need /\ need' = need - k
                                /\ Stream' = SubSeq(Stream, k + 1, size)
  <2>1. PICK k \in 1 .. size : /\ k <= need /\ need' = need - k
                               /\ Stream' = SubSeq(Stream, k + 1, size)
    BY <1>9
  <2>2. k \in 0 .. Len(Stream)
    OBVIOUS
  <2> HIDE DEF l, size, from, to, all
  <2>3. (taken + k) + need' = from + n + l
    BY <1>4, <1>8, <2>1
  <2>4. InDiscard(i, start, taken + k)'
    BY <1>1, <1>2, <1>7, <2>3 DEF InDiscard, from, l
  <2>5. Within(i, start, taken + k)'
    BY <1>1, <2>4 DEF Within
  <2> QED
    BY <1>1, <1>3, <1>7, <2>1, <2>2, <2>5, Onward DEF size
<1>10. CASE peer = "gone" /\ Stream = <<>> /\ need' = 0 /\ Stream' = Stream
  <2>1. size = 0
    BY <1>10
  <2> HIDE DEF l, size, from, to, all
  <2>2. taken = to
    BY <1>4, <1>5, <1>6, <1>8, <2>1
  <2>3. taken + 0 = start[i + 1]
    BY <1>4, <2>2 DEF to
  <2>4. InDiscard(i, start, taken + 0)'
    BY <1>1, <1>2, <1>7, <1>10, <2>3 DEF InDiscard
  <2>5. Within(i, start, taken + 0)'
    BY <1>1, <2>4 DEF Within
  <2>6. Stream' = SubSeq(Stream, 0 + 1, Len(Stream)) /\ 0 \in 0 .. Len(Stream)
    BY <1>10, SubSeqEmpty, EmptySeq
  <2> QED
    BY <1>1, <1>3, <1>7, <2>5, <2>6, Onward
<1>11. \/ \E k \in 1 .. size : /\ k <= need /\ need' = need - k
                               /\ Stream' = SubSeq(Stream, k + 1, size)
       \/ peer = "gone" /\ Stream = <<>> /\ need' = 0 /\ Stream' = Stream
  BY <1>1 DEF Framed!Discard, Framed!After, Stream
<1> QED
  BY <1>9, <1>10, <1>11

LEMMA DiscardedInOrder ==
  ASSUME NEW i, NEW start, NEW taken, Here(i, start, taken), pc = "discard",
         sent \in Seq(Request), Stream \in Seq(STRING), UNCHANGED <<sent, peer>>,
         need \in Nat, pending.len \in Nat, Framed!Discarded
  PROVE  Aligned'
<1>1. /\ pc' = "line" /\ need = 0 /\ executed' = executed
      /\ Framed!Answer(pending.error) /\ Stream' = Stream
  BY DEF Framed!Discarded, Framed!Back, Stream
<1>0. PICK n \in Nat : \E r \in Requests : Discards(i, start, taken, n, r)
  BY DiscardIs
<1>12. PICK r \in Requests : Discards(i, start, taken, n, r)
  BY <1>0
<1>2. /\ Announced(i, n) /\ pending.kind = "error" /\ pending.len > 0
      /\ \/ taken + need = start[i] + n + pending.len
         \/ need = 0 /\ peer = "gone" /\ taken = start[i + 1]
  BY <1>12 DEF Discards
<1>3. /\ Laid(i, r, start) /\ Len(r.bytes) = n + pending.len
      /\ r.run = {} /\ pending.error \in r.answers
  BY <1>12 DEF Discards
<1>4. /\ i \in 1 .. Len(sent) /\ Len(sent) \in Nat
      /\ Placed(start) /\ Shows(start, taken)
  BY <1>2 DEF Announced, Here
<1>5. taken \in Nat /\ Len(Stream) \in Nat /\ start[i] \in Nat
  BY <1>4, PlacedIs DEF Here
<1>6. sent[i].bytes = r.bytes
  BY <1>3 DEF Laid
<1>7. /\ taken = start[i + 1]
      /\ (sent[i] \in Requests /\ start[i + 1] = start[i] + Len(r.bytes)) \/ peer = "gone"
  <2>1. CASE taken + need = start[i] + n + pending.len
    <3> DEFINE from == start[i]
               size == Len(Stream)
               l    == pending.len
    <3>1. from \in Nat /\ size \in Nat /\ l \in Nat /\ taken + 0 = from + n + l
      BY <1>1, <1>5, <2>1
    <3> HIDE DEF from, size, l
    <3>2. from + (n + l) <= taken + size /\ taken = from + (n + l)
      BY <1>5, <3>1
    <3>3. start[i] + Len(sent[i].bytes) <= taken + Len(Stream)
      BY <1>3, <1>6, <3>2 DEF from, size, l
    <3>4. sent[i] \in Requests /\ start[i + 1] = start[i] + Len(sent[i].bytes)
      BY <1>4, <3>3, Entire
    <3> QED
      BY <1>3, <1>6, <3>2, <3>4 DEF from, l
  <2>2. CASE need = 0 /\ peer = "gone" /\ taken = start[i + 1]
    BY <2>2
  <2> QED
    BY <1>2, <2>1, <2>2
<1>8. sent[i].run = {} /\ pending.error \in sent[i].answers
  BY <1>3, <1>5, <1>7, NotRun
<1>9. Ran(i) /\ Replied(i)
  BY <1>1, <1>8, AnswerToRequest
<1>10. Stream' = SubSeq(Stream, 0 + 1, Len(Stream)) /\ 0 \in 0 .. Len(Stream)
  <2> DEFINE s == Stream
  <2>1. s \in Seq(STRING)
    OBVIOUS
  <2> HIDE DEF s
  <2>2. SubSeq(s, 1, Len(s)) = s
    BY <2>1, SubSeqFull
  <2> QED
    BY <1>1, <1>5, <2>2 DEF s
<1>11. taken + 0 = start[i + 1]
  BY <1>5, <1>7
<1> QED
  BY <1>1, <1>4, <1>9, <1>10, <1>11, Begins

-----------------------------------------------------------------------------
(* Lines that are too long.                                                 *)

LEMMA TooLongInOrder ==
  ASSUME NEW i, NEW start, NEW taken, Here(i, start, taken), pc = "line",
         sent \in Seq(Request), Stream \in Seq(STRING), UNCHANGED <<sent, peer>>,
         Framed!TooLong
  PROVE  Aligned'
<1> DEFINE size == Len(Stream)
           from == start[i]
           to   == start[i + 1]
           all  == start[Len(sent) + 1]
           t    == sent[i].bytes
<1>1. /\ pc' = "skipline" /\ Stream' = Stream /\ MaxLine <= size
      /\ executed' = executed /\ (delivered \o out)' = delivered \o out
      /\ \A p \in 1 .. MaxLine : Stream[p] # LF
  BY DEF Framed!TooLong, Framed!NoLineIn, Stream
<1>2. /\ Placed(start) /\ Shows(start, taken) /\ taken = from /\ i \in 1 .. Len(sent) + 1
      /\ Len(sent) \in Nat /\ MaxLine \in Nat \ {0} /\ size \in Nat
  BY SessionAssumption DEF Here, Within, InLine
<1>3. size = all - taken /\ taken \in Nat
  BY <1>2 DEF Shows
<1>4. i \in 1 .. Len(sent)
  <2>1. i = Len(sent) + 1 => size = 0
    BY <1>2, <1>3
  <2> HIDE DEF size
  <2>2. i # Len(sent) + 1
    BY <1>1, <1>2, <2>1
  <2> QED
    BY <1>2, <2>2
<1>5. PICK r \in Requests : Laid(i, r, start)
  BY <1>2, <1>4 DEF Placed
<1>6. PICK n \in Nat : LineIn(t, n)
  <2>1. t = r.bytes /\ r.bytes \in Seq(STRING)
    BY <1>5, RequestsAssumption DEF Laid, Request
  <2>2. PICK n \in DOMAIN r.bytes : LineIn(r.bytes, n)
    BY RequestsAssumption
  <2> QED
    BY <2>1, <2>2
<1>7. /\ from \in Nat /\ to \in Nat /\ all \in Nat /\ to <= all /\ Len(t) \in Nat
      /\ to = from + Len(t) \/ i = Len(sent)
  BY <1>2, <1>4, PlacedIs
<1>8. (i = Len(sent) => to = all) /\ n <= Len(t) /\ n # 0 /\ t[n] = LF
  <2>1. t \in Seq(STRING)
    BY <1>2, <1>4, PlacedIs
  <2> QED
    BY <1>6, <2>1 DEF LineIn
<1>9. n > MaxLine
  <2> HIDE DEF size, from, to, all, t
  <2>1. SUFFICES ASSUME n <= MaxLine PROVE FALSE
    BY <1>2
  <2>2. taken + n <= to /\ n <= size
    BY <1>1, <1>2, <1>3, <1>7, <1>8, <2>1
  <2>3. n \in 1 .. size /\ taken < taken + n /\ taken + n - taken = n /\ n \in 1 .. MaxLine
    BY <1>2, <1>3, <1>8, <2>1, <2>2
  <2>4. Stream[n] = sent[i].bytes[taken + n - start[i]]
    BY <1>2, <1>4, <2>2, <2>3 DEF Shows, size, from, to
  <2>5. Stream[n] = t[n]
    BY <1>2, <2>3, <2>4 DEF from, t
  <2> QED
    BY <1>1, <1>8, <2>3, <2>5
<1>10. InLongLine(i, start, taken + 0)'
  <2> HIDE DEF size, to, all
  <2>1. start[i] <= taken + 0 /\ taken + 0 < start[i] + n
    BY <1>2, <1>3, <1>8
  <2> QED
    BY <1>4, <1>6, <1>9, <2>1 DEF InLongLine
<1>11. Within(i, start, taken + 0)'
  BY <1>1, <1>10 DEF Within
<1>12. Stream' = SubSeq(Stream, 0 + 1, Len(Stream)) /\ 0 \in 0 .. Len(Stream)
  <2> DEFINE s == Stream
  <2>1. s \in Seq(STRING)
    OBVIOUS
  <2> HIDE DEF s
  <2>2. SubSeq(s, 1, Len(s)) = s
    BY <2>1, SubSeqFull
  <2> QED
    BY <1>1, <1>2, <2>2 DEF s
<1>13. Counted(i)'
  BY <1>1, SameTurn DEF Here
<1> QED
  BY <1>1, <1>2, <1>11, <1>12, <1>13, Onward

\* What the session is skipping is the line of a request that is nothing else.
LEMMA LongLineIs ==
  ASSUME NEW i, NEW start, NEW taken, Here(i, start, taken), pc = "skipline"
  PROVE  \E r \in Requests :
           /\ i \in 1 .. Len(sent) /\ Laid(i, r, start) /\ LineIn(r.bytes, Len(r.bytes))
           /\ Len(r.bytes) > MaxLine
           /\ r.run = {} /\ "TOO_LONG" \in r.answers
           /\ start[i] <= taken /\ taken < start[i] + Len(r.bytes)
<1>1. i \in 1 .. Len(sent)
  BY DEF Here, Within, InLongLine
<1>2. PICK n \in Nat :
        LineIn(sent[i].bytes, n) /\ n > MaxLine /\ start[i] <= taken /\ taken < start[i] + n
  BY DEF Here, Within, InLongLine
<1>3. PICK r \in Requests : Laid(i, r, start)
  BY <1>1 DEF Here, Placed
<1>4. sent[i].bytes = r.bytes
  BY <1>3 DEF Laid
<1>5. Asks(r, n, HeaderOfLine(SubSeq(r.bytes, 1, n)))
  BY <1>2, <1>4, RequestIs
<1>6. ~ (n <= MaxLine)
  BY <1>2, SessionAssumption
<1>7. Len(r.bytes) = n /\ r.run = {} /\ "TOO_LONG" \in r.answers
  BY <1>5, <1>6 DEF Asks
<1> QED
  BY <1>1, <1>2, <1>3, <1>4, <1>7

\* The units of that line that have arrived: it ends with unit `end` of all.
EndsLine(end, taken) ==
  \A p \in 1 .. Len(Stream) : taken + p <= end => (Stream[p] = LF <=> taken + p = end)

LEMMA UnitsOfLongLine ==
  ASSUME NEW i, NEW start, NEW taken, Here(i, start, taken), NEW r \in Requests,
         i \in 1 .. Len(sent), Len(sent) \in Nat, Stream \in Seq(STRING),
         Laid(i, r, start), LineIn(r.bytes, Len(r.bytes)), start[i] <= taken
  PROVE  EndsLine(start[i] + Len(r.bytes), taken)
<1> SUFFICES ASSUME NEW p \in 1 .. Len(Stream), taken + p <= start[i] + Len(r.bytes)
             PROVE  Stream[p] = LF <=> taken + p = start[i] + Len(r.bytes)
  BY DEF EndsLine
<1> DEFINE size == Len(Stream)
           from == start[i]
           to   == start[i + 1]
           all  == start[Len(sent) + 1]
           last == Len(r.bytes)
<1>1. Placed(start) /\ Shows(start, taken) /\ taken \in Nat
  BY DEF Here
<1>2. size = all - taken /\ size \in Nat /\ p \in Nat /\ 1 <= p /\ p <= size
  BY <1>1 DEF Shows
<1>3. from \in Nat /\ to \in Nat /\ all \in Nat /\ to <= all
  BY <1>1, PlacedIs
<1>4. r.bytes \in Seq(STRING) /\ last \in Nat
  BY RequestsAssumption DEF Request
<1>5. to = from + last \/ i = Len(sent)
  BY DEF Laid
<1>6. i = Len(sent) => to = all
  OBVIOUS
<1>7. sent[i].bytes = r.bytes
  BY DEF Laid
<1>8. r.bytes[last] = LF /\ \A q \in 1 .. last - 1 : r.bytes[q] # LF
  BY DEF LineIn
<1>9. from <= taken /\ taken + p <= from + last
  OBVIOUS
<1> HIDE DEF size, from, to, all, last
<1>10. from < taken + p /\ taken + p <= to
  BY <1>1, <1>2, <1>3, <1>4, <1>5, <1>6, <1>9
<1>11. Stream[p] = sent[i].bytes[taken + p - from]
  BY <1>1, <1>10 DEF Shows, from, to
<1> DEFINE q == taken + p - from
<1>12. q \in 1 .. last /\ (taken + p = from + last <=> q = last)
  BY <1>1, <1>2, <1>3, <1>4, <1>9, <1>10
<1>13. Stream[p] = r.bytes[q]
  BY <1>7, <1>11
<1> HIDE DEF q
<1>14. r.bytes[q] = LF <=> q = last
  <2>1. q # last => q \in 1 .. last - 1
    BY <1>4, <1>12
  <2> QED
    BY <1>8, <2>1
<1>15. Stream[p] = LF <=> taken + p = from + last
  BY <1>12, <1>13, <1>14
<1> QED
  BY <1>15 DEF from, last

LEMMA SkipInOrder ==
  ASSUME NEW i, NEW start, NEW taken, Here(i, start, taken), pc = "skipline",
         sent \in Seq(Request), Stream \in Seq(STRING), UNCHANGED <<sent, peer>>,
         Framed!Skip
  PROVE  Aligned'
<1> DEFINE size == Len(Stream)
           from == start[i]
<1>1. /\ pc' = "skipline" /\ executed' = executed /\ (delivered \o out)' = delivered \o out
  BY DEF Framed!Skip
<1>2. PICK n \in 1 .. size :
        (\A p \in 1 .. n : Stream[p] # LF) /\ Stream' = SubSeq(Stream, n + 1, size)
  BY DEF Framed!Skip, Framed!NoLineIn, Framed!After, Stream
<1>3. PICK r \in Requests :
        /\ i \in 1 .. Len(sent) /\ Laid(i, r, start) /\ LineIn(r.bytes, Len(r.bytes))
        /\ Len(r.bytes) > MaxLine /\ start[i] <= taken /\ taken < start[i] + Len(r.bytes)
  BY LongLineIs
<1>4. /\ from \in Nat /\ taken \in Nat /\ size \in Nat /\ Len(r.bytes) \in Nat
      /\ Len(sent) \in Nat /\ i \in 1 .. Len(sent) + 1
  <2>1. r.bytes \in Seq(STRING)
    BY RequestsAssumption DEF Request
  <2>2. from \in Nat
    BY <1>3, PlacedIs DEF Here
  <2> QED
    BY <1>3, <2>1, <2>2 DEF Here
<1>5. \A p \in 1 .. size :
        taken + p <= from + Len(r.bytes) =>
          (Stream[p] = LF <=> taken + p = from + Len(r.bytes))
  <2>1. Here(i, start, taken)
    OBVIOUS
  <2>2. EndsLine(from + Len(r.bytes), taken)
    BY <1>3, <1>4, <2>1, UnitsOfLongLine
  <2> QED
    BY <2>2 DEF EndsLine
<1>6. taken + n < from + Len(r.bytes)
  <2> DEFINE l == Len(r.bytes)
             p == (from + l) - taken
  <2>1. SUFFICES ASSUME ~ (taken + n < from + l) PROVE FALSE
    OBVIOUS
  <2>2. l \in Nat /\ taken < from + l
    BY <1>3, <1>4
  <2> HIDE DEF size, from, l
  <2>3. p \in 1 .. n /\ p \in 1 .. size /\ taken + p = from + l
    BY <1>4, <2>1, <2>2
  <2> HIDE DEF p
  <2>4. Stream[p] = LF
    <3>1. taken + p <= from + l
      BY <1>4, <2>2, <2>3
    <3> QED
      BY <1>5, <2>3, <3>1 DEF l
  <2> QED
    BY <1>2, <2>3, <2>4
<1>7. InLongLine(i, start, taken + n)'
  <2>1. sent[i].bytes = r.bytes
    BY <1>3 DEF Laid
  <2>2. start[i] <= taken + n
    <3> HIDE DEF size
    <3>1. from <= taken
      BY <1>3
    <3> HIDE DEF from
    <3>2. from <= taken + n
      BY <1>4, <3>1
    <3> QED
      BY <3>2 DEF from
  <2> QED
    BY <1>3, <1>4, <1>6, <2>1, <2>2 DEF InLongLine
<1>8. Within(i, start, taken + n)'
  BY <1>1, <1>7 DEF Within
<1>9. Counted(i)' /\ n \in 0 .. Len(Stream)
  BY <1>1, SameTurn DEF Here
<1> QED
  BY <1>1, <1>2, <1>4, <1>8, <1>9, Onward

LEMMA SkippedInOrder ==
  ASSUME NEW i, NEW start, NEW taken, Here(i, start, taken), pc = "skipline",
         sent \in Seq(Request), Stream \in Seq(STRING), UNCHANGED <<sent, peer>>,
         Framed!Skipped
  PROVE  Aligned'
<1> DEFINE size == Len(Stream)
           from == start[i]
           to   == start[i + 1]
           all  == start[Len(sent) + 1]
<1>1. pc' = "line" /\ executed' = executed /\ Framed!Answer("TOO_LONG")
  BY DEF Framed!Skipped, Framed!Back
<1>2. PICK r \in Requests :
        /\ i \in 1 .. Len(sent) /\ Laid(i, r, start) /\ LineIn(r.bytes, Len(r.bytes))
        /\ r.run = {} /\ "TOO_LONG" \in r.answers
        /\ start[i] <= taken /\ taken < start[i] + Len(r.bytes)
  BY LongLineIs
<1> DEFINE l == Len(r.bytes)
<1>3. /\ from \in Nat /\ taken \in Nat /\ size \in Nat /\ l \in Nat /\ to \in Nat /\ all \in Nat
      /\ to <= all /\ size = all - taken /\ taken < from + l
      /\ Len(sent) \in Nat /\ i \in 1 .. Len(sent) + 1 /\ Placed(start) /\ Shows(start, taken)
  <2>1. r.bytes \in Seq(STRING) /\ Placed(start) /\ Shows(start, taken)
    BY RequestsAssumption DEF Request, Here
  <2>4. i \in 1 .. Len(sent) /\ Len(sent) \in Nat /\ l \in Nat /\ size \in Nat /\ taken < from + l
    BY <1>2, <2>1
  <2>2. from \in Nat /\ to \in Nat /\ all \in Nat /\ to <= all
    BY <2>4, <2>1, PlacedIs
  <2>3. size = all - taken /\ taken \in Nat /\ i \in 1 .. Len(sent) + 1
    BY <2>1, <2>4 DEF Shows
  <2> QED
    BY <2>1, <2>2, <2>3, <2>4
<1>4. \A p \in 1 .. size :
        taken + p <= from + l => (Stream[p] = LF <=> taken + p = from + l)
  <2>1. Here(i, start, taken)
    OBVIOUS
  <2>2. EndsLine(from + l, taken)
    BY <1>2, <1>3, <2>1, UnitsOfLongLine
  <2> QED
    BY <2>2 DEF EndsLine
<1>5. sent[i].bytes = r.bytes
  BY <1>2 DEF Laid
<1> DEFINE p == (from + l) - taken
<1>6. p \in Nat \ {0} /\ taken + p = from + l /\ taken + p <= from + l
  <2> HIDE DEF size, from, to, all, l
  <2> QED
    BY <1>3
<1> HIDE DEF p
<1>7. p \in 1 .. size => Stream[p] = LF
  BY <1>4, <1>6
<1>8. p \in 1 .. size => sent[i] \in Requests /\ to = from + l
  <2>1. SUFFICES ASSUME p \in 1 .. size PROVE sent[i] \in Requests /\ to = from + l
    OBVIOUS
  <2>2. from + l <= taken + size
    <3> HIDE DEF size, from, l
    <3> QED
      BY <1>3, <1>6, <2>1
  <2> QED
    BY <1>2, <1>3, <1>5, <2>2, Entire
<1>9. CASE \E n \in 1 .. size :
             /\ Stream[n] = LF /\ \A q \in 1 .. n - 1 : Stream[q] # LF
             /\ Stream' = SubSeq(Stream, n + 1, size)
  <2>1. PICK n \in 1 .. size :
          /\ Stream[n] = LF /\ \A q \in 1 .. n - 1 : Stream[q] # LF
          /\ Stream' = SubSeq(Stream, n + 1, size)
    BY <1>9
  <2>2. n = p
    <3> HIDE DEF size, from, l
    <3>1. n < p => FALSE
      <4>1. n < p => taken + n <= from + l /\ taken + n # from + l
        BY <1>3, <1>6
      <4> QED
        BY <1>4, <2>1, <4>1
    <3>2. p < n => FALSE
      <4>1. p < n => p \in 1 .. n - 1 /\ p \in 1 .. size
        BY <1>3, <1>6
      <4> QED
        BY <1>7, <2>1, <4>1
    <3> QED
      BY <1>3, <1>6, <3>1, <3>2
  <2>3. sent[i] \in Requests /\ start[i + 1] = start[i] + Len(r.bytes)
    BY <1>8, <2>2
  <2>4. sent[i].run = {} /\ "TOO_LONG" \in sent[i].answers
    BY <1>2, <1>3, <2>3, NotRun
  <2>5. Ran(i) /\ Replied(i)
    BY <1>1, <2>4, AnswerToRequest
  <2>6. taken + n = start[i + 1] /\ n \in 0 .. Len(Stream)
    BY <1>6, <2>2, <2>3
  <2> QED
    BY <1>1, <1>2, <2>1, <2>5, <2>6, Begins
<1>10. CASE peer = "gone" /\ (\A q \in 1 .. size : Stream[q] # LF) /\ Stream' = <<>>
  <2>1. p \notin 1 .. size
    BY <1>7, <1>10
  <2>2. to = from + l \/ i = Len(sent)
    BY <1>2 DEF Laid
  <2>3. i = Len(sent) => to = all
    OBVIOUS
  <2>4. taken + size = to
    <3> HIDE DEF size, from, to, all, l
    <3>1. size < p
      BY <1>3, <1>6, <2>1
    <3>2. to # from + l
      BY <1>3, <1>6, <3>1
    <3> QED
      BY <1>3, <2>2, <2>3, <3>2
  <2>5. sent[i].run = {} /\ "TOO_LONG" \in sent[i].answers
    BY <1>2, <1>3, <1>10, NotRun
  <2>6. Ran(i) /\ Replied(i)
    BY <1>1, <2>5, AnswerToRequest
  <2>7. Stream' = SubSeq(Stream, size + 1, Len(Stream)) /\ size \in 0 .. Len(Stream)
    <3> DEFINE s == Stream
    <3>1. s \in Seq(STRING)
      OBVIOUS
    <3> HIDE DEF s
    <3>2. SubSeq(s, Len(s) + 1, Len(s)) = <<>> /\ Len(s) \in 0 .. Len(s)
      BY <3>1, SubSeqEmpty
    <3> QED
      BY <1>10, <3>2 DEF s
  <2> QED
    BY <1>1, <1>2, <2>4, <2>6, <2>7, Begins
<1>11. \/ \E n \in 1 .. size :
            /\ Stream[n] = LF /\ \A q \in 1 .. n - 1 : Stream[q] # LF
            /\ Stream' = SubSeq(Stream, n + 1, size)
       \/ peer = "gone" /\ (\A q \in 1 .. size : Stream[q] # LF) /\ Stream' = <<>>
  BY DEF Framed!Skipped, Framed!EndsAt, Framed!NoLineIn, Framed!After, Stream
<1> QED
  BY <1>9, <1>10, <1>11

-----------------------------------------------------------------------------
(* A step of the session.                                                   *)

LEMMA HandleInOrder ==
  ASSUME Inv, Aligned, Framed!Handle, UNCHANGED <<sent, peer>>
  PROVE  Aligned'
<1>1. pc # "closed"
  BY DEF Framed!Handle, Framed!Hangup, Framed!TakeLine, Framed!TakePayload, Framed!Discard,
         Framed!Discarded, Framed!TooLong, Framed!Skip, Framed!Skipped
<1>2. /\ Stream \in Seq(STRING) /\ sent \in Seq(Request) /\ sent' = sent /\ peer' = peer
      /\ need \in Nat /\ pending.len \in Nat
  BY <1>1, StreamIs DEF Aligned, Inv, Phases
<1>3. PICK i, start, taken : Here(i, start, taken)
  BY <1>1 DEF Aligned
<1>4. CASE Framed!Hangup
  BY <1>2, <1>3, <1>4, IsOver DEF Framed!Hangup, Here
<1>5. CASE Framed!TakeLine
  BY <1>2, <1>3, <1>5, LineInOrder DEF Framed!TakeLine
<1>6. CASE Framed!TakePayload
  BY <1>1, <1>2, <1>3, <1>6, PayloadInOrder DEF Framed!TakePayload
<1>7. CASE Framed!Discard \/ Framed!Discarded
  BY <1>2, <1>3, <1>7, DiscardInOrder, DiscardedInOrder DEF Framed!Discard, Framed!Discarded
<1>8. CASE Framed!TooLong \/ Framed!Skip \/ Framed!Skipped
  BY <1>2, <1>3, <1>8, TooLongInOrder, SkipInOrder, SkippedInOrder
     DEF Framed!TooLong, Framed!Skip, Framed!Skipped
<1> QED
  BY <1>4, <1>5, <1>6, <1>7, <1>8 DEF Framed!Handle

\* A step that Frames does not see.
LEMMA UnseenInOrder ==
  ASSUME Aligned, UNCHANGED Framed!vars, UNCHANGED <<sent, peer>>
  PROVE  Aligned'
<1>1. /\ pc' = pc /\ Stream' = Stream /\ sent' = sent /\ peer' = peer /\ executed' = executed
      /\ (delivered \o out)' = delivered \o out
      /\ pc # "closed" => pending' = pending
      /\ pc = "discard" => need' = need
  BY DEF Framed!vars, Stream
<1>2. CASE pc = "closed"
  <2>1. PICK i \in 1 .. Len(sent) + 1 : Counted(i)
    BY <1>2 DEF Aligned
  <2>2. Counted(i)'
    BY <1>1, <2>1, SameTurn
  <2> QED
    BY <1>1, <1>2, <2>2 DEF Aligned
<1>3. CASE pc # "closed"
  <2>1. PICK i, start, taken : Here(i, start, taken)
    BY <1>3 DEF Aligned
  <2>2. Counted(i)'
    BY <1>1, <2>1, SameTurn DEF Here
  <2>3. Placed(start)'
    BY <1>1, <2>1 DEF Here, Placed, Laid
  <2>4. Shows(start, taken)'
    BY <1>1, <2>1 DEF Here, Shows
  <2>5. Within(i, start, taken)
    BY <2>1 DEF Here
  <2>6. Within(i, start, taken)'
    BY <1>1, <1>3, <2>5
       DEF Within, InLine, InPayload, InDiscard, InLongLine, Announced
  <2>7. Here(i, start, taken)'
    BY <1>1, <2>1, <2>2, <2>3, <2>4, <2>6 DEF Here
  <2> QED
    BY <1>1, <1>3, <2>7 DEF Aligned
<1> QED
  BY <1>2, <1>3

LEMMA SessionInOrder ==
  ASSUME Inv, Aligned, Session
  PROVE  Aligned'
<1>1. UNCHANGED <<sent, peer>>
  BY DEF Session, Flush, Fail, Fill, ReadDirect, EndOfInput, RunImmediate, StoreHeader,
         Erroneous, SkipHeader, Quit, Terminator, DiscardDone, TooLong, SkipLine,
         Proceed, clientVars
<1>2. Framed!Handle \/ UNCHANGED Framed!vars
  BY SessionSteps
<1> QED
  BY <1>1, <1>2, HandleInOrder, UnseenInOrder

-----------------------------------------------------------------------------
(* The client's steps.                                                      *)

\* The client adds a request, of which m units arrive: all, or those before it stops.
Adds(s, r, m) ==
  /\ peer = "open" /\ sent' = Append(sent, s) /\ s.bytes = r.bytes /\ m \in Nat
  /\ \/ s = r /\ m = Len(r.bytes)
     \/ peer' # "open" /\ s = CutOff(r, peer') /\ 1 <= m /\ m < Len(r.bytes)

\* Where the requests start, with the new one.
Grown(new, start, m) ==
  /\ new \in [1 .. Len(sent) + 2 -> Nat]
  /\ \A j \in 1 .. Len(sent) + 1 : new[j] = start[j]
  /\ new[Len(sent) + 2] = start[Len(sent) + 1] + m

LEMMA Grows ==
  ASSUME NEW start, Placed(start), Len(sent) \in Nat, NEW m \in Nat
  PROVE  \E new : Grown(new, start, m)
<1> DEFINE new == [j \in 1 .. Len(sent) + 2 |->
                    IF j = Len(sent) + 2 THEN start[Len(sent) + 1] + m ELSE start[j]]
<1>1. \A j \in 1 .. Len(sent) + 1 : start[j] \in Nat
  BY DEF Placed
<1>2. Len(sent) + 1 \in 1 .. Len(sent) + 1
  OBVIOUS
<1>3. \A j \in 1 .. Len(sent) + 2 : j # Len(sent) + 2 => j \in 1 .. Len(sent) + 1
  OBVIOUS
<1>4. start[Len(sent) + 1] + m \in Nat
  BY <1>1, <1>2
<1>5. \A j \in 1 .. Len(sent) + 1 : j \in 1 .. Len(sent) + 2 /\ j # Len(sent) + 2
  OBVIOUS
<1>6. Len(sent) + 2 \in 1 .. Len(sent) + 2
  OBVIOUS
<1>7. Grown(new, start, m)
  BY <1>1, <1>2, <1>3, <1>4, <1>5, <1>6 DEF Grown
<1> QED
  BY <1>7

LEMMA StillPlaced ==
  ASSUME NEW start, Placed(start), sent \in Seq(Request),
         NEW s \in Request, NEW r \in Requests, NEW m, Adds(s, r, m),
         NEW new, Grown(new, start, m)
  PROVE  Placed(new)'
<1> DEFINE N    == Len(sent)
           last == start[N + 1]
<1>1. /\ N \in Nat /\ m \in Nat /\ sent' = Append(sent, s) /\ Len(sent') = N + 1
      /\ \A i \in 1 .. N : sent'[i] = sent[i]
      /\ sent'[N + 1] = s
  BY AppendProperties DEF Adds
<1>2. /\ new \in [1 .. N + 2 -> Nat] /\ \A j \in 1 .. N + 1 : new[j] = start[j]
      /\ new[N + 2] = last + m /\ last \in Nat
  <2>1. N + 1 \in 1 .. N + 1
    BY <1>1
  <2> QED
    BY <2>1 DEF Grown, Placed
<1>8. ASSUME NEW i \in 1 .. N
      PROVE  /\ i \in 1 .. N + 1 /\ i + 1 \in 1 .. N + 1
             /\ new[i] = start[i] /\ new[i + 1] = start[i + 1]
  <2>1. i \in 1 .. N + 1 /\ i + 1 \in 1 .. N + 1
    BY <1>1
  <2> QED
    BY <1>2, <2>1
<1>3. ASSUME NEW i \in 1 .. N
      PROVE  /\ new[i + 1] <= last + m
             /\ \E q \in Requests : Laid(i, q, new)'
  <2>1. PICK q \in Requests : Laid(i, q, start)
    BY DEF Placed
  <2>2. sent[i].bytes = q.bytes /\ sent[i] = q /\ start[i + 1] = start[i] + Len(q.bytes)
    BY <2>1 DEF Laid, Adds
  <2>3. sent'[i].bytes = q.bytes /\ sent'[i] = q /\ new[i + 1] = new[i] + Len(q.bytes)
    BY <1>1, <1>8, <2>2
  <2>4. Laid(i, q, new)'
    BY <2>3 DEF Laid
  <2>5. start[i + 1] <= last /\ start[i + 1] \in Nat
    BY <1>1, PlacedIs
  <2>6. new[i + 1] <= last + m
    <3> DEFINE to == start[i + 1]
    <3>1. to <= last /\ to \in Nat /\ new[i + 1] = to
      BY <1>8, <2>5
    <3> HIDE DEF to, last
    <3>2. to <= last + m
      BY <1>1, <1>2, <3>1
    <3> QED
      BY <3>1, <3>2
  <2> QED
    BY <2>4, <2>6
<1>4. ASSUME NEW i, i = N + 1 PROVE Laid(i, r, new)'
  <2>1. N + 1 \in 1 .. N + 1 /\ i + 1 = N + 2
    BY <1>1, <1>4
  <2>2. new[i + 1] = last + m /\ new[i] = last /\ sent'[i] = s /\ i = Len(sent')
    BY <1>1, <1>2, <1>4, <2>1
  <2>6. r.bytes \in Seq(STRING)
    BY RequestsAssumption DEF Request
  <2>7. Len(r.bytes) \in Nat
    BY <2>6
  <2>3. CASE s = r /\ m = Len(r.bytes)
    BY <2>2, <2>3 DEF Laid
  <2>4. CASE peer' # "open" /\ s = CutOff(r, peer') /\ 1 <= m /\ m < Len(r.bytes)
    <3>1. last < last + m /\ last + m < last + Len(r.bytes)
      <4> DEFINE l == Len(r.bytes)
      <4>1. l \in Nat /\ 1 <= m /\ m < l
        BY <2>4, <2>7
      <4> HIDE DEF l, last
      <4>2. last < last + m /\ last + m < last + l
        BY <1>1, <1>2, <4>1
      <4> QED
        BY <4>2 DEF l
    <3>2. s.bytes = r.bytes
      BY <2>4 DEF CutOff
    <3> QED
      BY <2>2, <2>4, <3>1, <3>2 DEF Laid
  <2> QED
    BY <2>3, <2>4 DEF Adds
<1>5. new[(N + 1) + 1] <= last + m
  <2>1. (N + 1) + 1 = N + 2
    BY <1>1
  <2>2. new[(N + 1) + 1] = last + m
    BY <1>2, <2>1
  <2> HIDE DEF last
  <2>3. last + m \in Nat
    BY <1>1, <1>2
  <2> QED
    BY <2>2, <2>3
<1>6. \A i \in 1 .. N + 1 : new[i + 1] <= new[N + 2] /\ \E q \in Requests : Laid(i, q, new)'
  <2>1. SUFFICES ASSUME NEW i \in 1 .. N + 1
                 PROVE  new[i + 1] <= new[N + 2] /\ \E q \in Requests : Laid(i, q, new)'
    OBVIOUS
  <2>2. CASE i \in 1 .. N
    BY <1>2, <1>3, <2>2
  <2>3. CASE i = N + 1
    BY <1>2, <1>4, <1>5, <2>3
  <2> QED
    BY <1>1, <2>2, <2>3
<1>7. Len(sent') + 1 = N + 2
  BY <1>1
<1>9. \A i \in 1 .. N + 1 : new[i + 1] <= new[N + 2]
  BY <1>6
<1>10. \A i \in 1 .. N + 1 : \E q \in Requests : Laid(i, q, new)'
  BY <1>6
<1> HIDE DEF N
<1> QED
  BY <1>1, <1>2, <1>7, <1>9, <1>10 DEF Placed

\* The stream, as far as it was there, and what is added.
LEMMA StillShows ==
  ASSUME NEW start, NEW taken, Placed(start), Shows(start, taken), sent \in Seq(Request),
         Stream \in Seq(STRING), NEW s \in Request, NEW r \in Requests, NEW m, Adds(s, r, m),
         Stream' = Stream \o SubSeq(r.bytes, 1, m), NEW new, Grown(new, start, m)
  PROVE  Shows(new, taken)'
<1> DEFINE N    == Len(sent)
           all  == start[N + 1]
           size == Len(Stream)
           more == SubSeq(r.bytes, 1, m)
<1>1. /\ N \in Nat /\ m \in Nat /\ sent' = Append(sent, s) /\ Len(sent') = N + 1
      /\ \A i \in 1 .. N : sent'[i] = sent[i]
      /\ sent'[N + 1] = s /\ s.bytes = r.bytes
  BY AppendProperties DEF Adds
<1>2. /\ new \in [1 .. N + 2 -> Nat] /\ \A j \in 1 .. N + 1 : new[j] = start[j]
      /\ new[N + 2] = all + m /\ all \in Nat
  <2>1. N + 1 \in 1 .. N + 1
    BY <1>1
  <2> QED
    BY <2>1 DEF Grown, Placed
<1>3. size = all - taken /\ taken \in Nat /\ size \in Nat
  BY DEF Shows
<1>4. more \in Seq(STRING) /\ Len(more) = m /\ \A j \in 1 .. m : more[j] = r.bytes[j]
  <2>1. r.bytes \in Seq(STRING)
    BY RequestsAssumption DEF Request
  <2>2. m \in 0 .. Len(r.bytes)
    BY <1>1, <2>1 DEF Adds
  <2> QED
    BY <2>1, <2>2, CutIs
<1>5. /\ Len(Stream') = size + m
      /\ \A p \in 1 .. size + m :
           Stream'[p] = IF p <= size THEN Stream[p] ELSE more[p - size]
  <2> DEFINE st == Stream
  <2>1. Stream' = st \o more /\ st \in Seq(STRING) /\ size = Len(st)
    OBVIOUS
  <2> HIDE DEF more, st, size
  <2>2. /\ Len(st \o more) = Len(st) + Len(more)
        /\ \A p \in 1 .. Len(st) + Len(more) :
             (st \o more)[p] = IF p <= Len(st) THEN st[p] ELSE more[p - Len(st)]
    BY <1>4, <2>1, ConcatProperties
  <2> QED
    BY <1>4, <2>1, <2>2 DEF st
<1> HIDE DEF more
<1>6. Len(Stream') = new[Len(sent') + 1] - taken
  <2>1. Len(sent') + 1 = N + 2
    BY <1>1
  <2>2. new[Len(sent') + 1] = all + m
    BY <1>2, <2>1
  <2>3. size + m = (all + m) - taken
    <3> HIDE DEF size, all
    <3> QED
      BY <1>1, <1>2, <1>3
  <2> QED
    BY <1>5, <2>2, <2>3
<1>7. ASSUME NEW i \in 1 .. N, NEW p \in 1 .. size + m,
             start[i] < taken + p, taken + p <= start[i + 1]
      PROVE  Stream'[p] = sent[i].bytes[taken + p - start[i]]
  <2> DEFINE to == start[i + 1]
  <2>1. to <= all /\ to \in Nat
    BY <1>1, PlacedIs
  <2>2. taken + p <= to
    BY <1>7
  <2>3. p \in 1 .. size
    <3> HIDE DEF size, all, to
    <3> QED
      BY <1>1, <1>2, <1>3, <2>1, <2>2
  <2>4. Stream[p] = sent[i].bytes[taken + p - start[i]]
    BY <1>7, <2>3 DEF Shows
  <2>5. Stream'[p] = Stream[p]
    BY <1>5, <2>3
  <2> QED
    BY <2>4, <2>5
<1>8. ASSUME NEW p \in 1 .. size + m, all < taken + p
      PROVE  Stream'[p] = s.bytes[taken + p - all]
  <2> DEFINE j == p - size
             k == taken + p - all
  <2>1. j \in 1 .. m /\ ~ (p <= size) /\ k = j
    <3> HIDE DEF size, all
    <3> QED
      BY <1>1, <1>2, <1>3, <1>8
  <2>2. Stream'[p] = more[j]
    BY <1>5, <2>1
  <2> HIDE DEF j, k
  <2>3. more[j] = r.bytes[j]
    BY <1>4, <2>1
  <2>4. Stream'[p] = s.bytes[k]
    BY <1>1, <2>1, <2>2, <2>3
  <2> QED
    BY <2>4 DEF k
<1>9. ASSUME NEW i \in 1 .. Len(sent'), NEW p \in 1 .. Len(Stream'),
             new[i] < taken + p, taken + p <= new[i + 1]
      PROVE  Stream'[p] = sent'[i].bytes[taken + p - new[i]]
  <2>1. p \in 1 .. size + m
    BY <1>5
  <2>2. CASE i \in 1 .. N
    <3>1. i \in 1 .. N + 1 /\ i + 1 \in 1 .. N + 1
      BY <1>1, <2>2
    <3>2. new[i] = start[i] /\ new[i + 1] = start[i + 1] /\ sent'[i] = sent[i]
      BY <1>1, <1>2, <2>2, <3>1
    <3>3. start[i] < taken + p /\ taken + p <= start[i + 1]
      BY <1>9, <3>2
    <3>4. Stream'[p] = sent[i].bytes[taken + p - start[i]]
      BY <1>7, <2>1, <2>2, <3>3
    <3> QED
      BY <3>2, <3>4
  <2>3. CASE i = N + 1
    <3>1. new[i] = all /\ sent'[i] = s
      BY <1>1, <1>2, <2>3
    <3>2. all < taken + p
      BY <1>9, <3>1
    <3>3. Stream'[p] = s.bytes[taken + p - all]
      BY <1>8, <2>1, <3>2
    <3> QED
      BY <3>1, <3>3
  <2> QED
    BY <1>1, <2>2, <2>3
<1> HIDE DEF N, all, size
<1> QED
  BY <1>3, <1>6, <1>9 DEF Shows

LEMMA StillCounted ==
  ASSUME sent \in Seq(Request), NEW s \in Request, sent' = Append(sent, s),
         UNCHANGED <<out, delivered, executed>>,
         NEW i \in 1 .. Len(sent) + 1, Counted(i)
  PROVE  Counted(i)'
<1>1. /\ Len(sent) \in Nat /\ Len(sent') = Len(sent) + 1 /\ sent' \in Seq(Request)
      /\ \A j \in 1 .. Len(sent) : sent'[j] = sent[j]
  BY AppendProperties
<1>2. /\ DOMAIN Runs = 1 .. Len(sent) /\ DOMAIN Runs' = 1 .. Len(sent) + 1
      /\ DOMAIN Answers = 1 .. Len(sent) /\ DOMAIN Answers' = 1 .. Len(sent) + 1
  BY <1>1 DEF Runs, Answers
<1>3. \A j \in 1 .. Len(sent) : Runs'[j] = Runs[j] /\ Answers'[j] = Answers[j]
  BY <1>1 DEF Runs, Answers
<1> DEFINE oldRuns    == Runs
           newRuns    == Runs'
           oldAnswers == Answers
           newAnswers == Answers'
           w          == delivered \o out
<1>4. Counts(executed, oldRuns, i) /\ Counts(w, oldAnswers, i)
  BY DEF Counted
<1>5. /\ DOMAIN oldRuns = 1 .. Len(sent) /\ DOMAIN newRuns = 1 .. Len(sent) + 1
      /\ \A j \in 1 .. Len(sent) : newRuns[j] = oldRuns[j]
  BY <1>2, <1>3
<1>6. /\ DOMAIN oldAnswers = 1 .. Len(sent) /\ DOMAIN newAnswers = 1 .. Len(sent) + 1
      /\ \A j \in 1 .. Len(sent) : newAnswers[j] = oldAnswers[j]
  BY <1>2, <1>3
<1> HIDE DEF oldRuns, newRuns, oldAnswers, newAnswers, w
<1>7. Counts(executed, newRuns, i)
  BY <1>1, <1>4, <1>5, StillCounts
<1>8. Counts(w, newAnswers, i)
  BY <1>1, <1>4, <1>6, StillCounts
<1> QED
  BY <1>7, <1>8 DEF Counted, Counts, InOrder, newRuns, newAnswers, w

LEMMA StillWithin ==
  ASSUME NEW i, NEW start, NEW taken, Here(i, start, taken), sent \in Seq(Request),
         NEW s \in Request, NEW r \in Requests, NEW m, Adds(s, r, m), UNCHANGED session,
         NEW new, Grown(new, start, m)
  PROVE  Within(i, new, taken)'
<1>1. /\ Len(sent) \in Nat /\ Len(sent') = Len(sent) + 1
      /\ \A j \in 1 .. Len(sent) : sent'[j] = sent[j]
  BY AppendProperties DEF Adds
<1>2. /\ UNCHANGED <<pc, need, pending>> /\ peer = "open"
      /\ i \in 1 .. Len(sent) + 1 /\ new[i] = start[i]
  BY DEF session, body, Adds, Grown, Here
<1>3. \A n : Announced(i, n) => Announced(i, n)'
  <2>1. \A n : Announced(i, n) => i \in 1 .. Len(sent') /\ sent'[i] = sent[i]
    BY <1>1 DEF Announced
  <2> QED
    BY <1>2, <2>1 DEF Announced
<1>4. InLongLine(i, start, taken) => InLongLine(i, new, taken)'
  <2>1. InLongLine(i, start, taken) => i \in 1 .. Len(sent') /\ sent'[i] = sent[i]
    BY <1>1 DEF InLongLine
  <2> QED
    BY <1>2, <2>1 DEF InLongLine
<1>5. InPayload(i, start, taken) => InPayload(i, new, taken)'
  BY <1>2, <1>3 DEF InPayload
<1>6. InDiscard(i, start, taken) => InDiscard(i, new, taken)'
  BY <1>2, <1>3 DEF InDiscard
<1>7. Within(i, start, taken)
  BY DEF Here
<1> QED
  BY <1>2, <1>4, <1>5, <1>6, <1>7 DEF Within, InLine

LEMMA JoinedIs ==
  ASSUME NEW p \in Seq(STRING), NEW q \in Seq(STRING), NEW r \in Seq(STRING)
  PROVE  (p \o q) \o r = p \o (q \o r)
BY ConcatAssociative

\* The client adds to what it has sent, and to what has arrived.
LEMMA AddedInOrder ==
  ASSUME Inv, Aligned, NEW s \in Request, NEW r \in Requests, NEW m, Adds(s, r, m),
         wire' = wire \o SubSeq(r.bytes, 1, m), UNCHANGED session
  PROVE  Aligned'
<1>1. /\ UNCHANGED <<pc, buffer, payload, out, delivered, executed>>
      /\ sent \in Seq(Request) /\ sent' = Append(sent, s) /\ m \in Nat
  BY DEF session, body, responses, Aligned, Adds
<1>2. /\ sent' \in Seq(Request) /\ Len(sent) \in Nat /\ Len(sent') = Len(sent) + 1
  BY <1>1, AppendProperties
<1>3. \A i \in 1 .. Len(sent) + 1 : i \in 1 .. Len(sent') + 1
  BY <1>2
<1>4. CASE pc = "closed"
  <2>1. PICK i \in 1 .. Len(sent) + 1 : Counted(i)
    BY <1>4 DEF Aligned
  <2>2. Counted(i)'
    BY <1>1, <2>1, StillCounted
  <2> QED
    BY <1>1, <1>2, <1>3, <1>4, <2>2 DEF Aligned
<1>5. CASE pc # "closed"
  <2>1. PICK i, start, taken : Here(i, start, taken)
    BY <1>5 DEF Aligned
  <2>2. /\ Placed(start) /\ Shows(start, taken) /\ Counted(i)
        /\ i \in 1 .. Len(sent) + 1 /\ taken \in Nat
    BY <2>1 DEF Here
  <2>3. PICK new : Grown(new, start, m)
    BY <1>1, <1>2, <2>2, Grows
  <2>4. Stream' = Stream \o SubSeq(r.bytes, 1, m) /\ Stream \in Seq(STRING)
    <3> DEFINE held == payload \o buffer
               more == SubSeq(r.bytes, 1, m)
    <3>1. Stream \in Seq(STRING) /\ Stream = held \o wire /\ Stream' = held \o (wire \o more)
      BY <1>1, <1>5, StreamIs DEF Stream
    <3>2. held \in Seq(STRING) /\ wire \in Seq(STRING)
      BY ConcatProperties DEF Inv, Units
    <3>3. more \in Seq(STRING)
      <4> DEFINE b == r.bytes
      <4>1. b \in Seq(STRING)
        BY RequestsAssumption DEF Request
      <4>2. m \in 0 .. Len(b)
        BY <4>1 DEF Adds
      <4> HIDE DEF b
      <4>3. SubSeq(b, 1, m) \in Seq(STRING)
        BY <4>1, <4>2, CutIs
      <4> QED
        BY <4>3 DEF b
    <3> HIDE DEF held, more
    <3>4. (held \o wire) \o more = held \o (wire \o more)
      BY <3>2, <3>3, JoinedIs
    <3> QED
      BY <3>1, <3>4 DEF more
  <2>5. Placed(new)'
    BY <1>1, <2>2, <2>3, StillPlaced
  <2>6. Shows(new, taken)'
    BY <1>1, <2>2, <2>3, <2>4, StillShows
  <2>7. Within(i, new, taken)'
    BY <1>1, <2>1, <2>3, StillWithin
  <2>8. Counted(i)'
    BY <1>1, <2>2, StillCounted
  <2>9. Here(i, new, taken)'
    BY <1>3, <2>2, <2>5, <2>6, <2>7, <2>8 DEF Here
  <2> QED
    BY <1>1, <1>2, <1>5, <2>9 DEF Aligned
<1> QED
  BY <1>4, <1>5

\* The client stops between two requests.
LEMMA StoppedInOrder ==
  ASSUME Aligned, peer = "open", UNCHANGED <<sent, wire, session>>
  PROVE  Aligned'
<1>1. UNCHANGED <<sent, wire, pc, buffer, need, pending, payload, out, delivered, executed>>
  BY DEF session, body, responses
<1>2. Stream' = Stream
  BY <1>1 DEF Stream
<1>3. \A i : Counted(i) => Counted(i)'
  BY <1>1, SameTurn
<1>4. CASE pc = "closed"
  BY <1>1, <1>3, <1>4 DEF Aligned
<1>5. CASE pc # "closed"
  <2>1. PICK i, start, taken : Here(i, start, taken)
    BY <1>5 DEF Aligned
  <2>2. Placed(start)'
    BY <1>1, <2>1 DEF Here, Placed, Laid
  <2>3. Shows(start, taken)'
    BY <1>1, <1>2, <2>1 DEF Here, Shows
  <2>4. Within(i, start, taken)'
    <3>1. Within(i, start, taken)
      BY <2>1 DEF Here
    <3> QED
      BY <1>1, <3>1 DEF Within, InLine, InPayload, InDiscard, InLongLine, Announced
  <2>5. Here(i, start, taken)'
    BY <1>1, <1>3, <2>1, <2>2, <2>3, <2>4 DEF Here
  <2> QED
    BY <1>1, <1>5, <2>5 DEF Aligned
<1> QED
  BY <1>4, <1>5

LEMMA ClientInOrder ==
  ASSUME Inv, Aligned, (\E r \in Requests : Send(r)) \/ Stop
  PROVE  Aligned'
<1>1. \A r \in Requests : r \in Request /\ r.bytes \in Seq(STRING) /\ Len(r.bytes) \in Nat
  <2>1. \A r \in Requests : r \in Request /\ r.bytes \in Seq(STRING)
    BY RequestsAssumption DEF Request
  <2> QED
    BY <2>1
<1>2. CASE \E r \in Requests : Send(r)
  <2>1. PICK r \in Requests : Send(r)
    BY <1>2
  <2>2. Adds(r, r, Len(r.bytes))
    BY <1>1, <2>1 DEF Send, Adds
  <2>3. wire' = wire \o SubSeq(r.bytes, 1, Len(r.bytes)) /\ UNCHANGED session
    BY <1>1, <2>1, SubSeqFull DEF Send
  <2> QED
    BY <1>1, <2>2, <2>3, AddedInOrder
<1>3. CASE Stop
  <2>1. peer = "open" /\ UNCHANGED session
    BY <1>3 DEF Stop
  <2>2. CASE UNCHANGED <<sent, wire>>
    BY <2>1, <2>2, StoppedInOrder
  <2>3. CASE ~ UNCHANGED <<sent, wire>>
    <3>1. PICK r \in Requests : \E n \in 1 .. Len(r.bytes) - 1 :
            /\ peer' \in Endings /\ sent' = Append(sent, CutOff(r, peer'))
            /\ wire' = wire \o SubSeq(r.bytes, 1, n)
      BY <1>3, <2>3 DEF Stop
    <3>2. PICK n \in 1 .. Len(r.bytes) - 1 :
            /\ peer' \in Endings /\ sent' = Append(sent, CutOff(r, peer'))
            /\ wire' = wire \o SubSeq(r.bytes, 1, n)
      BY <3>1
    <3>3. n \in Nat /\ 1 <= n /\ n < Len(r.bytes) /\ peer' # "open"
      <4> DEFINE all == Len(r.bytes)
      <4>1. all \in Nat
        BY <1>1
      <4>2. n \in 1 .. all - 1
        BY <3>2
      <4>3. peer' # "open"
        BY <3>2, SessionAssumption
      <4> HIDE DEF all
      <4>4. n \in Nat /\ 1 <= n /\ n < all
        BY <4>1, <4>2
      <4> QED
        BY <4>3, <4>4 DEF all
    <3> DEFINE s == CutOff(r, peer')
    <3>4. s \in Request /\ s.bytes = r.bytes
      BY <1>1 DEF CutOff, Request
    <3>5. Adds(s, r, n)
      BY <2>1, <3>2, <3>3, <3>4 DEF Adds
    <3> QED
      BY <2>1, <3>2, <3>4, <3>5, AddedInOrder
  <2> QED
    BY <2>2, <2>3
<1> QED
  BY <1>2, <1>3

-----------------------------------------------------------------------------
(* Sizes.                                                                   *)

\* The session holds no more than what is announced, and the writer no more
\* than it has room for.
BodyBound   == Len(payload) + need <= pending.len
WriterBound == Len(out) <= WriterCap
Bounds      == BodyBound /\ WriterBound /\ peer \in {"open", "silent", "gone"}

LEMMA WriteBound ==
  ASSUME Written, WriterBound, NEW choice, Write(choice)
  PROVE  WriterBound'
<1>1. PICK S : out \in Seq(S)
  BY DEF Written
<1>2. PICK r \in choice :
        IF Len(out) = WriterCap
          THEN delivered' = delivered \o out /\ out' = <<r>>
          ELSE UNCHANGED delivered /\ out' = Append(out, r)
  BY DEF Write
<1>3. Len(out) \in Nat /\ WriterCap \in Nat \ {0}
  BY <1>1, SessionAssumption
<1>4. CASE Len(out) = WriterCap
  <2>1. out' = <<r>>
    BY <1>2, <1>4
  <2>2. Len(out') = 1 /\ 1 <= WriterCap
    BY <1>3, <2>1
  <2> QED
    BY <2>2 DEF WriterBound
<1>5. CASE Len(out) # WriterCap
  <2> DEFINE T == S \cup {r}
  <2>1. out \in Seq(T) /\ r \in T
    BY <1>1, SeqMonotonic
  <2> HIDE DEF T
  <2>2. Len(Append(out, r)) = Len(out) + 1
    BY <2>1, AppendProperties
  <2> QED
    BY <1>2, <1>3, <1>5, <2>2 DEF WriterBound
<1> QED
  BY <1>4, <1>5

LEMMA ExecuteBound ==
  ASSUME Written, WriterBound, NEW cmd, NEW data, Execute(cmd, data)
  PROVE  WriterBound'
BY WriteBound DEF Execute, WriteIfAny, responses, WriterBound

LEMMA WriterStep ==
  ASSUME Inv, WriterBound, Session
  PROVE  WriterBound'
<1>1. Written /\ WriterCap \in Nat
  BY SessionAssumption DEF Inv
<1>2. CASE out' = out
  BY <1>2 DEF WriterBound
<1>3. CASE Flush
  BY <1>1, <1>3 DEF Flush, WriterBound
<1>4. CASE \E header \in NextHeader : RunImmediate(header) \/ Erroneous(header)
  BY <1>1, <1>4, ExecuteBound, WriteBound DEF RunImmediate, Erroneous
<1>5. CASE Terminator
  BY <1>1, <1>5, ExecuteBound, WriteBound DEF Terminator
<1>6. CASE DiscardDone
  BY <1>1, <1>6, WriteBound DEF DiscardDone
<1>7. CASE SkipLine
  <2>1. Write({"TOO_LONG"}) \/ out' = out
    BY <1>7 DEF SkipLine, responses
  <2> QED
    BY <1>1, <1>2, <2>1, WriteBound
<1>8. CASE Fail \/ Fill \/ ReadDirect \/ EndOfInput \/ TooLong
  BY <1>2, <1>8 DEF Fail, Fill, ReadDirect, EndOfInput, TooLong, responses
<1>9. CASE \E header \in NextHeader : StoreHeader(header) \/ SkipHeader(header) \/ Quit(header)
  BY <1>2, <1>9 DEF StoreHeader, SkipHeader, Quit, responses
<1> QED
  BY <1>3, <1>4, <1>5, <1>6, <1>7, <1>8, <1>9 DEF Session

LEMMA BodyStep ==
  ASSUME Inv, BodyBound, Session
  PROVE  BodyBound'
<1>1. /\ need \in Nat /\ pending.len \in Nat /\ payload \in Seq(STRING) /\ wire \in Seq(STRING)
      /\ pc \notin {"payload", "closed"} => payload = <<>>
      /\ NoHeader.len = 0 /\ Len(payload) \in Nat
  BY DEF Inv, Units, Phases, NoHeader, CommandHeader
<1>2. CASE UNCHANGED body
  BY <1>2 DEF body, BodyBound
<1>3. CASE ReadDirect
  <2>1. PICK n \in 1 .. Least(need, Len(wire)) :
          /\ need' = need - n
          /\ payload' = IF pc = "payload" THEN payload \o SubSeq(wire, 1, n) ELSE payload
    BY <1>3 DEF ReadDirect
  <2>2. n \in Nat /\ n <= need /\ n \in 0 .. Len(wire)
    BY <1>1 DEF Least
  <2>3. Len(SubSeq(wire, 1, n)) = n /\ SubSeq(wire, 1, n) \in Seq(STRING)
    BY <1>1, <2>2, CutWire
  <2>4. Len(payload') <= Len(payload) + n
    BY <1>1, <2>1, <2>2, <2>3, ConcatProperties
  <2>5. pending' = pending /\ Len(payload') \in Nat
    BY <1>1, <1>3, <2>1, <2>3, ConcatProperties DEF ReadDirect
  <2> DEFINE old == Len(payload)
             new == Len(payload')
             l   == pending.len
             k   == need'
  <2>6. /\ old + need <= l /\ old \in Nat /\ new \in Nat /\ l \in Nat /\ new <= old + n
        /\ k = need - n
    BY <1>1, <2>1, <2>4, <2>5 DEF BodyBound
  <2> HIDE DEF old, new, l, k
  <2>7. new + k <= l
    BY <1>1, <2>2, <2>6
  <2> QED
    BY <2>5, <2>7 DEF BodyBound, new, k, l
<1>4. CASE EndOfInput
  <2>1. need' \in {0, need} /\ UNCHANGED <<payload, pending>>
    BY <1>4 DEF EndOfInput
  <2> QED
    BY <1>1, <2>1 DEF BodyBound
<1>5. CASE \E header \in NextHeader : StoreHeader(header) \/ SkipHeader(header)
  <2>1. PICK header \in NextHeader : StoreHeader(header) \/ SkipHeader(header)
    BY <1>5
  <2> DEFINE l == header.len
             n == Least(Len(AfterLine), l)
  <2>2. pc = "line" /\ HasLine /\ header = HeaderOfLine(Line)
    BY DEF NextHeader
  <2>3. l \in Nat /\ AfterLine \in Seq(STRING)
    <3>1. buffer \in Seq(STRING)
      BY DEF Inv, Units
    <3>3. PICK k \in 1 .. Len(buffer) : AfterLine = SubSeq(buffer, k + 1, Len(buffer))
      BY <2>2, <3>1, LineIs
    <3>2. AfterLine \in Seq(STRING)
      BY <3>1, <3>3, CutIs
    <3> QED
      BY <2>2, <3>2, HeaderLength
  <2>4. n \in 0 .. Len(AfterLine) /\ n \in Nat /\ n <= l
    BY <2>3 DEF Least
  <2>5. need' = l - n /\ pending' = header /\ payload' \in {payload, SubSeq(AfterLine, 1, n)}
    BY <2>1 DEF StoreHeader, SkipHeader
  <2>6. Len(payload') <= n
    BY <1>1, <2>2, <2>3, <2>4, <2>5, CutIs
  <2>7. Len(payload') \in Nat
    BY <1>1, <2>2, <2>3, <2>4, <2>5, CutIs
  <2> HIDE DEF n, l
  <2>8. Len(payload') + need' <= l
    BY <2>3, <2>4, <2>5, <2>6, <2>7
  <2> QED
    BY <2>5, <2>8 DEF BodyBound, l
<1>6. CASE Terminator
  <2>1. need' = 0 /\ payload' = <<>> /\ pending' = NoHeader
    BY <1>6 DEF Terminator
  <2> QED
    BY <1>1, <2>1 DEF BodyBound
<1>7. CASE DiscardDone
  <2>1. need' = 0 /\ payload' = <<>> /\ pending' = NoHeader
    BY <1>1, <1>7 DEF DiscardDone
  <2> QED
    BY <1>1, <2>1 DEF BodyBound
<1>8. CASE Flush \/ Fail \/ Fill \/ TooLong \/ SkipLine
  BY <1>2, <1>8 DEF Flush, Fail, Fill, TooLong, SkipLine
<1>9. CASE \E header \in NextHeader : RunImmediate(header) \/ Erroneous(header) \/ Quit(header)
  BY <1>2, <1>9 DEF RunImmediate, Erroneous, Quit
<1> QED
  BY <1>3, <1>4, <1>5, <1>6, <1>7, <1>8, <1>9 DEF Session

-----------------------------------------------------------------------------
(* The theorems.                                                            *)

IInv == Inv /\ Aligned /\ Bounds

LEMMA InitInOrder ==
  ASSUME Init
  PROVE  IInv
<1>1. /\ sent = <<>> /\ peer = "open" /\ wire = <<>> /\ pc = "line" /\ waiting = FALSE
      /\ buffer = <<>> /\ need = 0 /\ pending = NoHeader /\ payload = <<>>
      /\ out = <<>> /\ delivered = <<>> /\ executed = <<>>
  BY DEF Init
<1>2. \A S : <<>> \in Seq(S) /\ <<>> \o <<>> = <<>>
  BY EmptySeq, ConcatEmptySeq
<1>3. Stream = <<>> /\ delivered \o out = <<>>
  BY <1>1, <1>2 DEF Stream
<1>4. NoHeader.len = 0
  BY DEF NoHeader, CommandHeader
<1>5. Inv
  <2>1. Units /\ Written
    BY <1>1, <1>2 DEF Units, Written
  <2>2. Phases
    <3>1. NoHeader.len \in Nat
      BY <1>4
    <3> QED
      BY <3>1 DEF Init, Phases
  <2> QED
    BY <2>1, <2>2 DEF Inv
<1>6. Bounds
  BY <1>1, <1>4, SessionAssumption DEF Bounds, BodyBound, WriterBound
<1>7. Counted(1)
  <2>1. DOMAIN Runs = {} /\ DOMAIN Answers = {}
    BY <1>1 DEF Runs, Answers
  <2>2. \A choices : DOMAIN choices = {} => Rank(1 - 1, Choosing(choices)) = 0
    <3>1. SUFFICES ASSUME NEW choices, DOMAIN choices = {}
                   PROVE  Rank(1 - 1, Choosing(choices)) = 0
      OBVIOUS
    <3>2. {j \in Choosing(choices) : j <= 1 - 1} = {}
      BY <3>1 DEF Choosing
    <3> QED
      BY <3>2, FS_EmptySet DEF Rank
  <2>3. \A choices : DOMAIN choices = {} => Counts(<<>>, choices, 1)
    BY <1>2, <2>2 DEF Counts, InOrder
  <2> QED
    BY <1>1, <1>3, <2>1, <2>3 DEF Counted
<1> DEFINE start == [j \in 1 .. 1 |-> 0]
<1>8. Placed(start) /\ Shows(start, 0) /\ Within(1, start, 0)
  BY <1>1, <1>3 DEF Placed, Shows, Within, InLine
<1> HIDE DEF start
<1>9. Here(1, start, 0)
  BY <1>1, <1>7, <1>8 DEF Here
<1>10. Aligned
  BY <1>1, <1>2, <1>9 DEF Aligned
<1> QED
  BY <1>5, <1>6, <1>10 DEF IInv

LEMMA StepsInOrder ==
  ASSUME IInv, [Next]_vars
  PROVE  IInv'
<1>1. Inv'
  BY StepsFrames DEF IInv
<1>2. CASE (\E r \in Requests : Send(r)) \/ Stop
  <2>1. Aligned'
    BY <1>2, ClientInOrder DEF IInv
  <2>2. UNCHANGED <<need, pending, payload, out>>
    BY <1>2 DEF Send, Stop, session, body, responses
  <2>3. peer' \in {"open", "silent", "gone"}
    BY <1>2, SessionAssumption DEF IInv, Bounds, Send, Stop
  <2> QED
    BY <1>1, <2>1, <2>2, <2>3 DEF IInv, Bounds, BodyBound, WriterBound
<1>3. CASE Session
  <2>1. Aligned'
    BY <1>3, SessionInOrder DEF IInv
  <2>2. BodyBound' /\ WriterBound'
    BY <1>3, BodyStep, WriterStep DEF IInv, Bounds
  <2>3. peer' = peer
    BY <1>3 DEF Session, Flush, Fail, Fill, ReadDirect, EndOfInput, RunImmediate, StoreHeader,
                Erroneous, SkipHeader, Quit, Terminator, DiscardDone, TooLong, SkipLine,
                Proceed, clientVars
  <2> QED
    BY <1>1, <2>1, <2>2, <2>3 DEF IInv, Bounds
<1>4. CASE UNCHANGED vars
  <2>1. UNCHANGED <<sent, peer, wire, pc, buffer, need, pending, payload,
                    out, delivered, executed>>
    BY <1>4 DEF vars, clientVars, session, body, responses
  <2>2. Stream' = Stream /\ (delivered \o out)' = delivered \o out
    BY <2>1 DEF Stream
  <2>3. Aligned'
    BY <2>1, <2>2, Unseen, UnseenInOrder DEF IInv
  <2> QED
    BY <1>1, <2>1, <2>3 DEF IInv, Bounds, BodyBound, WriterBound
<1> QED
  BY <1>2, <1>3, <1>4 DEF Next, Rest

\* At any time, some request's turn.
LEMMA SomeTurn ==
  ASSUME Aligned
  PROVE  sent \in Seq(Request) /\ \E i \in 1 .. Len(sent) + 1 : Counted(i)
BY DEF Aligned, Here

LEMMA SessionInvariant == Spec => []IInv
BY InitInOrder, StepsInOrder, PTL DEF Spec

\* The commands that are run are those of the requests, whole and in their
\* order, wherever the reads cut the stream and whatever is refused in between.
THEOREM RunsInOrder == Spec => []ExecutedInOrder
<1>1. IInv => ExecutedInOrder
  BY SomeTurn DEF IInv, ExecutedInOrder, Counted, Counts
<1> QED
  BY <1>1, SessionInvariant, PTL

\* Each response answers the request whose turn it is, whether it waits in the
\* writer or has reached the socket.
THEOREM AnswersInOrder == Spec => []AnsweredInOrder
<1>1. IInv => AnsweredInOrder
  BY SomeTurn DEF IInv, AnsweredInOrder, Counted, Counts
<1> QED
  BY <1>1, SessionInvariant, PTL

\* What is in order is one of the choices.
LEMMA ChoicesTyped ==
  ASSUME NEW seq, NEW choices, NEW i, Counts(seq, choices, i), NEW T,
         \A j \in DOMAIN choices : choices[j] \subseteq T
  PROVE  seq \in Seq(T)
<1>1. PICK S : seq \in Seq(S)
  BY DEF Counts
<1>2. \A n \in 1 .. Len(seq) : seq[n] \in T
  BY <1>1 DEF Counts, InOrder
<1> QED
  BY <1>1, <1>2

\* The commands and the responses have the shape the requests give them, the
\* body fits its announcement, and the writer never holds more than its room.
THEOREM SessionTypes == Spec => []TypeOK
<1>1. ASSUME IInv PROVE TypeOK
  <2>1. sent \in Seq(Request) /\ peer \in {"open", "silent", "gone"}
    BY <1>1 DEF IInv, Aligned, Bounds
  <2>2. wire \in Seq(STRING) /\ buffer \in Seq(STRING) /\ payload \in Seq(STRING)
    BY <1>1 DEF IInv, Inv, Units
  <2>3. /\ pc \in {"line", "payload", "discard", "skipline", "closed"}
        /\ waiting \in BOOLEAN
    BY <1>1 DEF IInv, Inv, Phases
  <2>4. need \in 0 .. pending.len /\ Len(payload) <= pending.len
    <3>1. need \in Nat /\ pending.len \in Nat /\ Len(payload) \in Nat
      BY <1>1, <2>2 DEF IInv, Inv, Phases
    <3>2. Len(payload) + need <= pending.len
      BY <1>1 DEF IInv, Bounds, BodyBound
    <3> QED
      BY <3>1, <3>2
  <2>5. PICK i \in 1 .. Len(sent) + 1 : Counted(i)
    BY <1>1, SomeTurn DEF IInv
  <2>6. \A j \in 1 .. Len(sent) : sent[j].run \subseteq Call /\ sent[j].answers \subseteq STRING
    <3>1. \A q \in Request : q.run \subseteq Call /\ q.answers \subseteq STRING
      BY DEF Request
    <3>2. \A j \in 1 .. Len(sent) : sent[j] \in Request
      BY <2>1
    <3> QED
      BY <3>1, <3>2
  <2>7. executed \in Seq(Call)
    <3>1. \A j \in DOMAIN Runs : Runs[j] \subseteq Call
      BY <2>1, <2>6 DEF Runs
    <3> QED
      BY <2>5, <3>1, ChoicesTyped DEF Counted
  <2>8. delivered \o out \in Seq(STRING)
    <3>1. \A j \in DOMAIN Answers : Answers[j] \subseteq STRING
      BY <2>1, <2>6 DEF Answers
    <3> QED
      BY <2>5, <3>1, ChoicesTyped DEF Counted
  <2>9. delivered \in Seq(STRING) /\ out \in Seq(STRING)
    <3>1. PICK S : delivered \in Seq(S) /\ out \in Seq(S)
      BY <1>1 DEF IInv, Inv, Written
    <3> DEFINE w == delivered \o out
    <3>2. /\ Len(w) = Len(delivered) + Len(out)
          /\ \A n \in 1 .. Len(delivered) + Len(out) :
               w[n] = IF n <= Len(delivered) THEN delivered[n] ELSE out[n - Len(delivered)]
      BY <3>1, ConcatProperties
    <3>3. w \in Seq(STRING) /\ Len(delivered) \in Nat /\ Len(out) \in Nat
      BY <2>8, <3>1
    <3> HIDE DEF w
    <3>4. \A n \in 1 .. Len(delivered) : delivered[n] \in STRING
      BY <3>2, <3>3
    <3>5. \A n \in 1 .. Len(out) : out[n] \in STRING
      <4>1. SUFFICES ASSUME NEW n \in 1 .. Len(out) PROVE out[n] \in STRING
        OBVIOUS
      <4> DEFINE k == Len(delivered) + n
      <4>2. k \in 1 .. Len(delivered) + Len(out) /\ ~ (k <= Len(delivered)) /\ k - Len(delivered) = n
        BY <3>3
      <4> HIDE DEF k
      <4> QED
        BY <3>2, <3>3, <4>2
    <3> QED
      BY <3>1, <3>4, <3>5
  <2>10. Len(out) <= WriterCap
    BY <1>1 DEF IInv, Bounds, WriterBound
  <2> QED
    BY <2>1, <2>2, <2>3, <2>4, <2>7, <2>9, <2>10 DEF TypeOK
<1> QED
  BY <1>1, SessionInvariant, PTL
=============================================================================
