---------------------------- MODULE ServerProofs ----------------------------
(***************************************************************************)
(* Theorems about Server, for any clients, any limit and any bounds.  A    *)
(* step leaves the permits and their holders alone, lets one connection    *)
(* in, or lets one go; the same is true of CURR_CONNECTIONS.  It follows   *)
(* that no permit is lost, that the counters are right, and that the       *)
(* server is a turnstile.                                                  *)
(***************************************************************************)
EXTENDS Server, FiniteSetTheorems, SequenceTheorems, TLAPS

\* The connections without a permit are those of different clients, and none of
\* these has a session.
Apart ==
  /\ \A i \in 1 .. Len(backlog) : session[backlog[i]] = "none"
  /\ \A i, j \in 1 .. Len(backlog) : backlog[i] = backlog[j] => i = j
  /\ \A c \in Range(held) :
       session[c] = "none" /\ \A i \in 1 .. Len(backlog) : backlog[i] # c

\* A shutdown drops sessions without counting them off; nothing else makes
\* CURR_CONNECTIONS larger than the sessions and the panics account for.
CurrKept ==
  /\ curr >= Cardinality(Counted) + panics
  /\ Running => curr = Cardinality(Counted) + panics

TotalKept ==
  Running => total = joins - Len(backlog) - IF loop \in {"permit", "total"} THEN 1 ELSE 0

Inv == TypeOK /\ PermitsConserved /\ Apart /\ CurrKept /\ TotalKept

\* TypeOK but for the numbers that other parts of Inv bound.
Shape ==
  /\ backlog \in Seq(Clients)
  /\ loop \in {"accept", "pause", "permit", "total", "curr", "dropped"}
  /\ held \in Seq(Clients)
  /\ Len(held) = IF loop \in {"permit", "total", "curr"} THEN 1 ELSE 0
  /\ session \in [Clients -> {"none", "idle", "busy", "returned", "counted"}]
  /\ gone \subseteq Clients
  /\ total \in Nat
  /\ process \in {"up", "leaving", "down"}
  /\ joins \in Nat /\ errors \in Nat /\ panics \in Nat /\ served \in Nat

-----------------------------------------------------------------------------
(* Sequences of clients.                                                    *)

LEMMA RangeIs ==
  ASSUME NEW s \in Seq(Clients)
  PROVE  /\ Range(s) = {s[i] : i \in 1 .. Len(s)}
         /\ Range(s) \subseteq Clients
BY DEF Range

LEMMA HeldRange ==
  ASSUME TypeOK
  PROVE  /\ loop \in {"permit", "total", "curr"} =>
              /\ held[1] \in Clients /\ Range(held) = {held[1]} /\ held = <<held[1]>>
         /\ loop \notin {"permit", "total", "curr"} => Range(held) = {} /\ held = <<>>
<1>1. held \in Seq(Clients) /\ Range(held) = {held[i] : i \in 1 .. Len(held)}
  BY RangeIs DEF TypeOK
<1>2. CASE loop \in {"permit", "total", "curr"}
  <2>1. Len(held) = 1 /\ 1 .. 1 = {1}
    BY <1>2 DEF TypeOK
  <2>2. held[1] \in Clients /\ Range(held) = {held[1]}
    BY <1>1, <2>1
  <2>3. held = <<held[1]>>
    BY <1>1, <2>1
  <2> QED
    BY <1>2, <2>2, <2>3
<1>3. CASE loop \notin {"permit", "total", "curr"}
  BY <1>1, <1>3 DEF TypeOK
<1> QED
  BY <1>2, <1>3

LEMMA ConcatRange ==
  ASSUME TypeOK, NEW c, c \notin Range(held \o backlog)
  PROVE  c \notin Range(held) /\ \A i \in 1 .. Len(backlog) : backlog[i] # c
<1>1. held \in Seq(Clients) /\ backlog \in Seq(Clients)
  BY DEF TypeOK
<1>2. Range(held \o backlog) = Range(held) \cup Range(backlog)
  BY <1>1, RangeConcatenation
<1> QED
  BY <1>1, <1>2, RangeIs

LEMMA SplitConcat ==
  ASSUME NEW c \in Clients, NEW s \in Seq(Clients)
  PROVE  Head(<<c>> \o s) = c /\ Tail(<<c>> \o s) = s /\ <<c>> \o s # <<>>
<1>1. <<c>> \in Seq(Clients) /\ Len(<<c>>) = 1 /\ <<c>>[1] = c /\ Len(s) \in Nat
  OBVIOUS
<1>2. /\ <<c>> \o s \in Seq(Clients) /\ Len(<<c>> \o s) = 1 + Len(s)
      /\ (<<c>> \o s)[1] = c
      /\ \A i \in 1 .. Len(s) : (<<c>> \o s)[i + 1] = s[i]
  <2>1. /\ <<c>> \o s \in Seq(Clients) /\ Len(<<c>> \o s) = Len(<<c>>) + Len(s)
        /\ \A i \in 1 .. Len(<<c>>) + Len(s) :
             (<<c>> \o s)[i] = IF i <= Len(<<c>>) THEN <<c>>[i] ELSE s[i - Len(<<c>>)]
    BY <1>1, ConcatProperties
  <2>2. \A i \in 1 .. Len(s) : i + 1 \in 1 .. 1 + Len(s) /\ ~ (i + 1 <= 1) /\ (i + 1) - 1 = i
    BY <1>1
  <2> QED
    BY <1>1, <2>1, <2>2
<1>3. <<c>> \o s # <<>>
  BY <1>1, <1>2, EmptySeq
<1>4. /\ Tail(<<c>> \o s) \in Seq(Clients) /\ Len(Tail(<<c>> \o s)) = Len(s)
      /\ \A i \in 1 .. Len(s) : Tail(<<c>> \o s)[i] = s[i]
  <2>1. /\ Tail(<<c>> \o s) \in Seq(Clients)
        /\ Len(Tail(<<c>> \o s)) = Len(<<c>> \o s) - 1
        /\ \A i \in 1 .. Len(Tail(<<c>> \o s)) : Tail(<<c>> \o s)[i] = (<<c>> \o s)[i + 1]
    BY <1>2, <1>3, HeadTailProperties
  <2> QED
    BY <1>1, <1>2, <2>1
<1>5. Tail(<<c>> \o s) = s
  BY <1>4, SeqEqual
<1>6. Head(<<c>> \o s) = (<<c>> \o s)[1]
  BY <1>2, <1>3
<1> QED
  BY <1>2, <1>3, <1>5, <1>6

LEMMA JoinConcat ==
  ASSUME NEW s \in Seq(Clients), s # <<>>
  PROVE  <<Head(s)>> \o Tail(s) = s
<1>1. Len(s) \in Nat \ {0} /\ 1 \in 1 .. Len(s) /\ SubSeq(s, 1, Len(s)) = s
  BY EmptySeq, SubSeqFull
<1>2. Len(s) \in 1 .. Len(s)
  BY <1>1
<1>3. SubSeq(s, 1, Len(s)) = <<s[1]>> \o SubSeq(s, 1 + 1, Len(s))
  BY <1>1, <1>2, SubSeqRecursiveFirst
<1>4. Tail(s) = SubSeq(s, 2, Len(s)) /\ Head(s) = s[1]
  BY TailIsSubSeq
<1> QED
  BY <1>1, <1>3, <1>4

LEMMA AppendConcat ==
  ASSUME NEW s \in Seq(Clients), NEW t \in Seq(Clients), NEW c \in Clients
  PROVE  s \o Append(t, c) = Append(s \o t, c)
<1>1. s \o t \in Seq(Clients) /\ <<c>> \in Seq(Clients)
  BY ConcatProperties
<1>2. Append(t, c) = t \o <<c>>
  BY AppendIsConcat
<1>3. Append(s \o t, c) = (s \o t) \o <<c>>
  BY <1>1, AppendIsConcat
<1> QED
  BY <1>1, <1>2, <1>3, ConcatAssociative

-----------------------------------------------------------------------------
(* Permits and their holders.                                               *)

Same  == Holders' = Holders /\ permits' = permits
Lets  == /\ permits > 0 /\ permits' = permits - 1
         /\ \E c \in Clients \ Holders : Holders' = Holders \cup {c}
Frees == /\ permits' = permits + 1
         /\ \E c \in Holders : Holders' = Holders \ {c}

LEMMA HoldersFinite ==
  ASSUME TypeOK
  PROVE  IsFiniteSet(Holders) /\ Cardinality(Holders) \in Nat
<1>1. Holders \subseteq Clients
  BY HeldRange DEF Holders, Tasks
<1> QED
  BY <1>1, ServerAssumption, FS_Subset, FS_CardinalityType

LEMMA PermitsKept ==
  ASSUME TypeOK, PermitsConserved, Same \/ Lets \/ Frees
  PROVE  PermitsConserved' /\ permits' \in 0 .. Limit
<1>0. /\ IsFiniteSet(Holders) /\ Cardinality(Holders) \in Nat
      /\ permits \in 0 .. Limit /\ Limit \in Nat /\ permits + Cardinality(Holders) = Limit
  BY HoldersFinite, ServerAssumption DEF TypeOK, PermitsConserved
<1>1. CASE Same
  BY <1>0, <1>1 DEF Same, PermitsConserved
<1>2. CASE Lets
  <2>1. Cardinality(Holders)' = Cardinality(Holders) + 1
    BY <1>0, <1>2, FS_AddElement DEF Lets
  <2> QED
    BY <1>0, <1>2, <2>1 DEF Lets, PermitsConserved
<1>3. CASE Frees
  <2>1. PICK c \in Holders : Holders' = Holders \ {c}
    BY <1>3 DEF Frees
  <2>2. Cardinality(Holders)' = Cardinality(Holders) - 1
    BY <1>0, <2>1, FS_RemoveElement
  <2>3. Cardinality(Holders)' \in Nat
    BY <1>0, <2>1, FS_RemoveElement, FS_CardinalityType
  <2> QED
    BY <1>0, <1>3, <2>2, <2>3 DEF Frees, PermitsConserved
<1> QED
  BY <1>1, <1>2, <1>3

-----------------------------------------------------------------------------
(* CURR_CONNECTIONS.                                                        *)

\* How a step may change the sessions that are counted.
Keeps   == Counted' = Counted /\ curr' = curr /\ panics' = panics /\ (Running' => Running)
Adds    == /\ curr' = curr + 1 /\ panics' = panics /\ (Running' => Running)
           /\ \E c \in Clients \ Counted : Counted' = Counted \cup {c}
Removes == /\ \E c \in Counted : Counted' = Counted \ {c}
           /\ Running' => Running
           /\ \/ curr' = curr - 1 /\ panics' = panics
              \/ curr' = curr /\ panics' = panics + 1
              \/ curr' = curr /\ panics' = panics /\ ~ Running'

LEMMA CountedFinite == IsFiniteSet(Counted) /\ Cardinality(Counted) \in Nat
<1>1. Counted \subseteq Clients
  BY DEF Counted
<1> QED
  BY <1>1, ServerAssumption, FS_Subset, FS_CardinalityType

LEMMA CurrStep ==
  ASSUME TypeOK, CurrKept, Keeps \/ Adds \/ Removes
  PROVE  CurrKept' /\ curr' \in Nat
<1>0. /\ IsFiniteSet(Counted) /\ Cardinality(Counted) \in Nat
      /\ curr \in Nat /\ panics \in Nat
  BY CountedFinite DEF TypeOK
<1>1. CASE Keeps
  BY <1>0, <1>1 DEF Keeps, CurrKept
<1>2. CASE Adds
  <2>1. Cardinality(Counted)' = Cardinality(Counted) + 1
    BY <1>0, <1>2, FS_AddElement DEF Adds
  <2> QED
    BY <1>0, <1>2, <2>1 DEF Adds, CurrKept
<1>3. CASE Removes
  <2>1. PICK c \in Counted : Counted' = Counted \ {c}
    BY <1>3 DEF Removes
  <2>2. Cardinality(Counted)' = Cardinality(Counted) - 1 /\ Cardinality(Counted)' \in Nat
    BY <1>0, <2>1, FS_RemoveElement, FS_CardinalityType
  <2> QED
    BY <1>0, <1>3, <2>2 DEF Removes, CurrKept
<1> QED
  BY <1>1, <1>2, <1>3

-----------------------------------------------------------------------------
(* The actions, one by one.                                                 *)

\* What the invariant needs of a step.
Kept ==
  /\ Shape' /\ Apart' /\ TotalKept'
  /\ Same \/ Lets \/ Frees
  /\ Keeps \/ Adds \/ Removes

LEMMA KeptInv ==
  ASSUME Inv, Kept
  PROVE  Inv'
BY PermitsKept, CurrStep DEF Kept, Inv, Shape, TypeOK

LEMMA ConnectKept ==
  ASSUME Inv, NEW c \in Clients, Connect(c)
  PROVE  Kept
<1>1. /\ backlog' = Append(backlog, c) /\ backlog' \in Seq(Clients)
      /\ Len(backlog') = Len(backlog) + 1 /\ Len(backlog) \in Nat
      /\ \A i \in 1 .. Len(backlog) : backlog'[i] = backlog[i]
      /\ backlog'[Len(backlog) + 1] = c
  BY AppendProperties DEF Connect, Inv, TypeOK
<1>2. c \notin Range(held) /\ \A i \in 1 .. Len(backlog) : backlog[i] # c
  BY ConcatRange DEF Connect, Inv
<1>3. Shape'
  BY <1>1 DEF Connect, counters, Inv, TypeOK, Shape
<1>4. Apart'
  <2>1. \A i \in 1 .. Len(backlog') :
          i \in 1 .. Len(backlog) \/ (i = Len(backlog) + 1 /\ backlog'[i] = c)
    BY <1>1
  <2> QED
    BY <1>1, <1>2, <2>1 DEF Apart, Connect, Inv
<1>5. TotalKept'
  <2>1. /\ loop' = loop /\ total' = total /\ joins' = joins + 1
        /\ Len(backlog') = Len(backlog) + 1 /\ Len(backlog) \in Nat /\ joins \in Nat
        /\ process' = process
    BY <1>1 DEF Connect, counters, Inv, TypeOK
  <2>2. TotalKept /\ total \in Nat
    BY DEF Inv, TypeOK
  <2> QED
    BY <2>1, <2>2 DEF TotalKept, Running
<1>6. Same /\ Keeps
  BY DEF Same, Holders, Tasks, Keeps, Counted, Running, Connect, counters
<1> QED
  BY <1>3, <1>4, <1>5, <1>6 DEF Kept

\* The steps that move no connection.
LEMMA StillKept ==
  ASSUME Inv,
         \/ UNCHANGED vars \/ Abort \/ Exit
         \/ \E c \in Clients : Hangup(c)
  PROVE  Kept
<1>1. UNCHANGED <<backlog, loop, held, permits, session, total, curr, bounds>>
  BY DEF vars, accepting, counters, Abort, Exit, Hangup
<1>2. Shape'
  BY <1>1 DEF Inv, TypeOK, Shape, vars, Abort, Exit, Hangup, bounds
<1>3. Running' => Running
  BY DEF vars, Abort, Exit, Hangup, Running
<1> QED
  BY <1>1, <1>2, <1>3 DEF Kept, Inv, Apart, TotalKept, Same, Holders, Tasks, Keeps, Counted,
                          bounds

\* The steps of accept_loop outside its hands.
LEMMA PauseKept ==
  ASSUME Inv, AcceptFails \/ Retry
  PROVE  Kept
<1>1. /\ UNCHANGED <<backlog, held, permits, session, gone, total, curr, process>>
      /\ joins' = joins /\ panics' = panics /\ served' = served /\ errors' \in Nat
      /\ loop \in {"accept", "pause"} /\ loop' \in {"accept", "pause"}
  BY DEF AcceptFails, Retry, counters, bounds, Inv, TypeOK
<1>2. Shape'
  BY <1>1 DEF Inv, TypeOK, Shape
<1>3. Apart' /\ TotalKept' /\ Same /\ Keeps
  BY <1>1 DEF Inv, Apart, TotalKept, Running, Same, Holders, Tasks, Keeps, Counted
<1> QED
  BY <1>2, <1>3 DEF Kept

LEMMA AcceptKept ==
  ASSUME Inv, Accept
  PROVE  Kept
<1>1. /\ Tail(backlog) \in Seq(Clients) /\ Head(backlog) = backlog[1]
      /\ backlog[1] \in Clients
      /\ Len(backlog) \in Nat /\ 1 \in 1 .. Len(backlog)
      /\ Len(Tail(backlog)) = Len(backlog) - 1
      /\ \A i \in 1 .. Len(backlog) - 1 :
           Tail(backlog)[i] = backlog[i + 1] /\ i + 1 \in 1 .. Len(backlog) /\ i + 1 # 1
  BY HeadTailProperties DEF Accept, Inv, TypeOK
<1>2. held' = <<backlog[1]>> /\ backlog' = Tail(backlog) /\ session' = session
  BY <1>1 DEF Accept
<1>3. held' \in Seq(Clients) /\ Len(held') = 1 /\ Range(held') = {backlog[1]}
  BY <1>1, <1>2 DEF Range
<1>4. Shape'
  BY <1>1, <1>2, <1>3 DEF Accept, counters, bounds, Inv, TypeOK, Shape
<1>5. Apart'
  <2>1. \A i \in 1 .. Len(backlog') : session'[backlog'[i]] = "none" /\ backlog'[i] # backlog[1]
    BY <1>1, <1>2 DEF Inv, Apart
  <2>2. \A i, j \in 1 .. Len(backlog') : backlog'[i] = backlog'[j] => i = j
    BY <1>1, <1>2 DEF Inv, Apart
  <2>3. session'[backlog[1]] = "none"
    BY <1>1, <1>2 DEF Inv, Apart
  <2> QED
    BY <1>3, <2>1, <2>2, <2>3 DEF Apart
<1>6. TotalKept'
  BY <1>1, <1>2 DEF TotalKept, Running, Accept, counters, bounds, Inv, TypeOK
<1>7. Same /\ Keeps
  BY DEF Same, Holders, Tasks, Keeps, Counted, Running, Accept, counters, bounds
<1> QED
  BY <1>4, <1>5, <1>6, <1>7 DEF Kept

\* The socket in hand gets the permit.
LEMMA AcquireKept ==
  ASSUME Inv, Acquire
  PROVE  Kept
<1>1. /\ UNCHANGED <<backlog, held, session, gone, total, curr, process, joins, errors,
                     panics, served>>
      /\ loop = "permit" /\ loop' = "total" /\ permits > 0 /\ permits' = permits - 1
  BY DEF Acquire, counters, bounds
<1>2. Shape'
  BY <1>1 DEF Inv, TypeOK, Shape
<1>3. Apart' /\ TotalKept' /\ Keeps
  BY <1>1 DEF Inv, Apart, TotalKept, Running, Keeps, Counted
<1>4. Lets
  <2>1. held[1] \in Clients /\ Range(held) = {held[1]} /\ session[held[1]] = "none"
    BY <1>1, HeldRange DEF Inv, Apart
  <2>2. Holders = Tasks /\ Holders' = Tasks \cup {held[1]} /\ held[1] \notin Tasks
    BY <1>1, <2>1 DEF Holders, Tasks
  <2> QED
    BY <1>1, <2>1, <2>2 DEF Lets
<1> QED
  BY <1>2, <1>3, <1>4 DEF Kept

LEMMA CountTotalKept ==
  ASSUME Inv, CountTotal
  PROVE  Kept
<1>1. /\ UNCHANGED <<backlog, held, permits, session, gone, curr, process, joins, errors,
                     panics, served>>
      /\ loop = "total" /\ loop' = "curr" /\ total' = total + 1
  BY DEF CountTotal, bounds
<1>2. Shape'
  BY <1>1 DEF Inv, TypeOK, Shape
<1>3. Apart' /\ Same /\ Keeps
  BY <1>1 DEF Inv, Apart, Same, Holders, Tasks, Running, Keeps, Counted
<1>4. TotalKept'
  <2>1. total \in Nat /\ joins \in Nat /\ Len(backlog) \in Nat /\ TotalKept
    BY DEF Inv, TypeOK
  <2> QED
    BY <1>1, <2>1 DEF TotalKept, Running
<1> QED
  BY <1>2, <1>3, <1>4 DEF Kept

\* The socket in hand becomes a session.
LEMMA SpawnKept ==
  ASSUME Inv, Spawn
  PROVE  Kept
<1>1. /\ UNCHANGED <<backlog, permits, gone, total, process, joins, errors, panics, served>>
      /\ loop = "curr" /\ loop' = "accept" /\ curr' = curr + 1 /\ held' = <<>>
      /\ session' = [c \in Clients |-> IF c \in Range(held) THEN "idle" ELSE session[c]]
  BY DEF Spawn, bounds
<1>2. /\ held[1] \in Clients /\ Range(held) = {held[1]} /\ session[held[1]] = "none"
      /\ \A i \in 1 .. Len(backlog) : backlog[i] # held[1] /\ backlog[i] \in Clients
  BY <1>1, HeldRange DEF Inv, Apart, TypeOK
<1>3. \A c \in Clients : session'[c] = IF c = held[1] THEN "idle" ELSE session[c]
  BY <1>1, <1>2
<1>4. Range(held') = {} /\ Len(held') = 0 /\ held' \in Seq(Clients)
  BY <1>1 DEF Range
<1>5. Shape'
  BY <1>1, <1>4 DEF Inv, TypeOK, Shape
<1>6. Apart'
  BY <1>1, <1>2, <1>3, <1>4 DEF Inv, Apart
<1>7. TotalKept'
  BY <1>1 DEF Inv, TotalKept, Running
<1>8. Same
  <2>1. Tasks' = Tasks \cup {held[1]}
    BY <1>2, <1>3 DEF Tasks
  <2> QED
    BY <1>1, <1>2, <2>1 DEF Same, Holders
<1>9. Adds
  <2>1. Counted' = Counted \cup {held[1]} /\ held[1] \in Clients \ Counted
    BY <1>2, <1>3 DEF Counted
  <2> QED
    BY <1>1, <2>1 DEF Adds, Running
<1> QED
  BY <1>5, <1>6, <1>7, <1>8, <1>9 DEF Kept

-----------------------------------------------------------------------------
(* The steps of a session.                                                  *)

\* A step of c's task, to another place or to its end.
Moves(c, to) ==
  /\ UNCHANGED <<backlog, loop, held, gone, total, process, joins>>
  /\ errors' \in Nat /\ panics' \in Nat /\ served' \in Nat
  /\ session[c] # "none"
  /\ to \in {"none", "idle", "busy", "returned", "counted"}
  /\ session' = [session EXCEPT ![c] = to]

LEMMA MovesShape ==
  ASSUME Inv, NEW c \in Clients, NEW to, Moves(c, to)
  PROVE  /\ Shape' /\ Apart' /\ TotalKept'
         /\ \A d \in Clients : session'[d] = IF d = c THEN to ELSE session[d]
<1>1. session \in [Clients -> {"none", "idle", "busy", "returned", "counted"}]
  BY DEF Inv, TypeOK
<1>2. \A d \in Clients : session'[d] = IF d = c THEN to ELSE session[d]
  BY <1>1 DEF Moves
<1>3. session' \in [Clients -> {"none", "idle", "busy", "returned", "counted"}]
  BY <1>1 DEF Moves
<1>4. Shape'
  BY <1>3 DEF Moves, Inv, TypeOK, Shape
<1>5. /\ \A i \in 1 .. Len(backlog) : backlog[i] \in Clients
      /\ \A d \in Range(held) : d \in Clients
  BY RangeIs DEF Inv, TypeOK
<1>6. Apart'
  BY <1>2, <1>5 DEF Moves, Inv, Apart
<1>7. TotalKept'
  BY DEF Moves, Inv, TotalKept, Running
<1> QED
  BY <1>2, <1>4, <1>6, <1>7

\* c's task goes on, counted as it was.
LEMMA MovesOn ==
  ASSUME Inv, NEW c \in Clients, NEW to, Moves(c, to), to # "none", permits' = permits
  PROVE  Same
<1>1. Tasks' = Tasks
  BY MovesShape DEF Moves, Tasks
<1> QED
  BY <1>1 DEF Same, Holders, Moves

\* c's task ends and its permit is given back.
LEMMA MovesOut ==
  ASSUME Inv, NEW c \in Clients, Moves(c, "none"), permits' = permits + 1
  PROVE  Frees
<1>0. session[c] # "none" /\ \A d \in Clients : session'[d] = IF d = c THEN "none" ELSE session[d]
  BY MovesShape DEF Moves
<1>1. Tasks' = Tasks \ {c} /\ c \in Tasks
  BY <1>0 DEF Tasks
<1>2. c \notin Range(held) /\ Range(held') = Range(held) /\ loop' = loop
  BY DEF Inv, Apart, Moves
<1>3. Holders' = Holders \ {c} /\ c \in Holders
  BY <1>1, <1>2 DEF Holders
<1> QED
  BY <1>3 DEF Frees

LEMMA StaysCounted ==
  ASSUME Inv, NEW c \in Clients, NEW to, Moves(c, to), curr' = curr, panics' = panics,
         c \in Counted <=> to \in {"idle", "busy", "returned"}
  PROVE  Keeps
<1>1. Counted' = Counted
  BY MovesShape DEF Counted
<1> QED
  BY <1>1 DEF Keeps, Moves, Running

LEMMA CountedNoMore ==
  ASSUME Inv, NEW c \in Counted, NEW to, Moves(c, to), to \in {"counted", "none"}
  PROVE  (\E d \in Counted : Counted' = Counted \ {d}) /\ (Running' => Running)
<1>0. c \in Clients
  BY DEF Counted
<1>1. Counted' = Counted \ {c}
  BY <1>0, MovesShape DEF Counted
<1> QED
  BY <1>1 DEF Moves, Running

LEMMA SessionKept ==
  ASSUME Inv, NEW c \in Clients, Serve(c) \/ Panic(c) \/ Task(c)
  PROVE  Kept
<1>0. errors \in Nat /\ panics \in Nat /\ served \in Nat
  BY DEF Inv, TypeOK
<1>1. CASE Serve(c) \/ Served(c) \/ Return(c)
  <2>1. PICK to \in {"busy", "idle", "returned"} : session' = [session EXCEPT ![c] = to]
    BY <1>1 DEF Serve, Served, Return
  <2>2. /\ Moves(c, to) /\ permits' = permits /\ curr' = curr /\ panics' = panics
        /\ session[c] \in {"busy", "idle"}
    BY <1>0, <1>1, <2>1 DEF Moves, Serve, Served, Return, accepting, counters, bounds
  <2>3. c \in Counted
    BY <2>2 DEF Counted
  <2> QED
    BY <2>2, <2>3, MovesShape, MovesOn, StaysCounted DEF Kept
<1>2. CASE CountOff(c)
  <2>1. /\ Moves(c, "counted") /\ permits' = permits /\ curr' = curr - 1 /\ panics' = panics
        /\ session[c] = "returned"
    BY <1>0, <1>2 DEF Moves, CountOff, accepting, bounds
  <2>2. c \in Counted
    BY <2>1 DEF Counted
  <2> QED
    BY <2>1, <2>2, MovesShape, MovesOn, CountedNoMore DEF Kept, Removes
<1>3. CASE Release(c)
  <2>1. /\ Moves(c, "none") /\ permits' = permits + 1 /\ curr' = curr /\ panics' = panics
        /\ session[c] = "counted"
    BY <1>0, <1>3 DEF Moves, Release, accepting, counters, bounds
  <2>2. c \notin Counted
    BY <2>1 DEF Counted
  <2> QED
    BY <2>1, <2>2, MovesShape, MovesOut, StaysCounted DEF Kept
<1>4. CASE Panic(c)
  <2>1. /\ Moves(c, "none") /\ permits' = permits + 1 /\ curr' = curr
        /\ panics' = panics + 1 /\ session[c] = "busy"
    BY <1>0, <1>4 DEF Moves, Panic, accepting, counters
  <2>2. c \in Counted
    BY <2>1 DEF Counted
  <2> QED
    BY <2>1, <2>2, MovesShape, MovesOut, CountedNoMore DEF Kept, Removes
<1>5. CASE DropTask(c)
  <2>1. /\ Moves(c, "none") /\ permits' = permits + 1 /\ curr' = curr /\ panics' = panics
        /\ session[c] = "idle" /\ ~ Running'
    BY <1>0, <1>5 DEF Moves, DropTask, accepting, counters, bounds, Running
  <2>2. c \in Counted
    BY <2>1 DEF Counted
  <2> QED
    BY <2>1, <2>2, MovesShape, MovesOut, CountedNoMore DEF Kept, Removes
<1> QED
  BY <1>1, <1>2, <1>3, <1>4, <1>5 DEF Task

\* The signal: what accept_loop holds is dropped, and it has no permit.
LEMMA ShutdownKept ==
  ASSUME Inv, Shutdown
  PROVE  Kept
<1>1. /\ UNCHANGED <<permits, session, gone, total, curr, joins, errors, panics, served>>
      /\ loop \in {"accept", "pause", "permit"} /\ loop' = "dropped"
      /\ process = "up" /\ process' = "leaving" /\ held' = <<>> /\ backlog' = <<>>
  BY DEF Shutdown, Running, counters, bounds
<1>2. /\ backlog' \in Seq(Clients) /\ held' \in Seq(Clients)
      /\ Len(backlog') = 0 /\ Len(held') = 0 /\ Range(held') = {}
  BY <1>1 DEF Range
<1>3. Shape'
  BY <1>1, <1>2 DEF Inv, TypeOK, Shape
<1>4. Apart'
  BY <1>2 DEF Apart
<1>5. TotalKept' /\ Same /\ Keeps
  BY <1>1 DEF TotalKept, Running, Same, Holders, Tasks, Keeps, Counted
<1> QED
  BY <1>3, <1>4, <1>5 DEF Kept

-----------------------------------------------------------------------------
(* The theorems.                                                            *)

LEMMA InvInit ==
  ASSUME Init
  PROVE  Inv
<1>1. /\ backlog = <<>> /\ loop = "accept" /\ held = <<>> /\ permits = Limit
      /\ session = [c \in Clients |-> "none"] /\ gone = {} /\ process = "up"
      /\ total = 0 /\ curr = 0 /\ joins = 0 /\ errors = 0 /\ panics = 0 /\ served = 0
      /\ Len(backlog) = 0 /\ Len(held) = 0 /\ Range(held) = {} /\ Limit \in Nat
  BY ServerAssumption DEF Init, Range
<1>2. TypeOK
  BY <1>1 DEF TypeOK
<1>3. Holders = {} /\ Counted = {}
  BY <1>1 DEF Holders, Tasks, Counted
<1>4. Cardinality({}) = 0
  BY FS_EmptySet
<1>5. PermitsConserved /\ CurrKept
  BY <1>1, <1>3, <1>4 DEF PermitsConserved, CurrKept
<1>6. Apart
  <2>1. 1 .. Len(backlog) = {}
    BY <1>1
  <2> QED
    BY <1>1, <2>1 DEF Apart
<1>7. TotalKept
  <2>1. total = 0 /\ joins = 0 /\ Len(backlog) = 0 /\ loop \notin {"permit", "total"}
    BY <1>1
  <2>2. 0 = 0 - 0 - 0
    OBVIOUS
  <2> QED
    BY <2>1, <2>2 DEF TotalKept
<1> QED
  BY <1>2, <1>5, <1>6, <1>7 DEF Inv

LEMMA InvNext ==
  ASSUME Inv, [Next]_vars
  PROVE  Inv'
<1>1. Kept
  BY ConnectKept, StillKept, PauseKept, AcceptKept, AcquireKept, CountTotalKept, SpawnKept,
     SessionKept, ShutdownKept
     DEF Next, AcceptLoop, Rest
<1> QED
  BY <1>1, KeptInv

THEOREM ServerInv == Spec => []Inv
BY InvInit, InvNext, PTL DEF Spec

\* The permits that are left, with the connections that have one, are always
\* max_connections (the semaphore of accept_loop).
THEOREM PermitsAreConserved == Spec => []PermitsConserved
<1>1. Inv => PermitsConserved
  BY DEF Inv
<1> QED
  BY ServerInv, <1>1, PTL

\* The shape of the state; so the permits stay between 0 and max_connections.
THEOREM ServerType == Spec => []TypeOK
<1>1. Inv => TypeOK
  BY DEF Inv
<1> QED
  BY ServerInv, <1>1, PTL

\* While the server runs, TOTAL_CONNECTIONS and CURR_CONNECTIONS are what the
\* connections make them.
THEOREM CountersAlwaysFollow == Spec => []CountersFollow
<1>1. Inv => CountersFollow
  BY DEF Inv, TotalKept, CurrKept, CountersFollow
<1> QED
  BY ServerInv, <1>1, PTL

-----------------------------------------------------------------------------
(* The server is a turnstile.                                               *)

\* An end of the process closes the gate.
LEMMA ClosesGate ==
  ASSUME Inv, ~ Running', Same \/ Frees
  PROVE  Gate!Next
<1>1. Holders' \subseteq Holders
  BY DEF Same, Frees
<1> QED
  BY <1>1 DEF Gate!Next, Gate!Close

LEMMA KeepsGate ==
  ASSUME Same, Running' = Running, Line' = Line
  PROVE  UNCHANGED Gate!vars
BY DEF Same, Gate!vars

LEMMA LeavesGate ==
  ASSUME Inv, Frees, Running' = Running, Line' = Line
  PROVE  Gate!Next
<1>1. PICK c \in Holders : Holders' = Holders \ {c}
  BY DEF Frees
<1>2. c \in Clients
  BY HeldRange DEF Holders, Tasks, Inv
<1>3. Gate!Leave(c)
  BY <1>1 DEF Gate!Leave
<1> QED
  BY <1>2, <1>3 DEF Gate!Next

LEMMA ConnectJoins ==
  ASSUME Inv, NEW c \in Clients, Connect(c)
  PROVE  Gate!Next
<1>1. /\ held' = held /\ loop' = loop /\ session' = session /\ process' = process
      /\ process = "up" /\ backlog' = Append(backlog, c) /\ session[c] = "none"
  BY DEF Connect
<1>2. held \in Seq(Clients) /\ backlog \in Seq(Clients) /\ Line \in Seq(Clients)
  BY ConcatProperties DEF Inv, TypeOK, Line
<1>3. Line' = Append(Line, c)
  BY <1>1, <1>2, AppendConcat DEF Line
<1>4. c \notin Range(held) /\ \A i \in 1 .. Len(backlog) : backlog[i] # c
  BY ConcatRange DEF Connect, Inv
<1>5. c \notin Holders /\ Holders' = Holders
  BY <1>1, <1>4 DEF Holders, Tasks
<1>6. \A i \in DOMAIN Line : Line[i] # c
  <2>1. c \notin Range(backlog) /\ c \notin Range(held \o backlog)
    BY <1>2, <1>4, RangeIs DEF Connect
  <2>2. c \notin Range(Line)
    BY <2>1 DEF Line
  <2> QED
    BY <1>2, <2>2, RangeIs
<1>7. Gate!Join(c)
  BY <1>1, <1>3, <1>5, <1>6 DEF Gate!Join, Running
<1> QED
  BY <1>7 DEF Gate!Next

LEMMA AcquireEnters ==
  ASSUME Inv, Acquire
  PROVE  Gate!Next
<1>1. /\ process = "up" /\ process' = "up" /\ loop = "permit" /\ loop' = "total"
      /\ permits > 0 /\ held' = held /\ backlog' = backlog /\ session' = session
  BY DEF Acquire, Running, counters
<1>2. /\ held[1] \in Clients /\ held = <<held[1]>> /\ Range(held) = {held[1]}
      /\ backlog \in Seq(Clients)
  BY <1>1, HeldRange DEF Inv, TypeOK
<1>3. Line = <<held[1]>> \o backlog /\ Line' = backlog
  BY <1>1, <1>2 DEF Line
<1>4. Head(Line) = held[1] /\ Tail(Line) = backlog /\ Line # <<>>
  BY <1>2, <1>3, SplitConcat
<1>5. Cardinality(Holders) < Limit
  BY <1>1, HoldersFinite, ServerAssumption DEF Inv, PermitsConserved, TypeOK
<1>6. Holders' = Holders \cup {held[1]}
  BY <1>1, <1>2 DEF Holders, Tasks
<1>7. Gate!Enter
  <2>1. Gate!Cardinality(Holders) = Cardinality(Holders)
    BY DEF Gate!Cardinality, Cardinality
  <2> QED
    BY <1>1, <1>3, <1>4, <1>5, <1>6, <2>1 DEF Gate!Enter, Running
<1> QED
  BY <1>7 DEF Gate!Next

LEMMA LoopKeepsLine ==
  ASSUME Inv, Accept \/ AcceptFails \/ Retry \/ CountTotal \/ Spawn
  PROVE  Same /\ Running' = Running /\ Line' = Line
<1>1. Running' = Running
  BY DEF Accept, AcceptFails, Retry, CountTotal, Spawn, Running, counters
<1>2. Same
  <2>1. Accept \/ AcceptFails \/ Retry \/ CountTotal => UNCHANGED <<session, permits>>
    BY DEF Accept, AcceptFails, Retry, CountTotal
  <2>2. /\ Accept \/ AcceptFails \/ Retry =>
             loop \notin {"total", "curr"} /\ loop' \notin {"total", "curr"}
        /\ CountTotal => loop = "total" /\ loop' = "curr" /\ held' = held
    BY DEF Accept, AcceptFails, Retry, CountTotal
  <2>3. Spawn => Same
    <3>1. SUFFICES ASSUME Spawn PROVE Same
      OBVIOUS
    <3>2. loop = "curr" /\ loop' = "accept" /\ permits' = permits
      BY <3>1 DEF Spawn
    <3>3. Range(held) \subseteq Clients
      BY RangeIs DEF Inv, TypeOK
    <3>4. session' = [c \in Clients |-> IF c \in Range(held) THEN "idle" ELSE session[c]]
      BY <3>1 DEF Spawn
    <3>5. Tasks' = Tasks \cup Range(held)
      BY <3>3, <3>4 DEF Tasks
    <3> QED
      BY <3>2, <3>5 DEF Same, Holders
  <2> QED
    BY <2>1, <2>2, <2>3 DEF Same, Holders, Tasks
<1>3. Accept => Line' = Line
  <2>1. backlog \in Seq(Clients)
    BY DEF Inv, TypeOK
  <2> QED
    BY <2>1, JoinConcat DEF Accept, Line
<1>4. AcceptFails \/ Retry \/ CountTotal \/ Spawn => Line' = Line
  BY DEF AcceptFails, Retry, CountTotal, Spawn, Line
<1> QED
  BY <1>1, <1>2, <1>3, <1>4

LEMMA SessionKeepsLine ==
  ASSUME NEW c \in Clients, Serve(c) \/ Panic(c) \/ Task(c) \/ Hangup(c)
  PROVE  Running' = Running /\ Line' = Line
BY DEF Serve, Panic, Task, Served, Return, CountOff, Release, DropTask, Hangup, Running, Line,
       accepting

LEMMA StepsGate ==
  ASSUME Inv, [Next]_vars
  PROVE  Gate!Next \/ UNCHANGED Gate!vars
<1>1. CASE \E c \in Clients : Connect(c)
  BY <1>1, ConnectJoins
<1>2. CASE Acquire
  BY <1>2, AcquireEnters
<1>3. CASE Accept \/ AcceptFails \/ Retry \/ CountTotal \/ Spawn
  BY <1>3, LoopKeepsLine, KeepsGate
<1>4. CASE \E c \in Clients : Serve(c) \/ Panic(c) \/ Task(c) \/ Hangup(c)
  <2>1. PICK c \in Clients : Serve(c) \/ Panic(c) \/ Task(c) \/ Hangup(c)
    BY <1>4
  <2>2. Running' = Running /\ Line' = Line
    BY <2>1, SessionKeepsLine
  <2>3. Same \/ Frees
    <3>1. Lets => Acquire \/ permits' < permits
      BY DEF Lets, Inv, TypeOK
    <3>2. permits' = permits \/ permits' = permits + 1
      BY <2>1 DEF Serve, Panic, Task, Served, Return, CountOff, Release, DropTask, Hangup
    <3>3. ~ Lets
      BY <3>2 DEF Lets, Inv, TypeOK
    <3> QED
      BY <2>1, <3>3, SessionKept, StillKept DEF Kept
  <2> QED
    BY <2>2, <2>3, KeepsGate, LeavesGate
<1>5. CASE Abort \/ Shutdown \/ Exit
  <2>1. ~ Running'
    BY <1>5 DEF Abort, Shutdown, Exit, Running
  <2>2. Same
    BY <1>5 DEF Abort, Shutdown, Exit, Same, Holders, Tasks, accepting
  <2> QED
    BY <2>1, <2>2, ClosesGate
<1>6. CASE UNCHANGED vars
  BY <1>6 DEF vars, accepting, Gate!vars, Running, Line, Holders, Tasks
<1> QED
  BY <1>1, <1>2, <1>3, <1>4, <1>5, <1>6 DEF Next, AcceptLoop, Rest

\* The accept loop and the semaphore let the connections in in the order in
\* which they came, at most max_connections at a time, until run returns.
THEOREM ServerIsTurnstile == Spec => IsTurnstile
<1>1. Init => Gate!Init
  <2>1. SUFFICES ASSUME Init PROVE Gate!Init
    OBVIOUS
  <2>2. Holders = {} /\ Line = <<>> /\ Running
    BY <2>1 DEF Init, Holders, Tasks, Line, Running
  <2> QED
    BY <2>2 DEF Gate!Init
<1>2. Inv /\ [Next]_vars => [Gate!Next]_(Gate!vars)
  BY StepsGate
<1> QED
  BY ServerInv, <1>1, <1>2, PTL DEF Spec, IsTurnstile, Gate!Spec
=============================================================================
