---------------------------- MODULE AtomicCache ----------------------------
(***************************************************************************)
(* What the store promises to concurrent callers: each call deals with     *)
(* each of its keys in one atomic step, as the sequential meaning of the   *)
(* command says (After, Answer), and every version that is written carries *)
(* a token that was never spent before.                                    *)
(*                                                                         *)
(* It is a cache: an item may be lost at any moment, because it has        *)
(* expired, was flushed, or was evicted, and what is lost never comes back.*)
(* A call that has missed its key may answer so later, when the key has    *)
(* an item again.  An add that has missed may be refused although it never *)
(* met an item.                                                            *)
(***************************************************************************)
EXTENDS Items

CONSTANTS Threads, Keys, Commands, Nop

VARIABLES
  cache,   \* for each key, the version in it if any: data and token
  spent,   \* tokens that name a version no more, or never will
  phase,   \* of each thread's call: idle, called, or missed
  cmd, todo,
  reply, values

calls == <<phase, cmd, todo, reply, values>>
vars  == <<cache, spent, calls>>

Init ==
  /\ cache = [k \in Keys |-> None] /\ spent = {}
  /\ phase = [t \in Threads |-> "idle"]
  /\ cmd = [t \in Threads |-> Nop] /\ todo = [t \in Threads |-> <<>>]
  /\ reply = [t \in Threads |-> "none"] /\ values = [t \in Threads |-> {}]

-----------------------------------------------------------------------------
(* The sequential meaning of a command on one key that holds `old`.        *)

Retrievals == {"get", "gat"}
Numeric(v) == ParseU64(v.data) # None

Computed(c, n) ==
  FormatU64(IF c.op = "incr" THEN WrappingAdd(n, c.delta) ELSE SaturatingSub(n, c.delta))

\* What the key holds afterwards, its new version having this token.
After(c, old, token) ==
  LET new(data) == [data |-> data, cas |-> token]
  IN  CASE c.op = "get"              -> old
        [] c.op \in {"gat", "touch"} -> {new(v.data) : v \in old}
        [] c.op = "set"              -> {new(c.data)}
        [] c.op = "add"              -> IF old = None THEN {new(c.data)} ELSE old
        [] c.op = "replace"          -> {new(c.data) : v \in old}
        [] c.op = "append"           -> {new(v.data \o c.data) : v \in old}
        [] c.op = "prepend"          -> {new(c.data \o v.data) : v \in old}
        [] c.op = "cas"    -> {IF v.cas = c.token THEN new(c.data) ELSE v : v \in old}
        [] c.op = "delete" -> None
        [] c.op \in {"incr", "decr"} ->
             UNION {IF Numeric(v) THEN {new(Computed(c, n)) : n \in ParseU64(v.data)}
                                  ELSE {v} : v \in old}

\* Whether it writes a version.
Writes(c, old) ==
  CASE c.op \in {"get", "delete"} -> FALSE
    [] c.op = "set"               -> TRUE
    [] c.op = "add"               -> old = None
    [] c.op \in {"gat", "touch", "replace", "append", "prepend"} -> old # None
    [] c.op = "cas"               -> \E v \in old : v.cas = c.token
    [] c.op \in {"incr", "decr"}  -> \E v \in old : Numeric(v)

Answer(c, old) ==
  CASE c.op \in Retrievals -> "Values"
    [] c.op = "set"        -> "Stored"
    [] c.op = "add"        -> IF old = None THEN "Stored" ELSE "NotStored"
    [] c.op \in {"replace", "append", "prepend"} ->
         IF old = None THEN "NotStored" ELSE "Stored"
    [] c.op = "cas"    -> IF old = None THEN "NotFound"
                          ELSE IF Writes(c, old) THEN "Stored" ELSE "Exists"
    [] c.op = "delete" -> IF old = None THEN "NotFound" ELSE "Deleted"
    [] c.op = "touch"  -> IF old = None THEN "NotFound" ELSE "Touched"
    [] c.op \in {"incr", "decr"} -> IF old = None THEN "NotFound"
                          ELSE IF Writes(c, old) THEN "Number" ELSE "ClientError"

\* The answer of a call that has missed its key and left it alone.
Missed(c) == IF c.op = "add" THEN "NotStored" ELSE Answer(c, None)

-----------------------------------------------------------------------------
Begin(t, c) ==
  /\ phase[t] = "idle"
  /\ phase' = [phase EXCEPT ![t] = "called"]
  /\ cmd' = [cmd EXCEPT ![t] = c] /\ todo' = [todo EXCEPT ![t] = c.keys]
  /\ reply' = [reply EXCEPT ![t] = "none"] /\ values' = [values EXCEPT ![t] = {}]
  /\ UNCHANGED <<cache, spent>>

Return(t, answer) ==
  /\ phase' = [phase EXCEPT ![t] = "idle"]
  /\ cmd' = [cmd EXCEPT ![t] = Nop] /\ todo' = [todo EXCEPT ![t] = <<>>]
  /\ reply' = [reply EXCEPT ![t] = answer]

\* On to the next key of a retrieval, or the answer.
Done(t, answer, got) ==
  /\ values' = [values EXCEPT ![t] = @ \cup got]
  /\ IF cmd[t].op \in Retrievals /\ Tail(todo[t]) # <<>>
       THEN /\ phase' = [phase EXCEPT ![t] = "called"]
            /\ todo' = [todo EXCEPT ![t] = Tail(@)]
            /\ UNCHANGED <<cmd, reply>>
       ELSE Return(t, answer)

Key(t) == Head(todo[t])

\* Each key that is not written keeps its version or loses it.
Keeps(ks) == \A k \in ks : cache'[k] \in {cache[k], None}

\* The atomic step of a call on a key, which may have lost its item just before,
\* and may lose the new one at once.
Access(t) ==
  /\ cmd[t].op # "flush_all"
  /\ \/ phase[t] = "called"
     \/ phase[t] = "missed" /\ cmd[t].op = "add" /\ cache[Key(t)] = None
  /\ spent \subseteq spent'
  /\ \E old \in {cache[Key(t)], None} :
     \E token \in IF Writes(cmd[t], old) THEN spent' \ spent ELSE {0} :
       LET new == After(cmd[t], old, token)
       IN  /\ cache' = [k \in Keys |-> cache'[k]]
           /\ cache'[Key(t)] \in {new, None}
           /\ Keeps(Keys \ {Key(t)})
           /\ Done(t, Answer(cmd[t], old),
                   IF cmd[t].op \notin Retrievals THEN {}
                   ELSE {[key |-> Key(t), data |-> v.data, cas |-> v.cas] : v \in new})

Miss(t) ==
  /\ phase[t] = "called" /\ cmd[t].op \notin {"set", "delete", "flush_all"}
  /\ cache[Key(t)] = None
  /\ phase' = [phase EXCEPT ![t] = "missed"]
  /\ UNCHANGED <<cache, spent, cmd, todo, reply, values>>

AnswerMiss(t) ==
  /\ phase[t] = "missed"
  /\ Done(t, Missed(cmd[t]), {})
  /\ spent \subseteq spent'
  /\ UNCHANGED cache

AnswerFlush(t) ==
  /\ phase[t] = "called" /\ cmd[t].op = "flush_all"
  /\ Return(t, "Ok")
  /\ UNCHANGED <<cache, spent, values>>

Lose ==
  /\ cache' = [k \in Keys |-> cache'[k]]
  /\ Keeps(Keys)
  /\ UNCHANGED <<spent, calls>>

Next ==
  \/ \E t \in Threads :
       (\E c \in Commands : Begin(t, c)) \/ Access(t) \/ Miss(t) \/ AnswerMiss(t)
         \/ AnswerFlush(t)
  \/ Lose

Spec == Init /\ [][Next]_vars
=============================================================================
