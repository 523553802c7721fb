---------------------------- MODULE StoreRefines ----------------------------
(***************************************************************************)
(* Store implements AtomicCache, for any threads, keys, calls and bounds.  *)
(* A call that finds its key vacant takes the step Miss; dropping the      *)
(* placeholder answers it; every other step of a method is its Access;     *)
(* the snapshot is a stutter and the clearing of a shard a loss.           *)
(***************************************************************************)
EXTENDS StoreSafety

\* A flush has its own label, and a thread has no token before it is at a key.
CallPhases ==
  \A t \in Threads :
    /\ pc[t] = "flush" => cmd[t].op = "flush_all"
    /\ pc[t] \notin {"entry", "vacant"} => cas[t] = 0

Refinable == Safe /\ CallPhases

-----------------------------------------------------------------------------
(* The view.                                                                *)

\* What the caller sees of some items of a key.
Seen(found) == {[data |-> i.data, cas |-> i.cas] : i \in found}

LEMMA ViewIs ==
  /\ View = [k \in Keys |-> Seen(items[k])]
  /\ View' = [k \in Keys |-> Seen(items'[k])]
BY DEF View, Seen

LEMMA KeepsThem ==
  ASSUME NEW ks \in SUBSET Keys, \A x \in ks : items'[x] \in {items[x], None}
  PROVE  Atomic!Keeps(ks)
<1>1. ASSUME NEW x \in ks PROVE View'[x] \in {View[x], Atomic!None}
  <2>1. View[x] = Seen(items[x]) /\ View'[x] = Seen(items'[x])
    BY ViewIs
  <2>2. Seen(None) = Atomic!None
    BY DEF Seen, None, Atomic!None
  <2>3. CASE items'[x] = items[x]
    BY <2>1, <2>3
  <2>4. CASE items'[x] = None
    BY <2>1, <2>2, <2>4
  <2> QED
    BY <2>3, <2>4
<1> QED
  BY <1>1 DEF Atomic!Keeps

LEMMA PhaseIs ==
  ASSUME NEW t \in Threads, pc \in [Threads -> Labels], NEW p,
         pc' = [pc EXCEPT ![t] = p]
  PROVE  /\ p = "idle" => Phase' = [Phase EXCEPT ![t] = "idle"]
         /\ p = "vacant" => Phase' = [Phase EXCEPT ![t] = "missed"]
         /\ p \in {"entry", "oldest", "token", "flush"}
              => Phase' = [Phase EXCEPT ![t] = "called"]
BY DEF Phase

\* Answering, as the atomic cache does it.
LEMMA ReplyDone ==
  ASSUME TypedCalls, NEW t \in Threads, NEW r, NEW counters, Reply(t, r, counters),
         cmd[t].op \notin {"get", "gat"}
  PROVE  Atomic!Done(t, r, {})
<1>1. Phase' = [Phase EXCEPT ![t] = "idle"]
  BY PhaseIs DEF Reply, Leave, TypedCalls, TypeOK, CallsOK, Labels
<1>2. values' = [values EXCEPT ![t] = @ \cup {}]
  BY DEF Reply, TypedCalls, TypeOK, CallsOK
<1> QED
  BY <1>1, <1>2 DEF Reply, Leave, Atomic!Done, Atomic!Return, Atomic!Retrievals

LEMMA NextKeyDone ==
  ASSUME TypedCalls, NEW t \in Threads, NEW got, NEW counters,
         NextKey(t, got, counters), cmd[t].op \in {"get", "gat"}
  PROVE  Atomic!Done(t, "Values", got)
<1>1. CASE Tail(todo[t]) = <<>>
  <2>1. Phase' = [Phase EXCEPT ![t] = "idle"]
    BY <1>1, PhaseIs DEF NextKey, Leave, TypedCalls, TypeOK, CallsOK, Labels
  <2> QED
    BY <1>1, <2>1 DEF NextKey, Leave, Atomic!Done, Atomic!Return, Atomic!Retrievals
<1>2. CASE Tail(todo[t]) # <<>>
  <2>1. Phase' = [Phase EXCEPT ![t] = "called"]
    BY <1>2, PhaseIs DEF NextKey, TypedCalls, TypeOK, CallsOK, Labels
  <2> QED
    BY <1>2, <2>1 DEF NextKey, Atomic!Done, Atomic!Return, Atomic!Retrievals
<1> QED
  BY <1>1, <1>2

-----------------------------------------------------------------------------
(* Tokens.                                                                  *)

LEMMA SpentGrows ==
  ASSUME Safe, NEW t \in Threads, NEW new, Tokens(t, new), OthersStay(t)
  PROVE  Spent \subseteq Spent' /\ \A i \in new : i.cas \in Spent' \ Spent
<1>1. next_cas \in Nat \ {0} /\ \A u \in Threads : cas[u] \in Nat
  BY DEF Safe, TypedCalls, TypeOK, CacheOK, CallsOK
<1>2. \A u \in Threads : \A c \in Pending(u) : c < next_cas
  BY DEF Safe, TokensAreFresh
<1>3. ASSUME NEW u \in Threads, NEW c \in Pending(u)'
      PROVE  c \in Pending(u)
  BY <1>3 DEF Pending, OthersStay, Tokens
<1>4. Spent \subseteq Spent'
  BY <1>1, <1>3 DEF Spent, Tokens
<1>5. ASSUME NEW i \in new PROVE i.cas \in Spent' /\ i.cas \notin Spent
  <2>1. i.cas \in Spent'
    BY NewTokenFresh DEF Spent
  <2>2. i.cas \in Pending(t) \/ i.cas = next_cas
    BY <1>5 DEF Tokens, Pending
  <2> QED
    BY <1>1, <2>1, <2>2 DEF Spent
<1> QED
  BY <1>4, <1>5

-----------------------------------------------------------------------------
(* The steps of a call that write nothing.                                  *)

\* A thread at its key is called, or missed, in the atomic cache.
LEMMA AtKey ==
  ASSUME Safe, NEW t \in Threads, pc[t] \in {"entry", "vacant"}
  PROVE  /\ Working(t) /\ Key(t) \in Keys /\ Atomic!Key(t) = Key(t)
         /\ pc[t] = "entry" => Phase[t] = "called"
         /\ pc[t] = "vacant" => Phase[t] = "missed"
BY AtWork, KeyType DEF Safe, TypedCalls, Atomic!Key, Key, Phase

LEMMA VacantMisses ==
  ASSUME Safe, NEW t \in Threads, EntryVacant(t),
         cmd[t].op \notin {"set", "delete", "flush_all"}
  PROVE  Atomic!Miss(t)
<1>1. pc[t] = "entry" /\ items[Key(t)] = None
  BY DEF EntryVacant, AtEntry
<1>2. Phase[t] = "called" /\ View[Atomic!Key(t)] = Atomic!None
  BY <1>1, AtKey, ViewIs DEF Seen, None, Atomic!None
<1>3. Phase' = [Phase EXCEPT ![t] = "missed"]
  BY PhaseIs DEF EntryVacant, Safe, TypedCalls, TypeOK, CallsOK, Labels
<1>4. View' = View /\ Spent' = Spent
  BY DEF EntryVacant, View, Spent, Pending
<1> QED
  BY <1>2, <1>3, <1>4 DEF EntryVacant, client, Atomic!Miss

\* What a step leaves of the other keys, and of the tokens.
LEMMA EndsSpent ==
  ASSUME Safe, NEW t \in Threads, Ends(t), next_cas' = next_cas
  PROVE  Spent \subseteq Spent'
BY SpentGrows DEF Ends, Tokens

LEMMA DropAnswers ==
  ASSUME Safe, NEW t \in Threads, DropGuard(t), Ends(t),
         Atomic!Done(t, Atomic!Missed(cmd[t]), {})
  PROVE  Atomic!AnswerMiss(t)
<1>1. Phase[t] = "missed" /\ items' = items /\ next_cas' = next_cas
  BY AtKey DEF DropGuard
<1>2. View' = View
  BY <1>1 DEF View
<1> QED
  BY <1>1, <1>2, EndsSpent DEF Atomic!AnswerMiss

\* What append and prepend make of the version they meet.
Joined(c, data) == IF c.op = "append" THEN data \o c.data ELSE c.data \o data

LEMMA Joins ==
  ASSUME NEW c, c.op \in {"append", "prepend"}, NEW v, NEW token,
         NEW new, new = [data |-> Joined(c, v.data), cas |-> token]
  PROVE  Atomic!After(c, {v}, token) = {new}
<1>1. CASE c.op = "append"
  BY <1>1 DEF Atomic!After, Joined
<1>2. CASE c.op = "prepend"
  BY <1>2 DEF Atomic!After, Joined
<1> QED
  BY <1>1, <1>2

\* The atomic step of a call that is at its key, in terms of Store.
LEMMA AccessStep ==
  ASSUME Safe, NEW t \in Threads, cmd[t].op # "flush_all",
         \/ pc[t] = "entry"
         \/ pc[t] = "vacant" /\ cmd[t].op = "add" /\ items[Key(t)] = None,
         NEW old \in {Seen(items[Key(t)]), None},
         NEW token \in IF Atomic!Writes(cmd[t], old) THEN Spent' \ Spent ELSE {0},
         Spent \subseteq Spent',
         Seen(items'[Key(t)]) \in {Atomic!After(cmd[t], old, token), None},
         \A x \in Keys \ {Key(t)} : items'[x] \in {items[x], None},
         Atomic!Done(t, Atomic!Answer(cmd[t], old),
           IF cmd[t].op \notin Atomic!Retrievals THEN {}
           ELSE {[key |-> Key(t), data |-> v.data, cas |-> v.cas] :
                   v \in Atomic!After(cmd[t], old, token)})
  PROVE  Atomic!Access(t)
<1>1. /\ Key(t) \in Keys /\ Atomic!Key(t) = Key(t)
      /\ \/ Phase[t] = "called"
         \/ Phase[t] = "missed" /\ cmd[t].op = "add" /\ View[Atomic!Key(t)] = Atomic!None
  BY AtKey, ViewIs DEF Seen, None, Atomic!None
<1>2. /\ View' = [k \in Keys |-> View'[k]]
      /\ View[Key(t)] = Seen(items[Key(t)]) /\ View'[Key(t)] = Seen(items'[Key(t)])
  BY <1>1, ViewIs
<1>3. Atomic!Keeps(Keys \ {Key(t)})
  <2> DEFINE others == Keys \ {Key(t)}
  <2>1. others \in SUBSET Keys /\ \A x \in others : items'[x] \in {items[x], None}
    OBVIOUS
  <2> HIDE DEF others
  <2>2. Atomic!Keeps(others)
    BY <2>1, KeepsThem
  <2> QED
    BY <2>2 DEF others
<1>4. old \in {View[Key(t)], Atomic!None} /\ None = Atomic!None
  BY <1>2 DEF None, Atomic!None
<1>5. \E o \in {View[Atomic!Key(t)], Atomic!None} :
        \E k \in IF Atomic!Writes(cmd[t], o) THEN Spent' \ Spent ELSE {0} :
          LET new == Atomic!After(cmd[t], o, k)
          IN  /\ View' = [x \in Keys |-> View'[x]]
              /\ View'[Atomic!Key(t)] \in {new, Atomic!None}
              /\ Atomic!Keeps(Keys \ {Atomic!Key(t)})
              /\ Atomic!Done(t, Atomic!Answer(cmd[t], o),
                   IF cmd[t].op \notin Atomic!Retrievals THEN {}
                   ELSE {[key |-> Atomic!Key(t), data |-> v.data, cas |-> v.cas] : v \in new})
  <2>1. View'[Atomic!Key(t)] \in {Atomic!After(cmd[t], old, token), Atomic!None}
    BY <1>1, <1>2, <1>4
  <2>2. old \in {View[Atomic!Key(t)], Atomic!None}
    BY <1>1, <1>4
  <2>3. Atomic!Keeps(Keys \ {Atomic!Key(t)})
    BY <1>1, <1>3
  <2>4. LET new == Atomic!After(cmd[t], old, token)
        IN  /\ View' = [x \in Keys |-> View'[x]]
            /\ View'[Atomic!Key(t)] \in {new, Atomic!None}
            /\ Atomic!Keeps(Keys \ {Atomic!Key(t)})
            /\ Atomic!Done(t, Atomic!Answer(cmd[t], old),
                 IF cmd[t].op \notin Atomic!Retrievals THEN {}
                 ELSE {[key |-> Atomic!Key(t), data |-> v.data, cas |-> v.cas] : v \in new})
    BY <1>1, <1>2, <2>1, <2>3
  <2> QED
    BY <2>2, <2>4, Zenon
<1> QED
  BY <1>1, <1>5 DEF Atomic!Access

\* The expired item that a callback removes was lost just before.
LEMMA RemovedAccess ==
  ASSUME Safe, NEW t \in Threads, EntryRemoved(t), Ends(t),
         cmd[t].op \notin {"set", "add", "flush_all"}, cmd[t].op \in Ops,
         Atomic!Done(t, Atomic!Answer(cmd[t], None), {})
  PROVE  Atomic!Access(t)
<1>1. /\ pc[t] = "entry" /\ next_cas' = next_cas
      /\ items' = [items EXCEPT ![Key(t)] = None] /\ Key(t) \in Keys
      /\ items \in [Keys -> Option(Item)]
  BY AtKey DEF EntryRemoved, AtEntry, Safe, TypedCalls, TypeOK, CacheOK
<1>2. Spent \subseteq Spent'
  BY <1>1, EndsSpent
<1>3. ~ Atomic!Writes(cmd[t], None) /\ Atomic!After(cmd[t], None, 0) = None
  BY DEF Atomic!Writes, Atomic!After, None, Atomic!None, Ops, TokenOps, Retrievals
<1>4. Seen(items'[Key(t)]) = None /\ \A x \in Keys \ {Key(t)} : items'[x] = items[x]
  BY <1>1 DEF Seen, None
<1>5. {[key |-> Key(t), data |-> v.data, cas |-> v.cas] : v \in None} = {}
  BY DEF None
<1> QED
  BY <1>1, <1>2, <1>3, <1>4, <1>5, AccessStep

-----------------------------------------------------------------------------
(* The steps of a call that meets an item, or writes one.                   *)

LEMMA OptionShrinks ==
  ASSUME NEW S, NEW old \in Option(S), NEW new, new \subseteq old
  PROVE  new \in {old, None}
<1>1. CASE new = {}
  BY <1>1 DEF None
<1>2. ASSUME NEW x \in new PROVE new = old
  <2>1. \A y \in old : y = x
    BY DEF Option
  <2> QED
    BY <2>1
<1> QED
  BY <1>1, <1>2

LEMMA LiveSeen ==
  ASSUME Safe, NEW t \in Threads, NEW item \in EntryLive(t)
  PROVE  Seen(items[Key(t)]) = {[data |-> item.data, cas |-> item.cas]}
<1>1. \A i \in items[Key(t)] : i = item
  BY LiveFacts DEF Safe, TypedCalls, TypeOK, CacheOK, Option
<1> QED
  BY <1>1, LiveFacts DEF Seen

\* A callback that leaves the live item as it is.
LEMMA KeptAccess ==
  ASSUME Safe, NEW t \in Threads, EntryLive(t) # {}, Retain, Ends(t),
         cmd[t].op # "flush_all",
         ~ Atomic!Writes(cmd[t], Seen(items[Key(t)])),
         Atomic!After(cmd[t], Seen(items[Key(t)]), 0) = Seen(items[Key(t)]),
         Atomic!Done(t, Atomic!Answer(cmd[t], Seen(items[Key(t)])),
           IF cmd[t].op \notin Atomic!Retrievals THEN {}
           ELSE {[key |-> Key(t), data |-> v.data, cas |-> v.cas] :
                   v \in Seen(items[Key(t)])})
  PROVE  Atomic!Access(t)
<1>1. pc[t] = "entry" /\ items' = items /\ next_cas' = next_cas
  BY LiveFacts DEF AtEntry, Retain
<1>2. Spent \subseteq Spent'
  BY <1>1, EndsSpent
<1> QED
  BY <1>1, <1>2, AccessStep

\* A step that writes `item` to its key, and may evict.
LEMMA WrittenAccess ==
  ASSUME Safe, NEW t \in Threads, cmd[t].op # "flush_all",
         \/ pc[t] = "entry"
         \/ pc[t] = "vacant" /\ cmd[t].op = "add" /\ items[Key(t)] = None,
         NEW item, Tokens(t, {item}), OthersStay(t),
         \A x \in Keys : items'[x] \subseteq IF x = Key(t) THEN {item} ELSE items[x],
         NEW old \in {Seen(items[Key(t)]), None}, Atomic!Writes(cmd[t], old),
         Atomic!After(cmd[t], old, item.cas) = {[data |-> item.data, cas |-> item.cas]},
         Atomic!Done(t, Atomic!Answer(cmd[t], old),
           IF cmd[t].op \notin Atomic!Retrievals THEN {}
           ELSE {[key |-> Key(t), data |-> item.data, cas |-> item.cas]})
  PROVE  Atomic!Access(t)
<1>1. Spent \subseteq Spent' /\ item.cas \in Spent' \ Spent
  BY SpentGrows
<1>2. Key(t) \in Keys /\ items \in [Keys -> Option(Item)]
  BY AtKey DEF Safe, TypedCalls, TypeOK, CacheOK
<1>3. \A x \in Keys \ {Key(t)} : items'[x] \in {items[x], None}
  BY <1>2, OptionShrinks
<1>4. Seen(items'[Key(t)]) \in {Atomic!After(cmd[t], old, item.cas), None}
  <2>1. items'[Key(t)] \in {{item}, None}
    BY <1>2 DEF None
  <2> QED
    BY <2>1 DEF Seen, None
<1>5. {[key |-> Key(t), data |-> v.data, cas |-> v.cas] :
         v \in Atomic!After(cmd[t], old, item.cas)}
      = {[key |-> Key(t), data |-> item.data, cas |-> item.cas]}
  OBVIOUS
<1> QED
  BY <1>1, <1>3, <1>4, <1>5, AccessStep

\* A step that stores under the token the thread has taken, and answers.
LEMMA StoredAccess ==
  ASSUME Safe, NEW t \in Threads, cmd[t].op \in TokenOps,
         \/ pc[t] = "entry"
         \/ pc[t] = "vacant" /\ cmd[t].op = "add" /\ items[Key(t)] = None,
         NEW item, item.cas = cas[t], next_cas' = next_cas,
         \A x \in Keys : items'[x] \subseteq IF x = Key(t) THEN {item} ELSE items[x],
         NEW old \in {Seen(items[Key(t)]), None}, Atomic!Writes(cmd[t], old),
         Atomic!After(cmd[t], old, item.cas) = {[data |-> item.data, cas |-> item.cas]},
         NEW counters, Reply(t, Atomic!Answer(cmd[t], old), counters)
  PROVE  Atomic!Access(t)
<1>1. cmd[t].op \notin {"get", "gat", "flush_all"}
  BY DEF TokenOps
<1>2. Ends(t) /\ cas'[t] = 0 /\ cas[t] # 0
  BY ReplyEnds, HasToken DEF Safe
<1>3. Tokens(t, {item}) /\ OthersStay(t)
  BY <1>2 DEF Tokens, Ends
<1>4. Atomic!Done(t, Atomic!Answer(cmd[t], old), {})
  BY <1>1, ReplyDone DEF Safe
<1> QED
  BY <1>1, <1>3, <1>4, WrittenAccess DEF Atomic!Retrievals

\* A rewrite of the live item in place.
LEMMA RewrittenAccess ==
  ASSUME Safe, NEW t \in Threads, cmd[t].op \in TokenOps, NEW item \in EntryLive(t),
         NEW new, new.cas = cas[t], Rewrite(t, new),
         NEW old, old = {[data |-> item.data, cas |-> item.cas]},
         Atomic!Writes(cmd[t], old),
         Atomic!After(cmd[t], old, new.cas) = {[data |-> new.data, cas |-> new.cas]},
         NEW counters, Reply(t, Atomic!Answer(cmd[t], old), counters)
  PROVE  Atomic!Access(t)
<1>1. pc[t] = "entry" /\ old = Seen(items[Key(t)])
  BY LiveFacts, LiveSeen DEF AtEntry
<1>2. /\ next_cas' = next_cas
      /\ \A x \in Keys : items'[x] \subseteq IF x = Key(t) THEN {new} ELSE items[x]
  BY AdmitPlaces DEF Rewrite
<1> QED
  BY <1>1, <1>2, StoredAccess

-----------------------------------------------------------------------------
(* The methods.                                                             *)

AtomicStep(t) == Atomic!Access(t) \/ Atomic!Miss(t) \/ Atomic!AnswerMiss(t)

\* A retrieval that finds nothing in its key.
LEMMA RetrievalMisses ==
  ASSUME Safe, NEW t \in Threads, cmd[t].op \in {"get", "gat"},
         EntryRemoved(t) \/ DropGuard(t), NEW counters, NextKey(t, {}, counters)
  PROVE  AtomicStep(t)
<1>1. Atomic!Done(t, "Values", {}) /\ Ends(t)
  BY NextKeyDone, NextKeyEnds DEF Safe
<1>2. Atomic!Answer(cmd[t], None) = "Values" /\ Atomic!Missed(cmd[t]) = "Values"
  BY DEF Atomic!Answer, Atomic!Missed, Atomic!Retrievals
<1>3. cmd[t].op \in Ops
  BY DEF Ops, Retrievals
<1> QED
  BY <1>1, <1>2, <1>3, RemovedAccess, DropAnswers DEF AtomicStep

\* So does another call that answers what it answers to an absent key.
LEMMA AnswersAbsent ==
  ASSUME Safe, NEW t \in Threads,
         cmd[t].op \in {"replace", "append", "prepend", "cas", "incr", "decr", "touch"},
         EntryRemoved(t) \/ DropGuard(t),
         NEW counters, Reply(t, Atomic!Answer(cmd[t], None), counters)
  PROVE  AtomicStep(t)
<1>1. Atomic!Done(t, Atomic!Answer(cmd[t], None), {}) /\ Ends(t)
  BY ReplyDone, ReplyEnds DEF Safe
<1>2. Atomic!Missed(cmd[t]) = Atomic!Answer(cmd[t], None)
  BY DEF Atomic!Missed, None, Atomic!None
<1>3. cmd[t].op \in Ops
  BY DEF Ops, TokenOps
<1> QED
  BY <1>1, <1>2, <1>3, RemovedAccess, DropAnswers DEF AtomicStep

LEMMA GetAtomic ==
  ASSUME Safe, NEW t \in Threads, Get(t)
  PROVE  AtomicStep(t)
<1>0. cmd[t].op = "get"
  BY DEF Get, Running
<1>1. CASE EntryVacant(t)
  BY <1>0, <1>1, VacantMisses DEF AtomicStep
<1>2. ASSUME NEW counters, EntryRemoved(t) \/ DropGuard(t), NextKey(t, {}, counters)
      PROVE  AtomicStep(t)
  BY <1>0, <1>2, RetrievalMisses
<1>3. ASSUME NEW item \in EntryLive(t), Retain,
             NextKey(t, {Found(t, item)}, {"GET_HITS"})
      PROVE  Atomic!Access(t)
  <2>1. Seen(items[Key(t)]) = {[data |-> item.data, cas |-> item.cas]}
    BY <1>3, LiveSeen
  <2>2. Ends(t) /\ Atomic!Done(t, "Values", {Found(t, item)})
    BY <1>0, <1>3, NextKeyDone, NextKeyEnds, LiveFacts DEF Safe, Found, Retain
  <2>3. {[key |-> Key(t), data |-> v.data, cas |-> v.cas] : v \in Seen(items[Key(t)])}
        = {Found(t, item)}
    BY <2>1 DEF Found
  <2>4. /\ ~ Atomic!Writes(cmd[t], Seen(items[Key(t)]))
        /\ Atomic!After(cmd[t], Seen(items[Key(t)]), 0) = Seen(items[Key(t)])
        /\ Atomic!Answer(cmd[t], Seen(items[Key(t)])) = "Values"
    BY <1>0 DEF Atomic!Writes, Atomic!After, Atomic!Answer, Atomic!Retrievals
  <2> QED
    BY <1>0, <1>3, <2>2, <2>3, <2>4, KeptAccess DEF Atomic!Retrievals
<1> QED
  BY <1>1, <1>2, <1>3 DEF Get, AtomicStep

LEMMA GetAndTouchAtomic ==
  ASSUME Safe, NEW t \in Threads, GetAndTouch(t)
  PROVE  AtomicStep(t)
<1>0. cmd[t].op = "gat"
  BY DEF GetAndTouch, Running
<1>1. CASE EntryVacant(t)
  BY <1>0, <1>1, VacantMisses DEF AtomicStep
<1>2. ASSUME NEW counters, EntryRemoved(t) \/ DropGuard(t), NextKey(t, {}, counters)
      PROVE  AtomicStep(t)
  BY <1>0, <1>2, RetrievalMisses
<1> DEFINE touched(item) == [item EXCEPT !.cas = next_cas,
                     !.expires_at = ResolveExpiry(cmd[t].exptime, now[t])]
<1>3. ASSUME NEW item \in EntryLive(t),
             items' = [items EXCEPT ![Key(t)] = Some(touched(item))],
             next_cas' = next_cas + 1,
             NextKey(t, {Found(t, touched(item))}, {"GET_HITS"})
      PROVE  Atomic!Access(t)
  <2> DEFINE old == {[data |-> item.data, cas |-> item.cas]}
  <2>1. /\ pc[t] = "entry" /\ Key(t) \in Keys /\ item \in Item
        /\ old = Seen(items[Key(t)]) /\ items \in [Keys -> Option(Item)]
    BY <1>3, LiveFacts, LiveSeen DEF AtEntry, Safe, TypedCalls, TypeOK, CacheOK
  <2>2. touched(item).cas = next_cas /\ touched(item).data = item.data
    BY <2>1 DEF Item
  <2> HIDE DEF touched
  <2>3. /\ \A x \in Keys : items'[x] \subseteq IF x = Key(t) THEN {touched(item)} ELSE items[x]
        /\ touched(item) \in items'[Key(t)]
    BY <1>3, <2>1 DEF Some
  <2>4. Ends(t) /\ Atomic!Done(t, "Values", {Found(t, touched(item))})
    BY <1>0, <1>3, <2>3, NextKeyDone, NextKeyEnds DEF Safe, Found
  <2>5. Tokens(t, {touched(item)}) /\ OthersStay(t)
    BY <1>3, <2>2, <2>4 DEF Tokens, Ends
  <2>6. /\ Atomic!Writes(cmd[t], old)
        /\ Atomic!After(cmd[t], old, touched(item).cas)
             = {[data |-> touched(item).data, cas |-> touched(item).cas]}
        /\ Atomic!Answer(cmd[t], old) = "Values"
    BY <1>0, <2>2 DEF Atomic!Writes, Atomic!After, Atomic!Answer, Atomic!Retrievals,
                      Atomic!None
  <2> QED
    BY <1>0, <2>1, <2>3, <2>4, <2>5, <2>6, WrittenAccess DEF Found, Atomic!Retrievals
<1> QED
  BY <1>1, <1>2, <1>3 DEF GetAndTouch, AtomicStep

LEMMA NewVersionSeen ==
  ASSUME NEW t
  PROVE  NewVersion(t).data = cmd[t].data /\ NewVersion(t).cas = cas[t]
BY DEF NewVersion, NewItem

LEMMA SetAtomic ==
  ASSUME Safe, NEW t \in Threads, Set(t)
  PROVE  AtomicStep(t)
<1> DEFINE old == Seen(items[Key(t)])
<1>1. cmd[t].op = "set" /\ cmd[t].op \in TokenOps /\ pc[t] = "entry"
  BY DEF Set, Running, TokenOps
<1>2. /\ \A x \in Keys : items'[x] \subseteq IF x = Key(t) THEN {NewVersion(t)} ELSE items[x]
      /\ next_cas' = next_cas
  BY AdmitPlaces DEF Set
<1>3. /\ Atomic!Writes(cmd[t], old) /\ Atomic!Answer(cmd[t], old) = "Stored"
      /\ Atomic!After(cmd[t], old, NewVersion(t).cas)
           = {[data |-> NewVersion(t).data, cas |-> NewVersion(t).cas]}
  BY <1>1, NewVersionSeen DEF Atomic!Writes, Atomic!Answer, Atomic!After,
                              Atomic!Retrievals
<1> QED
  BY <1>1, <1>2, <1>3, NewVersionSeen, StoredAccess DEF Set, AtomicStep

\* An add finds nothing alive, whether its key is vacant, or was, or has expired.
LEMMA AddAtomic ==
  ASSUME Safe, NEW t \in Threads, Add(t)
  PROVE  AtomicStep(t)
<1>0. cmd[t].op = "add" /\ cmd[t].op \in TokenOps
  BY DEF Add, Running, TokenOps
<1>1. CASE EntryVacant(t)
  BY <1>0, <1>1, VacantMisses DEF AtomicStep
<1>2. ASSUME \/ pc[t] = "entry"
             \/ pc[t] = "vacant" /\ items[Key(t)] = None,
             Admit(Key(t), NewVersion(t)), next_cas' = next_cas,
             Reply(t, "Stored", {"TOTAL_ITEMS"})
      PROVE  Atomic!Access(t)
  <2>1. \A x \in Keys : items'[x] \subseteq IF x = Key(t) THEN {NewVersion(t)} ELSE items[x]
    BY <1>2, AdmitPlaces
  <2>2. /\ Atomic!Writes(cmd[t], None) /\ Atomic!Answer(cmd[t], None) = "Stored"
        /\ Atomic!After(cmd[t], None, NewVersion(t).cas)
             = {[data |-> NewVersion(t).data, cas |-> NewVersion(t).cas]}
    BY <1>0, NewVersionSeen DEF Atomic!Writes, Atomic!Answer, Atomic!After, None,
                                Atomic!None, Atomic!Retrievals
  <2> QED
    BY <1>0, <1>2, <2>1, <2>2, NewVersionSeen, StoredAccess
<1>3. CASE EntryLive(t) # {} /\ Retain /\ Reply(t, "NotStored", {})
  <2>1. PICK item \in EntryLive(t) :
          Seen(items[Key(t)]) = {[data |-> item.data, cas |-> item.cas]}
    BY <1>3, LiveSeen
  <2>2. /\ ~ Atomic!Writes(cmd[t], Seen(items[Key(t)]))
        /\ Atomic!After(cmd[t], Seen(items[Key(t)]), 0) = Seen(items[Key(t)])
        /\ Atomic!Answer(cmd[t], Seen(items[Key(t)])) = "NotStored"
    BY <1>0, <2>1 DEF Atomic!Writes, Atomic!Answer, Atomic!After, Atomic!None,
                      Atomic!Retrievals
  <2>3. Ends(t) /\ Atomic!Done(t, "NotStored", {})
    BY <1>0, <1>3, ReplyEnds, ReplyDone DEF Safe
  <2> QED
    BY <1>0, <1>3, <2>2, <2>3, KeptAccess DEF AtomicStep, Atomic!Retrievals
<1>4. CASE DropGuard(t) /\ Reply(t, "NotStored", {})
  <2>1. Ends(t) /\ Atomic!Done(t, "NotStored", {})
    BY <1>0, <1>4, ReplyEnds, ReplyDone DEF Safe
  <2> QED
    BY <1>0, <1>4, <2>1, DropAnswers DEF AtomicStep, Atomic!Missed
<1>5. ASSUME pc[t] = "vacant", HoldsGuard(t) PROVE items[Key(t)] = None
  BY <1>5, AtKey DEF HoldsGuard, Some, Safe, PlaceholderExclusive
<1> QED
  BY <1>1, <1>2, <1>3, <1>4, <1>5 DEF Add, AtEntry, AtomicStep

LEMMA ReplaceAtomic ==
  ASSUME Safe, NEW t \in Threads, Replace(t)
  PROVE  AtomicStep(t)
<1>0. cmd[t].op = "replace" /\ cmd[t].op \in TokenOps
  BY DEF Replace, Running, TokenOps
<1>1. CASE EntryVacant(t)
  BY <1>0, <1>1, VacantMisses DEF AtomicStep
<1>2. CASE (EntryRemoved(t) \/ DropGuard(t)) /\ Reply(t, "NotStored", {})
  <2>1. Atomic!Answer(cmd[t], None) = "NotStored"
    BY <1>0 DEF Atomic!Answer, None, Atomic!None, Atomic!Retrievals
  <2> QED
    BY <1>0, <1>2, <2>1, AnswersAbsent
<1>3. ASSUME NEW item \in EntryLive(t), Rewrite(t, NewVersion(t)),
             Reply(t, "Stored", {"TOTAL_ITEMS"})
      PROVE  Atomic!Access(t)
  <2> DEFINE old == {[data |-> item.data, cas |-> item.cas]}
  <2>1. /\ Atomic!Writes(cmd[t], old) /\ Atomic!Answer(cmd[t], old) = "Stored"
        /\ Atomic!After(cmd[t], old, NewVersion(t).cas)
             = {[data |-> NewVersion(t).data, cas |-> NewVersion(t).cas]}
    BY <1>0, NewVersionSeen DEF Atomic!Writes, Atomic!Answer, Atomic!After,
                                Atomic!None, Atomic!Retrievals
  <2> HIDE DEF old
  <2> QED
    BY <1>0, <1>3, <2>1, NewVersionSeen, RewrittenAccess DEF old
<1> QED
  BY <1>1, <1>2, <1>3 DEF Replace, AtomicStep

LEMMA ConcatAtomic ==
  ASSUME Safe, NEW t \in Threads, Concat(t)
  PROVE  AtomicStep(t)
<1>0. cmd[t].op \in {"append", "prepend"} /\ cmd[t].op \in TokenOps
  BY DEF Concat, Running, TokenOps
<1>1. CASE EntryVacant(t)
  BY <1>0, <1>1, VacantMisses DEF AtomicStep
<1>2. CASE (EntryRemoved(t) \/ DropGuard(t)) /\ Reply(t, "NotStored", {})
  <2>1. Atomic!Answer(cmd[t], None) = "NotStored"
    BY <1>0 DEF Atomic!Answer, None, Atomic!None, Atomic!Retrievals
  <2> QED
    BY <1>0, <1>2, <2>1, AnswersAbsent
<1>3. ASSUME NEW item \in EntryLive(t),
             Rewrite(t, [item EXCEPT !.cas = cas[t], !.data = Joined(cmd[t], item.data)]),
             Reply(t, "Stored", {"TOTAL_ITEMS"})
      PROVE  Atomic!Access(t)
  <2> DEFINE v == [data |-> item.data, cas |-> item.cas]
             new == [item EXCEPT !.cas = cas[t], !.data = Joined(cmd[t], item.data)]
             newer == [data |-> new.data, cas |-> new.cas]
  <2>1. /\ new.cas = cas[t] /\ v.data = item.data
        /\ newer = [data |-> Joined(cmd[t], v.data), cas |-> cas[t]]
    BY LiveFacts DEF Item
  <2>2. Atomic!Writes(cmd[t], {v}) /\ Atomic!Answer(cmd[t], {v}) = "Stored"
    BY <1>0 DEF Atomic!Writes, Atomic!Answer, Atomic!None, Atomic!Retrievals
  <2>3. Rewrite(t, new)
    BY <1>3
  <2> HIDE DEF new
  <2>4. {v} = {[data |-> item.data, cas |-> item.cas]} /\ newer = [data |-> new.data, cas |-> new.cas]
    OBVIOUS
  <2> HIDE DEF v, newer
  <2>5. Atomic!After(cmd[t], {v}, new.cas) = {newer}
    BY <1>0, <2>1, Joins
  <2>6. Atomic!After(cmd[t], {v}, new.cas) = {[data |-> new.data, cas |-> new.cas]}
    BY <2>4, <2>5
  <2>7. new.cas = cas[t] /\ {v} = {[data |-> item.data, cas |-> item.cas]}
    BY <2>1, <2>4
  <2>8. /\ cmd[t].op \in TokenOps /\ item \in EntryLive(t) /\ Atomic!Writes(cmd[t], {v})
        /\ Reply(t, Atomic!Answer(cmd[t], {v}), {"TOTAL_ITEMS"})
    BY <1>0, <1>3, <2>2
  <2> QED
    BY <2>3, <2>6, <2>7, <2>8, RewrittenAccess
<1> QED
  BY <1>1, <1>2, <1>3 DEF Concat, AtomicStep, Joined

LEMMA CasAtomic ==
  ASSUME Safe, NEW t \in Threads, Cas(t)
  PROVE  AtomicStep(t)
<1>0. cmd[t].op = "cas" /\ cmd[t].op \in TokenOps
  BY DEF Cas, Running, TokenOps
<1>1. CASE EntryVacant(t)
  BY <1>0, <1>1, VacantMisses DEF AtomicStep
<1>2. CASE (EntryRemoved(t) \/ DropGuard(t)) /\ Reply(t, "NotFound", {"CAS_MISSES"})
  <2>1. Atomic!Answer(cmd[t], None) = "NotFound"
    BY <1>0 DEF Atomic!Answer, None, Atomic!None, Atomic!Retrievals
  <2> QED
    BY <1>0, <1>2, <2>1, AnswersAbsent
<1>3. ASSUME NEW item \in EntryLive(t), item.cas # cmd[t].token, Retain,
             Reply(t, "Exists", {"CAS_BADVAL"})
      PROVE  Atomic!Access(t)
  <2>1. Seen(items[Key(t)]) = {[data |-> item.data, cas |-> item.cas]}
    BY <1>3, LiveSeen
  <2>2. /\ ~ Atomic!Writes(cmd[t], Seen(items[Key(t)]))
        /\ Atomic!After(cmd[t], Seen(items[Key(t)]), 0) = Seen(items[Key(t)])
    BY <1>0, <1>3, <2>1 DEF Atomic!Writes, Atomic!After
  <2>3. Atomic!Answer(cmd[t], Seen(items[Key(t)])) = "Exists"
    BY <1>0, <2>1, <2>2 DEF Atomic!Answer, Atomic!None, Atomic!Retrievals
  <2>4. Ends(t) /\ Atomic!Done(t, "Exists", {})
    BY <1>0, <1>3, ReplyEnds, ReplyDone DEF Safe
  <2> QED
    BY <1>0, <1>3, <2>2, <2>3, <2>4, KeptAccess DEF Atomic!Retrievals
<1>4. ASSUME NEW item \in EntryLive(t), item.cas = cmd[t].token,
             Rewrite(t, NewVersion(t)), Reply(t, "Stored", {"CAS_HITS", "TOTAL_ITEMS"})
      PROVE  Atomic!Access(t)
  <2> DEFINE old == {[data |-> item.data, cas |-> item.cas]}
  <2>1. /\ Atomic!Writes(cmd[t], old)
        /\ Atomic!After(cmd[t], old, NewVersion(t).cas)
             = {[data |-> NewVersion(t).data, cas |-> NewVersion(t).cas]}
    BY <1>0, <1>4, NewVersionSeen DEF Atomic!Writes, Atomic!After
  <2>2. Atomic!Answer(cmd[t], old) = "Stored"
    BY <1>0, <2>1 DEF Atomic!Answer, Atomic!None, Atomic!Retrievals
  <2>3. NewVersion(t).cas = cas[t] /\ old = {[data |-> item.data, cas |-> item.cas]}
    BY NewVersionSeen
  <2> HIDE DEF old
  <2> QED
    BY <1>0, <1>4, <2>1, <2>2, <2>3, RewrittenAccess
<1> QED
  BY <1>1, <1>2, <1>3, <1>4 DEF Cas, AtomicStep

\* A delete takes the item whether or not it has expired: an expired one was lost
\* just before.
LEMMA DeleteAtomic ==
  ASSUME Safe, NEW t \in Threads, Delete(t)
  PROVE  AtomicStep(t)
<1>0. cmd[t].op = "delete" /\ pc[t] = "entry" /\ next_cas' = next_cas
  BY DEF Delete, Running
<1>1. /\ Seen(items'[Key(t)]) = None
      /\ \A x \in Keys \ {Key(t)} : items'[x] = items[x]
  BY <1>0, AtKey DEF Delete, Seen, None, Safe, TypedCalls, TypeOK, CacheOK
<1>2. Ends(t) /\ Spent \subseteq Spent'
  BY <1>0, ReplyEnds, EndsSpent DEF Delete, Safe
<1>3. ASSUME NEW old \in {Seen(items[Key(t)]), None}, NEW counters,
             Reply(t, Atomic!Answer(cmd[t], old), counters)
      PROVE  AtomicStep(t)
  <2>1. Atomic!Done(t, Atomic!Answer(cmd[t], old), {})
    BY <1>0, <1>3, ReplyDone DEF Safe
  <2>2. ~ Atomic!Writes(cmd[t], old) /\ Atomic!After(cmd[t], old, 0) = None
    BY <1>0 DEF Atomic!Writes, Atomic!After, None, Atomic!None
  <2> QED
    BY <1>0, <1>1, <1>2, <1>3, <2>1, <2>2, AccessStep DEF AtomicStep, Atomic!Retrievals
<1>4. Atomic!Answer(cmd[t], None) = "NotFound"
  BY <1>0 DEF Atomic!Answer, None, Atomic!None, Atomic!Retrievals
<1>5. ASSUME NEW item \in items[Key(t)]
      PROVE  Atomic!Answer(cmd[t], Seen(items[Key(t)])) = "Deleted"
  BY <1>0 DEF Atomic!Answer, Seen, Atomic!None, Atomic!Retrievals
<1> QED
  BY <1>3, <1>4, <1>5 DEF Delete

\* What incr and decr make of a numeric version.
Counted(c, n) == FormatU64(IF c.op = "incr" THEN WrappingAdd(n, c.delta)
                                            ELSE SaturatingSub(n, c.delta))

LEMMA ParsesToOne ==
  ASSUME NEW v, NEW n \in ParseU64(v.data)
  PROVE  Atomic!ParseU64(v.data) = {n} /\ Atomic!Numeric(v)
BY DEF ParseU64, Atomic!ParseU64, U64, Atomic!U64, Some, None, Atomic!Some, Atomic!None,
       Atomic!Numeric

LEMMA NumericWrites ==
  ASSUME NEW c, c.op \in {"incr", "decr"}, NEW v, NEW n \in ParseU64(v.data)
  PROVE  Atomic!Writes(c, {v}) /\ Atomic!Answer(c, {v}) = "Number"
<1>1. Atomic!Writes(c, {v})
  BY ParsesToOne DEF Atomic!Writes
<1> QED
  BY <1>1 DEF Atomic!Answer, Atomic!None, Atomic!Retrievals

LEMMA Computes ==
  ASSUME NEW c, c.op \in {"incr", "decr"}, NEW v, NEW n \in ParseU64(v.data), NEW token,
         NEW new, new = [data |-> Counted(c, n), cas |-> token]
  PROVE  Atomic!After(c, {v}, token) = {new}
<1>1. Atomic!Computed(c, n) = Counted(c, n)
  <2>1. /\ Atomic!WrappingAdd(n, c.delta) = WrappingAdd(n, c.delta)
        /\ Atomic!SaturatingSub(n, c.delta) = SaturatingSub(n, c.delta)
    BY DEF WrappingAdd, SaturatingSub, Atomic!WrappingAdd, Atomic!SaturatingSub
  <2> QED
    BY <2>1, Zenon DEF Counted, Atomic!Computed
<1>2. Atomic!After(c, {v}, token) = {[data |-> Atomic!Computed(c, n), cas |-> token]}
  <2>1. Atomic!ParseU64(v.data) = {n} /\ Atomic!Numeric(v)
    BY ParsesToOne
  <2>2. CASE c.op = "incr"
    BY <2>1, <2>2 DEF Atomic!After
  <2>3. CASE c.op = "decr"
    BY <2>1, <2>3 DEF Atomic!After
  <2> QED
    BY <2>2, <2>3
<1> QED
  BY <1>1, <1>2

LEMMA ArithmeticAtomic ==
  ASSUME Safe, NEW t \in Threads, Arithmetic(t)
  PROVE  AtomicStep(t)
<1>0. cmd[t].op \in {"incr", "decr"} /\ cmd[t].op \in TokenOps
  BY DEF Arithmetic, Running, TokenOps
<1>1. CASE EntryVacant(t)
  BY <1>0, <1>1, VacantMisses DEF AtomicStep
<1>2. CASE (EntryRemoved(t) \/ DropGuard(t)) /\ Reply(t, "NotFound", MissesOf(cmd[t].op))
  <2>1. Atomic!Answer(cmd[t], None) = "NotFound"
    BY <1>0 DEF Atomic!Answer, None, Atomic!None, Atomic!Retrievals
  <2> QED
    BY <1>0, <1>2, <2>1, AnswersAbsent
<1>3. ASSUME NEW item \in EntryLive(t), ParseU64(item.data) = None, Retain,
             Reply(t, "ClientError", {})
      PROVE  Atomic!Access(t)
  <2> DEFINE v == [data |-> item.data, cas |-> item.cas]
  <2>1. Seen(items[Key(t)]) = {v} /\ v.data = item.data
    BY <1>3, LiveSeen
  <2> HIDE DEF v
  <2>2. ~ Atomic!Numeric(v)
    BY <1>3, <2>1 DEF Atomic!Numeric, ParseU64, Atomic!ParseU64, U64, Atomic!U64,
                      None, Atomic!None, Some, Atomic!Some
  <2>3. ~ Atomic!Writes(cmd[t], {v}) /\ Atomic!After(cmd[t], {v}, 0) = {v}
    BY <1>0, <2>2 DEF Atomic!Writes, Atomic!After
  <2>4. Atomic!Answer(cmd[t], {v}) = "ClientError"
    BY <1>0, <2>3 DEF Atomic!Answer, Atomic!None, Atomic!Retrievals
  <2>5. Ends(t) /\ Atomic!Done(t, "ClientError", {})
    BY <1>0, <1>3, ReplyEnds, ReplyDone DEF Safe
  <2> QED
    BY <1>0, <1>3, <2>1, <2>3, <2>4, <2>5, KeptAccess DEF Atomic!Retrievals
<1>4. ASSUME NEW item \in EntryLive(t), NEW val \in ParseU64(item.data),
             Rewrite(t, [item EXCEPT !.data = Counted(cmd[t], val), !.cas = cas[t]]),
             Reply(t, "Number", HitsOf(cmd[t].op))
      PROVE  Atomic!Access(t)
  <2> DEFINE v == [data |-> item.data, cas |-> item.cas]
             new == [item EXCEPT !.data = Counted(cmd[t], val), !.cas = cas[t]]
             newer == [data |-> new.data, cas |-> new.cas]
  <2>1. /\ new.cas = cas[t] /\ v.data = item.data
        /\ newer = [data |-> Counted(cmd[t], val), cas |-> new.cas]
        /\ val \in ParseU64(v.data)
    BY LiveFacts DEF Item
  <2>2. Rewrite(t, new)
    BY <1>4
  <2> HIDE DEF new
  <2>3. {v} = {[data |-> item.data, cas |-> item.cas]} /\ newer = [data |-> new.data, cas |-> new.cas]
    OBVIOUS
  <2> HIDE DEF v, newer
  <2>4. Atomic!Writes(cmd[t], {v}) /\ Atomic!Answer(cmd[t], {v}) = "Number"
    BY <1>0, <2>1, NumericWrites
  <2>5. Atomic!After(cmd[t], {v}, new.cas) = {[data |-> new.data, cas |-> new.cas]}
    <3>1. Atomic!After(cmd[t], {v}, new.cas) = {newer}
      BY <1>0, <2>1, Computes
    <3> QED
      BY <2>3, <3>1
  <2>6. new.cas = cas[t] /\ {v} = {[data |-> item.data, cas |-> item.cas]}
    BY <2>1, <2>3
  <2>7. /\ cmd[t].op \in TokenOps /\ item \in EntryLive(t) /\ Atomic!Writes(cmd[t], {v})
        /\ Reply(t, Atomic!Answer(cmd[t], {v}), HitsOf(cmd[t].op))
    BY <1>0, <1>4, <2>4
  <2> QED
    BY <2>2, <2>5, <2>6, <2>7, RewrittenAccess
<1> QED
  BY <1>1, <1>2, <1>3, <1>4 DEF Arithmetic, AtomicStep, Counted

LEMMA TouchAtomic ==
  ASSUME Safe, NEW t \in Threads, Touch(t)
  PROVE  AtomicStep(t)
<1>0. cmd[t].op = "touch" /\ cmd[t].op \in TokenOps
  BY DEF Touch, Running, TokenOps
<1>1. CASE EntryVacant(t)
  BY <1>0, <1>1, VacantMisses DEF AtomicStep
<1>2. CASE (EntryRemoved(t) \/ DropGuard(t)) /\ Reply(t, "NotFound", {"TOUCH_MISSES"})
  <2>1. Atomic!Answer(cmd[t], None) = "NotFound"
    BY <1>0 DEF Atomic!Answer, None, Atomic!None, Atomic!Retrievals
  <2> QED
    BY <1>0, <1>2, <2>1, AnswersAbsent
<1> DEFINE touched(item) == [item EXCEPT !.cas = cas[t],
                     !.expires_at = ResolveExpiry(cmd[t].exptime, now[t])]
<1>3. ASSUME NEW item \in EntryLive(t),
             items' = [items EXCEPT ![Key(t)] = Some(touched(item))],
             next_cas' = next_cas, Reply(t, "Touched", {"TOUCH_HITS"})
      PROVE  Atomic!Access(t)
  <2> DEFINE old == {[data |-> item.data, cas |-> item.cas]}
  <2>1. /\ pc[t] = "entry" /\ Key(t) \in Keys /\ item \in Item
        /\ old = Seen(items[Key(t)]) /\ items \in [Keys -> Option(Item)]
    BY <1>3, LiveFacts, LiveSeen DEF AtEntry, Safe, TypedCalls, TypeOK, CacheOK
  <2>2. touched(item).cas = cas[t] /\ touched(item).data = item.data
    BY <2>1 DEF Item
  <2> HIDE DEF touched
  <2>3. \A x \in Keys : items'[x] \subseteq IF x = Key(t) THEN {touched(item)} ELSE items[x]
    BY <1>3, <2>1 DEF Some
  <2>4. /\ Atomic!Writes(cmd[t], old) /\ Atomic!Answer(cmd[t], old) = "Touched"
        /\ Atomic!After(cmd[t], old, touched(item).cas)
             = {[data |-> touched(item).data, cas |-> touched(item).cas]}
    BY <1>0, <2>2 DEF Atomic!Writes, Atomic!After, Atomic!Answer, Atomic!Retrievals,
                      Atomic!None
  <2> HIDE DEF old
  <2>5. /\ old \in {Seen(items[Key(t)]), None}
        /\ Reply(t, Atomic!Answer(cmd[t], old), {"TOUCH_HITS"})
    BY <1>3, <2>1, <2>4
  <2> QED
    BY <1>0, <1>3, <2>1, <2>2, <2>3, <2>4, <2>5, StoredAccess
<1> QED
  BY <1>1, <1>2, <1>3 DEF Touch, AtomicStep

LEMMA MethodAtomic ==
  ASSUME Safe, NEW t \in Threads, CallMethod(t)
  PROVE  AtomicStep(t)
BY GetAtomic, GetAndTouchAtomic, SetAtomic, AddAtomic, ReplaceAtomic, ConcatAtomic,
   CasAtomic, DeleteAtomic, ArithmeticAtomic, TouchAtomic DEF CallMethod

-----------------------------------------------------------------------------
(* The other steps.                                                         *)

LEMMA BeginAtomic ==
  ASSUME Safe, NEW t \in Threads, NEW c \in Commands, Begin(t, c)
  PROVE  Atomic!Begin(t, c)
<1>1. Phase[t] = "idle" /\ View' = View /\ Spent' = Spent
  BY DEF Begin, Phase, View, Spent, Pending, shared
<1>2. Phase' = [Phase EXCEPT ![t] = "called"]
  BY PhaseIs DEF Begin, Safe, TypedCalls, TypeOK, CallsOK, Labels
<1> QED
  BY <1>1, <1>2 DEF Begin, Atomic!Begin

LEMMA FlushAtomic ==
  ASSUME Refinable, NEW t \in Threads, FlushDelayed(t) \/ ClearDone(t)
  PROVE  Atomic!AnswerFlush(t)
<1>1. /\ pc[t] = "flush" /\ cmd[t].op = "flush_all" /\ cas[t] = 0
      /\ items' = items /\ next_cas' = next_cas /\ Reply(t, "Ok", {})
  BY DEF FlushDelayed, ClearDone, Refinable, CallPhases, shared
<1>2. cas' = cas
  BY <1>1 DEF Reply, Leave, Refinable, Safe, TypedCalls, TypeOK, CallsOK
<1>3. Phase[t] = "called" /\ View' = View /\ Spent' = Spent
  BY <1>1, <1>2 DEF Phase, View, Spent, Pending
<1>4. Phase' = [Phase EXCEPT ![t] = "idle"]
  BY <1>1, PhaseIs DEF Reply, Leave, Refinable, Safe, TypedCalls, TypeOK, CallsOK, Labels
<1> QED
  BY <1>1, <1>3, <1>4 DEF Reply, Leave, Atomic!AnswerFlush, Atomic!Return

LEMMA ClearLoses ==
  ASSUME Safe, NEW t \in Threads, ClearShard(t)
  PROVE  Atomic!Lose
<1>1. /\ \A k \in Keys : items'[k] \in {items[k], None}
      /\ UNCHANGED <<next_cas, locals, client>>
  BY DEF ClearShard, Safe, TypedCalls, TypeOK, CacheOK
<1>2. Spent' = Spent /\ Phase' = Phase /\ UNCHANGED <<cmd, todo, reply, values>>
  BY <1>1 DEF Spent, Pending, Phase, locals, client
<1>3. View' = [k \in Keys |-> View'[k]] /\ Atomic!Keeps(Keys)
  BY <1>1, ViewIs, KeepsThem
<1> QED
  BY <1>2, <1>3 DEF Atomic!Lose, Atomic!calls

\* The clock, the cutoff and the token that a call reads are not seen outside.
LEMMA SnapshotStutters ==
  ASSUME Refinable, NEW t \in Threads, LoadOldest(t) \/ TakeToken(t)
  PROVE  UNCHANGED Atomic!vars
<1>1. /\ items' = items /\ cmd' = cmd /\ todo' = todo /\ client' = client
      /\ pc[t] \in {"oldest", "token"}
      /\ \E p \in {"token", "entry"} : pc' = [pc EXCEPT ![t] = p]
  BY DEF LoadOldest, TakeToken, shared
<1>2. View' = View /\ UNCHANGED <<cmd, todo, reply, values>>
  BY <1>1 DEF View, client
<1>3. Phase' = Phase
  BY <1>1 DEF Phase, Refinable, Safe, TypedCalls, TypeOK, CallsOK
<1>4. Spent' = Spent
  <2>1. CASE LoadOldest(t)
    BY <2>1 DEF LoadOldest, shared, Spent, Pending
  <2>2. CASE TakeToken(t)
    <3>1. /\ next_cas \in Nat \ {0} /\ next_cas' = next_cas + 1
          /\ cas[t] = 0 /\ cas'[t] = next_cas
          /\ \A u \in Threads \ {t} : cas'[u] = cas[u]
      BY <2>2 DEF TakeToken, Refinable, CallPhases, Safe, TypedCalls, TypeOK, CacheOK, CallsOK
    <3>2. Pending(t)' = {next_cas} /\ Pending(t) = {}
      BY <3>1 DEF Pending
    <3>3. \A u \in Threads \ {t} : Pending(u)' = Pending(u)
      BY <3>1 DEF Pending
    <3>4. UNION {Pending(u) : u \in Threads}'
            = {next_cas} \cup UNION {Pending(u) : u \in Threads}
      BY <3>2, <3>3
    <3>5. 1 .. next_cas' - 1 = (1 .. next_cas - 1) \cup {next_cas}
      BY <3>1
    <3>6. next_cas \notin 1 .. next_cas - 1
      BY <3>1
    <3> QED
      BY <3>4, <3>5, <3>6 DEF Spent
  <2> QED
    BY <2>1, <2>2
<1> QED
  BY <1>2, <1>3, <1>4 DEF Atomic!vars, Atomic!calls

LEMMA ClockStutters ==
  ASSUME Tick \/ UNCHANGED vars
  PROVE  UNCHANGED Atomic!vars
<1>1. UNCHANGED <<items, next_cas, pc, cmd, todo, cas, reply, values>>
  BY DEF Tick, vars, shared, locals, client
<1> QED
  BY <1>1 DEF View, Spent, Pending, Phase, Atomic!vars, Atomic!calls

-----------------------------------------------------------------------------
(* The phases of a call.                                                    *)

\* How a method leaves its thread.
Leaves(t) ==
  \/ EntryVacant(t)
  \/ \E r, counters : Reply(t, r, counters)
  \/ \E got, counters : NextKey(t, got, counters)

LEMMA MethodLeaves ==
  ASSUME NEW t \in Threads, CallMethod(t)
  PROVE  Leaves(t)
<1>1. ASSUME Get(t) \/ GetAndTouch(t) PROVE Leaves(t)
  BY <1>1 DEF Get, GetAndTouch, Leaves
<1>2. ASSUME Set(t) \/ Add(t) \/ Replace(t) \/ Concat(t) PROVE Leaves(t)
  BY <1>2 DEF Set, Add, Replace, Concat, Leaves
<1>3. ASSUME Cas(t) \/ Delete(t) \/ Arithmetic(t) \/ Touch(t) PROVE Leaves(t)
  BY <1>3 DEF Cas, Delete, Arithmetic, Touch, Leaves
<1> QED
  BY <1>1, <1>2, <1>3 DEF CallMethod

LEMMA LeavesPhases ==
  ASSUME Refinable, NEW t \in Threads, Leaves(t)
  PROVE  CallPhases'
<1> USE DEF Refinable, Safe, TypedCalls, TypeOK, CallsOK, CallPhases
<1>1. CASE EntryVacant(t)
  BY <1>1 DEF EntryVacant
<1>2. ASSUME NEW r, Leave(t, r) PROVE CallPhases'
  BY <1>2 DEF Leave
<1>3. ASSUME NEW got, NEW counters, NextKey(t, got, counters) PROVE CallPhases'
  BY <1>2, <1>3 DEF NextKey
<1> QED
  BY <1>1, <1>2, <1>3 DEF Leaves, Reply

LEMMA NextPhases ==
  ASSUME Refinable, [Next]_vars
  PROVE  CallPhases'
<1> USE DEF Refinable, Safe, TypedCalls, TypeOK, CallsOK, CallPhases
<1>1. ASSUME NEW t \in Threads, NEW c \in Commands, Begin(t, c) PROVE CallPhases'
  BY <1>1 DEF Begin
<1>2. ASSUME NEW t \in Threads, LoadOldest(t) \/ TakeToken(t) PROVE CallPhases'
  BY <1>2 DEF LoadOldest, TakeToken
<1>3. ASSUME NEW t \in Threads, CallMethod(t) PROVE CallPhases'
  BY <1>3, MethodLeaves, LeavesPhases
<1>4. ASSUME NEW t \in Threads, FlushDelayed(t) \/ ClearDone(t) PROVE CallPhases'
  BY <1>4, LeavesPhases DEF FlushDelayed, ClearDone, Leaves
<1>5. ASSUME NEW t \in Threads, ClearShard(t) PROVE CallPhases'
  BY <1>5 DEF ClearShard, locals
<1>6. CASE Tick \/ UNCHANGED vars
  BY <1>6 DEF Tick, vars, locals
<1> QED
  BY <1>1, <1>2, <1>3, <1>4, <1>5, <1>6 DEF Next, Step, Method, CallMethod, Rest

-----------------------------------------------------------------------------
(* The theorem.                                                             *)

LEMMA InitAtomic ==
  ASSUME Init
  PROVE  CallPhases /\ Atomic!Init
<1>1. CallPhases
  BY DEF Init, CallPhases
<1>2. View = [k \in Keys |-> Atomic!None] /\ Phase = [t \in Threads |-> "idle"]
  BY DEF Init, View, Phase, None, Atomic!None
<1>3. Spent = {}
  BY DEF Init, Spent
<1> QED
  BY <1>1, <1>2, <1>3 DEF Init, Atomic!Init

LEMMA NextAtomic ==
  ASSUME Refinable, [Next]_vars
  PROVE  [Atomic!Next]_Atomic!vars
<1>1. ASSUME NEW t \in Threads, NEW c \in Commands, Begin(t, c) PROVE Atomic!Next
  BY <1>1, BeginAtomic DEF Refinable, Atomic!Next
<1>2. ASSUME NEW t \in Threads, LoadOldest(t) \/ TakeToken(t) PROVE UNCHANGED Atomic!vars
  BY <1>2, SnapshotStutters
<1>3. ASSUME NEW t \in Threads, CallMethod(t) PROVE Atomic!Next
  BY <1>3, MethodAtomic DEF Refinable, AtomicStep, Atomic!Next
<1>4. ASSUME NEW t \in Threads, FlushDelayed(t) \/ ClearDone(t) PROVE Atomic!Next
  BY <1>4, FlushAtomic DEF Atomic!Next
<1>5. ASSUME NEW t \in Threads, ClearShard(t) PROVE Atomic!Next
  BY <1>5, ClearLoses DEF Refinable, Atomic!Next
<1>6. CASE Tick \/ UNCHANGED vars
  BY <1>6, ClockStutters
<1> QED
  BY <1>1, <1>2, <1>3, <1>4, <1>5, <1>6 DEF Next, Step, Method, CallMethod, Rest

\* The store implements the atomic cache, whatever its threads interleave: an
\* answer, a version and a token are those of calls that deal with each of their
\* keys in one step.
THEOREM StoreIsAtomic == Spec => ActsAtomically
<1>1. Init => Refinable /\ Atomic!Init
  BY InitSafe, InitAtomic DEF Refinable
<1>2. Refinable /\ [Next]_vars => Refinable' /\ [Atomic!Next]_Atomic!vars
  BY NextSafe, NextPhases, NextAtomic DEF Refinable
<1> QED
  BY <1>1, <1>2, PTL DEF Spec, ActsAtomically, Atomic!Spec
=============================================================================
