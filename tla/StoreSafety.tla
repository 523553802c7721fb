---------------------------- MODULE StoreSafety ----------------------------
(***************************************************************************)
(* The safety properties of Store, for any threads, keys, calls and        *)
(* bounds.  Whatever a method does in a step, it adds at most one version, *)
(* under a token nobody else can name; and a placeholder stands only where *)
(* no item is.  Effect says this of every method at once; the inductive    *)
(* invariant Safe follows from Effect alone.                               *)
(***************************************************************************)
EXTENDS StoreProofs

\* A version a running clear was asked to remove is on a key it has yet to
\* reach; FlushLeavesNothing is what this says when no key is left.
MarkedUnswept ==
  \A t \in Threads : \A v \in marked[t] : v \in Resident => v[1] \in unswept[t]

\* A call under way has not been answered.
NotYetAnswered == \A t \in Threads : pc[t] # "idle" => reply[t] = "none"

Safe ==
  /\ TypedCalls
  /\ TokensAreFresh
  /\ ObservedTokenNamesOneValue
  /\ ExpiredStaysDead
  /\ MarkedUnswept
  /\ PlaceholderExclusive
  /\ NotYetAnswered

-----------------------------------------------------------------------------
(* What a step of a method does, by parts.                                  *)

OthersStay(t) ==
  \A u \in Threads \ {t} :
    /\ pc'[u] = pc[u] /\ todo'[u] = todo[u] /\ cas'[u] = cas[u]
    /\ values'[u] = values[u] /\ reply'[u] = reply[u]

\* Only k may receive an item, and that from `new`.
Gains(k, new) ==
  \A x \in Keys : \A i \in items'[x] : i \in items[x] \/ (x = k /\ i \in new)

\* A new item carries the thread's pending token, used up by the step, or the
\* token next_cas hands out in the step.
Tokens(t, new) ==
  \/ new = {} /\ next_cas' = next_cas /\ cas'[t] \in {0, cas[t]}
  \/ /\ next_cas' = next_cas /\ cas'[t] = 0 /\ cas[t] # 0
     /\ \A i \in new : i.cas = cas[t]
  \/ /\ next_cas' = next_cas + 1 /\ cas'[t] \in {0, cas[t]}
     /\ \A i \in new : i.cas = next_cas

\* A version found expired leaves the cache in the same step.
Judges == judged' \subseteq judged \cup (Resident \ Resident')

\* A client is told a value that is in the cache.
Sees(t) ==
  \A v \in values'[t] : v \in values[t] \/
    \E i \in items'[v.key] : i.cas = v.cas /\ i.data = v.data

\* The step leaves the thread no placeholder and puts no item beside another's.
GuardsKept(t) ==
  \A x \in Keys :
    /\ guard'[x] \subseteq guard[x] /\ t \notin guard'[x]
    /\ guard'[x] # {} => items'[x] \subseteq items[x]

GuardTaken(t) ==
  /\ guard' = [guard EXCEPT ![Key(t)] = Some(t)]
  /\ items' = items /\ items[Key(t)] = None
  /\ pc[t] # "vacant" /\ pc'[t] = "vacant" /\ todo'[t] = todo[t]

Effect(t, k, new) ==
  /\ k \in Keys /\ Gains(k, new) /\ Tokens(t, new) /\ Judges
  /\ OthersStay(t) /\ Sees(t) /\ (GuardsKept(t) \/ GuardTaken(t))
  /\ pc[t] # "idle" /\ (pc'[t] = "idle" \/ reply'[t] = reply[t])
  /\ UNCHANGED flushing

-----------------------------------------------------------------------------
(* From the effect to the invariant.                                        *)

\* Membership in Resident, before and after a step.
LEMMA ResidentMember ==
  /\ \A v : v \in Resident  <=> \E k \in Keys : \E i \in items[k]  : v = <<k, i.cas>>
  /\ \A v : v \in Resident' <=> \E k \in Keys : \E i \in items'[k] : v = <<k, i.cas>>
BY DEF Resident

LEMMA VersionMember ==
  /\ \A v : v \in Versions <=>
       v \in Resident \/ v \in judged \/ \E t \in Threads : v \in Observed(t) \/ v \in marked[t]
  /\ \A v : v \in Versions' <=>
       v \in Resident' \/ v \in judged' \/ \E t \in Threads : v \in Observed(t)' \/ v \in marked'[t]
BY DEF Versions

\* The token of a new item is no version's and no other thread's.
LEMMA NewTokenFresh ==
  ASSUME Safe, NEW t \in Threads, NEW new, NEW i \in new,
         Tokens(t, new), OthersStay(t)
  PROVE  /\ i.cas \in 1 .. next_cas' - 1
         /\ \A v \in Versions : v[2] # i.cas
         /\ \A j \in new : j.cas = i.cas
         /\ \A u \in Threads : i.cas \notin Pending(u)'
<1>1. next_cas \in Nat \ {0} /\ \A u \in Threads : cas[u] \in Nat
  BY DEF Safe, TypedCalls, TypeOK, CacheOK, CallsOK
<1>2. /\ \A v \in Versions : v[2] \in 1 .. next_cas - 1
      /\ \A u \in Threads : \A c \in Pending(u) :
           /\ c < next_cas /\ \A v \in Versions : v[2] # c
           /\ \A w \in Threads \ {u} : c \notin Pending(w)
  BY DEF Safe, TokensAreFresh
<1>3. CASE /\ next_cas' = next_cas /\ cas'[t] = 0 /\ cas[t] # 0
           /\ \A j \in new : j.cas = cas[t]
  <2>1. cas[t] \in Pending(t) /\ i.cas = cas[t]
    BY <1>3 DEF Pending
  <2>2. \A u \in Threads : i.cas \notin Pending(u)'
    BY <1>2, <1>3, <2>1 DEF Pending, OthersStay
  <2> QED
    BY <1>1, <1>2, <1>3, <2>1, <2>2
<1>4. CASE /\ next_cas' = next_cas + 1 /\ cas'[t] \in {0, cas[t]}
           /\ \A j \in new : j.cas = next_cas
  <2>1. \A u \in Threads : next_cas \notin Pending(u)
    BY <1>1, <1>2
  <2>2. \A v \in Versions : v[2] # next_cas
    BY <1>1, <1>2
  <2>3. \A u \in Threads : i.cas \notin Pending(u)'
    BY <1>1, <1>4, <2>1 DEF Pending, OthersStay
  <2> QED
    BY <1>1, <1>4, <2>2, <2>3
<1> QED
  BY <1>3, <1>4 DEF Tokens
\* A version present after the step was there before, or is new.
LEMMA ResidentGrows ==
  ASSUME NEW k \in Keys, NEW new, Gains(k, new), NEW v \in Resident'
  PROVE  v \in Resident \/ \E i \in new : v = <<k, i.cas>>
BY ResidentMember DEF Gains

\* A version that can be named after the step could be before, or is new.
LEMMA VersionsGrow ==
  ASSUME Safe, TypedCalls', NEW t \in Threads, NEW k, NEW new, Effect(t, k, new),
         NEW v \in Versions'
  PROVE  v \in Versions \/ \E i \in new : v = <<k, i.cas>>
<1>1. k \in Keys /\ Gains(k, new)
  BY DEF Effect
<1>2. CASE v \in Resident'
  BY <1>1, <1>2, ResidentGrows, VersionMember
<1>3. CASE v \in judged'
  BY <1>3, VersionMember DEF Effect, Judges
<1>4. ASSUME NEW u \in Threads, v \in marked'[u] PROVE v \in Versions
  BY <1>4, VersionMember DEF Effect, flushing
<1>5. ASSUME NEW u \in Threads, v \in Observed(u)'
      PROVE  v \in Versions \/ v \in Resident'
  <2>1. PICK w \in values'[u] : v = <<w.key, w.cas>>
    BY <1>5 DEF Observed
  <2>2. CASE w \in values[u]
    BY <2>1, <2>2, VersionMember DEF Observed
  <2>3. CASE u = t /\ \E i \in items'[w.key] : i.cas = w.cas /\ i.data = w.data
    <3>1. w.key \in Keys
      BY DEF TypedCalls, TypeOK, CallsOK
    <3> QED
      BY <2>1, <2>3, <3>1, ResidentMember
  <2> QED
    BY <2>1, <2>2, <2>3 DEF Effect, Sees, OthersStay
<1> QED
  BY <1>1, <1>2, <1>3, <1>4, <1>5, ResidentGrows, VersionMember

\* No ABA, as a step: a version somebody can name does not come back.
LEMMA NoReturn ==
  ASSUME Safe, NEW t \in Threads, NEW k, NEW new, Effect(t, k, new),
         NEW v \in Versions, v \notin Resident
  PROVE  v \notin Resident'
BY ResidentGrows, NewTokenFresh DEF Effect

LEMMA EffectTokens ==
  ASSUME Safe, TypedCalls', NEW t \in Threads, NEW k, NEW new, Effect(t, k, new)
  PROVE  TokensAreFresh'
<1>0. /\ k \in Keys /\ Gains(k, new) /\ Tokens(t, new) /\ OthersStay(t)
      /\ next_cas \in Nat \ {0} /\ next_cas' \in Nat \ {0}
      /\ \A u \in Threads : cas[u] \in Nat
  BY DEF Effect, Safe, TypedCalls, TypeOK, CacheOK, CallsOK
<1>1. next_cas <= next_cas'
  BY <1>0 DEF Tokens
<1>2. ASSUME NEW v \in Versions' PROVE v[2] \in 1 .. next_cas' - 1
  <2>1. CASE v \in Versions
    BY <1>0, <1>1, <2>1 DEF Safe, TokensAreFresh
  <2>2. ASSUME NEW i \in new, v = <<k, i.cas>> PROVE v[2] \in 1 .. next_cas' - 1
    BY <1>0, <2>2, NewTokenFresh
  <2> QED
    BY <2>1, <2>2, VersionsGrow
<1>3. ASSUME NEW v \in Resident', NEW w \in Resident', v[2] = w[2] PROVE v = w
  <2>1. CASE v \in Resident /\ w \in Resident
    BY <1>3, <2>1 DEF Safe, TokensAreFresh
  <2>2. ASSUME NEW i \in new, NEW x \in Versions PROVE x[2] # i.cas
    BY <1>0, NewTokenFresh
  <2>3. ASSUME NEW i \in new, NEW j \in new PROVE i.cas = j.cas
    BY <1>0, NewTokenFresh
  <2> QED
    BY <1>0, <1>3, <2>1, <2>2, <2>3, ResidentGrows, VersionMember
<1>4. ASSUME NEW u \in Threads, NEW c \in Pending(u)'
      PROVE  /\ c < next_cas'
             /\ \A v \in Versions' : v[2] # c
             /\ \A w \in Threads \ {u} : c \notin Pending(w)'
  <2>1. \A w \in Threads : \A d \in Pending(w)' : d \in Pending(w)
    BY <1>0 DEF Pending, OthersStay, Tokens
  <2>2. /\ c < next_cas /\ \A v \in Versions : v[2] # c
        /\ \A w \in Threads \ {u} : c \notin Pending(w)
    BY <1>4, <2>1 DEF Safe, TokensAreFresh
  <2>3. \A i \in new : i.cas # c
    BY <1>0, <1>4, NewTokenFresh
  <2>4. c < next_cas'
    <3>1. c \in Nat
      BY <1>0, <1>4, <2>1 DEF Pending
    <3> QED
      BY <1>0, <1>1, <2>2, <3>1
  <2> QED
    BY <2>1, <2>2, <2>3, <2>4, VersionsGrow
<1> QED
  BY <1>2, <1>3, <1>4 DEF TokensAreFresh
LEMMA EffectValues ==
  ASSUME Safe, TypedCalls', NEW t \in Threads, NEW k, NEW new, Effect(t, k, new)
  PROVE  ObservedTokenNamesOneValue'
<1> SUFFICES ASSUME NEW u \in Threads, NEW v \in values'[u], NEW item \in items'[v.key],
                    item.cas = v.cas
             PROVE  item.data = v.data
  BY DEF ObservedTokenNamesOneValue
<1>0. /\ v.key \in Keys /\ \A i \in items'[v.key] : i = item
      /\ Gains(k, new) /\ Tokens(t, new) /\ OthersStay(t)
  BY DEF TypedCalls, TypeOK, CallsOK, CacheOK, Option, Effect
<1>1. CASE v \in values[u]
  <2>1. <<v.key, v.cas>> \in Versions
    BY <1>1, VersionMember DEF Observed
  <2>2. item \in items[v.key]
    BY <1>0, <2>1, NewTokenFresh DEF Gains
  <2> QED
    BY <1>1, <2>2 DEF Safe, ObservedTokenNamesOneValue
<1>2. CASE \E i \in items'[v.key] : i.cas = v.cas /\ i.data = v.data
  BY <1>0, <1>2
<1> QED
  BY <1>0, <1>1, <1>2 DEF Effect, Sees, OthersStay

LEMMA EffectDead ==
  ASSUME Safe, NEW t \in Threads, NEW k, NEW new, Effect(t, k, new)
  PROVE  ExpiredStaysDead'
<1> SUFFICES ASSUME NEW v \in judged', v \in Resident' PROVE FALSE
  BY DEF ExpiredStaysDead
<1>1. v \in judged
  BY DEF Effect, Judges
<1>2. v \in Versions /\ v \notin Resident
  BY <1>1, VersionMember DEF Safe, ExpiredStaysDead
<1> QED
  BY <1>2, NoReturn

LEMMA EffectMarked ==
  ASSUME Safe, NEW t \in Threads, NEW k, NEW new, Effect(t, k, new)
  PROVE  MarkedUnswept'
<1> SUFFICES ASSUME NEW u \in Threads, NEW v \in marked'[u], v \in Resident'
             PROVE  v[1] \in unswept'[u]
  BY DEF MarkedUnswept
<1>1. v \in marked[u] /\ v \in Versions
  BY VersionMember DEF Effect, flushing
<1>2. v \in Resident
  BY <1>1, NoReturn
<1> QED
  BY <1>1, <1>2 DEF Effect, flushing, Safe, MarkedUnswept

LEMMA EffectGuards ==
  ASSUME Safe, TypedCalls', NEW t \in Threads, NEW k, NEW new, Effect(t, k, new)
  PROVE  PlaceholderExclusive'
<1> SUFFICES ASSUME NEW x \in Keys, NEW u \in guard'[x]
             PROVE  items'[x] = None /\ pc'[u] = "vacant" /\ Head(todo'[u]) = x
  BY DEF PlaceholderExclusive, Key
<1>0. u \in Threads /\ guard \in [Keys -> Option(Threads)] /\ OthersStay(t)
  BY DEF TypedCalls, TypeOK, CacheOK, Option, Effect, Safe
<1>1. ASSUME NEW w \in guard[x], w # t
      PROVE  items[x] = None /\ pc'[w] = "vacant" /\ Head(todo'[w]) = x
  BY <1>0, <1>1 DEF Safe, PlaceholderExclusive, Key, OthersStay, Option
<1>2. CASE GuardsKept(t)
  BY <1>1, <1>2 DEF GuardsKept, None
<1>3. CASE GuardTaken(t)
  <2>1. u = t \/ u \in guard[x]
    BY <1>0, <1>3 DEF GuardTaken, Some
  <2>2. CASE u = t
    <3>1. t \notin guard[x]
      BY <1>3 DEF GuardTaken, Safe, PlaceholderExclusive
    <3>2. x = Key(t)
      BY <1>0, <1>3, <2>2, <3>1 DEF GuardTaken
    <3> QED
      BY <1>3, <2>2, <3>2 DEF GuardTaken, Key
  <2>3. CASE u # t
    BY <1>1, <1>3, <2>1, <2>3 DEF GuardTaken
  <2> QED
    BY <2>2, <2>3
<1> QED
  BY <1>2, <1>3 DEF Effect

LEMMA EffectAnswered ==
  ASSUME Safe, NEW t \in Threads, NEW k, NEW new, Effect(t, k, new)
  PROVE  NotYetAnswered'
BY DEF Safe, NotYetAnswered, Effect, OthersStay

LEMMA EffectSafe ==
  ASSUME Safe, TypedCalls', NEW t \in Threads, NEW k, NEW new, Effect(t, k, new)
  PROVE  Safe'
BY EffectTokens, EffectValues, EffectDead, EffectMarked, EffectGuards, EffectAnswered
   DEF Safe
-----------------------------------------------------------------------------
(* The pieces a method's step is made of.                                   *)

\* How a step leaves the threads' own state.
Ends(t) ==
  /\ OthersStay(t) /\ Sees(t)
  /\ pc'[t] = "idle" \/ reply'[t] = reply[t]
  /\ cas'[t] \in {0, cas[t]}

LEMMA ReplyEnds ==
  ASSUME TypedCalls, NEW t \in Threads, NEW r, NEW counters, Reply(t, r, counters)
  PROVE  Ends(t) /\ cas'[t] = 0
BY DEF TypedCalls, TypeOK, CallsOK, Reply, Leave, Ends, OthersStay, Sees

LEMMA NextKeyEnds ==
  ASSUME TypedCalls, NEW t \in Threads, NEW got, NEW counters, NextKey(t, got, counters),
         \A v \in got : \E i \in items'[v.key] : i.cas = v.cas /\ i.data = v.data
  PROVE  Ends(t)
<1>1. Sees(t) /\ \A u \in Threads \ {t} : values'[u] = values[u]
  BY DEF TypedCalls, TypeOK, CallsOK, NextKey, Sees
<1>2. CASE Tail(todo[t]) = <<>>
  BY <1>1, <1>2 DEF TypedCalls, TypeOK, CallsOK, NextKey, Leave, Ends, OthersStay
<1>3. CASE Tail(todo[t]) # <<>>
  BY <1>1, <1>3 DEF TypedCalls, TypeOK, CallsOK, NextKey, Ends, OthersStay
<1> QED
  BY <1>2, <1>3

\* A thread holds no placeholder but that of its own vacant key.
LEMMA OwnGuard ==
  ASSUME Safe, NEW t \in Threads, NEW x \in Keys, t \in guard[x]
  PROVE  pc[t] = "vacant" /\ x = Key(t) /\ guard[x] = Some(t)
BY DEF Safe, PlaceholderExclusive, TypedCalls, TypeOK, CacheOK, Option, Some

\* A step that writes `new`, or nothing, to its key.
LEMMA WriteEffect ==
  ASSUME Safe, NEW t \in Threads, Working(t), pc[t] \in {"entry", "vacant"}, NEW new,
         \A x \in Keys : items'[x] \subseteq IF x = Key(t) THEN new ELSE items[x],
         \/ AtEntry(t) /\ guard' = guard
         \/ guard' = [guard EXCEPT ![Key(t)] = None],
         Tokens(t, new), Judges, Ends(t), UNCHANGED flushing
  PROVE  Effect(t, Key(t), new)
<1>1. Key(t) \in Keys /\ guard \in [Keys -> Option(Threads)]
  BY KeyType DEF Safe, TypedCalls, TypeOK, CacheOK
<1>2. GuardsKept(t)
  BY <1>1, OwnGuard DEF GuardsKept, AtEntry, None
<1>3. Gains(Key(t), new)
  BY DEF Gains
<1> QED
  BY <1>1, <1>2, <1>3 DEF Effect, Ends

\* A step that leaves the items alone.
LEMMA KeepEffect ==
  ASSUME Safe, NEW t \in Threads, Working(t),
         \/ Retain /\ AtEntry(t)
         \/ DropGuard(t),
         Ends(t), UNCHANGED flushing
  PROVE  Effect(t, Key(t), {})
<1>1. Key(t) \in Keys /\ guard \in [Keys -> Option(Threads)]
  BY KeyType DEF Safe, TypedCalls, TypeOK, CacheOK
<1>2. /\ items' = items /\ next_cas' = next_cas /\ judged' = judged
      /\ pc[t] \in {"entry", "vacant"}
  BY DEF Retain, DropGuard, AtEntry
<1>3. GuardsKept(t)
  <2>1. CASE Retain /\ AtEntry(t)
    BY <1>1, <2>1, OwnGuard DEF GuardsKept, Retain, AtEntry
  <2>2. CASE DropGuard(t)
    BY <1>1, <2>2, OwnGuard DEF GuardsKept, DropGuard, HoldsGuard, None
  <2> QED
    BY <2>1, <2>2
<1> QED
  BY <1>1, <1>2, <1>3 DEF Effect, Ends, Gains, Tokens, Judges

LEMMA VacantEffect ==
  ASSUME Safe, NEW t \in Threads, Working(t), EntryVacant(t), UNCHANGED flushing
  PROVE  Effect(t, Key(t), {})
<1>1. Key(t) \in Keys
  BY KeyType DEF Safe, TypedCalls
<1>2. GuardTaken(t)
  BY DEF EntryVacant, GuardTaken, AtEntry, Safe, TypedCalls, TypeOK, CallsOK
<1>3. OthersStay(t) /\ Sees(t)
  BY DEF EntryVacant, OthersStay, Sees, client, Safe, TypedCalls, TypeOK, CallsOK
<1> QED
  BY <1>1, <1>2, <1>3 DEF EntryVacant, AtEntry, Effect, Gains, Tokens, Judges, client

\* The version a callback finds expired is gone when its key has another token.
LEMMA JudgedGone ==
  ASSUME NEW t \in Threads, NEW item \in items[Key(t)], Key(t) \in Keys, Judge(t, item),
         \A i \in items'[Key(t)] : i.cas # item.cas
  PROVE  Judges
BY ResidentMember DEF Judges, Judge

LEMMA RemovedEffect ==
  ASSUME Safe, NEW t \in Threads, Working(t), EntryRemoved(t), Ends(t), UNCHANGED flushing
  PROVE  Effect(t, Key(t), {})
<1>1. Key(t) \in Keys /\ items \in [Keys -> Option(Item)] /\ pc[t] = "entry"
  BY KeyType DEF Safe, TypedCalls, TypeOK, CacheOK, EntryRemoved, AtEntry
<1>2. \A x \in Keys : items'[x] \subseteq IF x = Key(t) THEN {} ELSE items[x]
  BY <1>1 DEF EntryRemoved, None
<1>3. Judges
  BY <1>1, <1>2, JudgedGone DEF EntryRemoved
<1> QED
  BY <1>1, <1>2, <1>3, WriteEffect DEF EntryRemoved, Tokens, Ends

\* What Admit leaves in the cache.
LEMMA AdmitPlaces ==
  ASSUME NEW k, NEW item, Admit(k, item)
  PROVE  \A x \in Keys : items'[x] \subseteq IF x = k THEN {item} ELSE items[x]
BY DEF Admit, Some, None

\* A thread where it may write has its token, and no version carries it.
LEMMA HasToken ==
  ASSUME Safe, NEW t \in Threads, pc[t] \in {"entry", "vacant"}, cmd[t].op \in TokenOps
  PROVE  /\ cas[t] # 0
         /\ \A x \in Keys : \A i \in items[x] : i.cas # cas[t]
<1>1. cas[t] \in Pending(t)
  BY DEF Safe, TypedCalls, CallsWellFormed, Pending
<1>2. \A v \in Versions : v[2] # cas[t]
  BY <1>1 DEF Safe, TokensAreFresh
<1>3. \A x \in Keys : \A i \in items[x] : <<x, i.cas>> \in Versions
  BY ResidentMember, VersionMember
<1> QED
  BY <1>1, <1>2, <1>3 DEF Pending

\* A step that writes an item under the thread's pending token and answers.
LEMMA StoreEffect ==
  ASSUME Safe, NEW t \in Threads, Working(t), pc[t] \in {"entry", "vacant"},
         cmd[t].op \in TokenOps, NEW item, item.cas = cas[t],
         \A x \in Keys : items'[x] \subseteq IF x = Key(t) THEN {item} ELSE items[x],
         \/ AtEntry(t) /\ guard' = guard
         \/ guard' = [guard EXCEPT ![Key(t)] = None],
         next_cas' = next_cas,
         \/ judged' = judged
         \/ \E old \in items[Key(t)] : Judge(t, old),
         NEW r, NEW counters, Reply(t, r, counters), UNCHANGED flushing
  PROVE  Effect(t, Key(t), {item})
<1>1. Ends(t) /\ cas'[t] = 0 /\ Key(t) \in Keys
  BY ReplyEnds, KeyType DEF Safe, TypedCalls
<1>2. cas[t] # 0 /\ \A i \in items[Key(t)] : i.cas # cas[t]
  BY <1>1, HasToken
<1>3. Judges
  <2>1. \A i \in items'[Key(t)] : i.cas = cas[t]
    BY <1>1
  <2>2. ASSUME NEW old \in items[Key(t)], Judge(t, old) PROVE Judges
    BY <1>1, <1>2, <2>1, <2>2, JudgedGone
  <2>3. CASE judged' = judged
    BY <2>3 DEF Judges
  <2> QED
    BY <2>2, <2>3
<1>4. Tokens(t, {item})
  BY <1>1, <1>2 DEF Tokens
<1> QED
  BY <1>1, <1>3, <1>4, WriteEffect
-----------------------------------------------------------------------------
(* The methods.                                                             *)

\* Some effect on some key.
HasEffect(t) == \E k, new : Effect(t, k, new)

LEMMA LiveFacts ==
  ASSUME Safe, NEW t \in Threads, NEW item \in EntryLive(t)
  PROVE  /\ Working(t) /\ AtEntry(t) /\ Key(t) \in Keys
         /\ item \in items[Key(t)] /\ item \in Item
BY LiveWorking, EntryLiveType, KeyType DEF Safe, TypedCalls

\* Endings all methods share.
LEMMA VacantHasEffect ==
  ASSUME Safe, NEW t \in Threads, NEW names, Running(t, names), EntryVacant(t)
  PROVE  HasEffect(t)
<1>1. Working(t)
  BY AtWork DEF Safe, TypedCalls, EntryVacant, AtEntry
<1> QED
  BY <1>1, VacantEffect DEF HasEffect, Running

LEMMA AbsentHasEffect ==
  ASSUME Safe, NEW t \in Threads, NEW names, Running(t, names),
         EntryRemoved(t) \/ DropGuard(t),
         \/ \E r, counters : Reply(t, r, counters)
         \/ \E counters : NextKey(t, {}, counters)
  PROVE  HasEffect(t)
<1>1. Working(t)
  BY AtWork DEF Safe, TypedCalls, EntryRemoved, DropGuard, AtEntry
<1>2. Ends(t)
  BY ReplyEnds, NextKeyEnds DEF Safe
<1> QED
  BY <1>1, <1>2, RemovedEffect, KeepEffect DEF HasEffect, Running

LEMMA RetainHasEffect ==
  ASSUME Safe, NEW t \in Threads, NEW names, Running(t, names), EntryLive(t) # {}, Retain,
         NEW r, NEW counters, Reply(t, r, counters)
  PROVE  HasEffect(t)
BY LiveFacts, ReplyEnds, KeepEffect DEF HasEffect, Running, Safe

LEMMA RewriteHasEffect ==
  ASSUME Safe, NEW t \in Threads, NEW names, Running(t, names), cmd[t].op \in TokenOps,
         EntryLive(t) # {}, NEW item, item.cas = cas[t], Rewrite(t, item),
         NEW r, NEW counters, Reply(t, r, counters)
  PROVE  HasEffect(t)
<1>1. Working(t) /\ AtEntry(t) /\ pc[t] \in {"entry", "vacant"}
  BY LiveFacts DEF AtEntry
<1>2. \A x \in Keys : items'[x] \subseteq IF x = Key(t) THEN {item} ELSE items[x]
  BY AdmitPlaces DEF Rewrite
<1> QED
  BY <1>1, <1>2, StoreEffect DEF HasEffect, Running, Rewrite

LEMMA GetEffect ==
  ASSUME Safe, NEW t \in Threads, Get(t)
  PROVE  HasEffect(t)
<1>0. Running(t, {"get"})
  BY DEF Get
<1>1. CASE EntryVacant(t)
  BY <1>0, <1>1, VacantHasEffect
<1>2. ASSUME NEW counters, EntryRemoved(t) \/ DropGuard(t), NextKey(t, {}, counters)
      PROVE  HasEffect(t)
  BY <1>0, <1>2, AbsentHasEffect
<1>3. ASSUME NEW item \in EntryLive(t), Retain,
             NextKey(t, {Found(t, item)}, {"GET_HITS"})
      PROVE  HasEffect(t)
  <2>1. Working(t) /\ AtEntry(t) /\ item \in items'[Key(t)]
    BY <1>3, LiveFacts DEF Retain
  <2>2. Ends(t)
    BY <1>3, <2>1, NextKeyEnds DEF Found, Safe
  <2> QED
    BY <1>0, <1>3, <2>1, <2>2, KeepEffect DEF HasEffect, Running
<1> QED
  BY <1>1, <1>2, <1>3 DEF Get

LEMMA GetAndTouchEffect ==
  ASSUME Safe, NEW t \in Threads, GetAndTouch(t)
  PROVE  HasEffect(t)
<1>0. Running(t, {"gat"})
  BY DEF GetAndTouch
<1>1. CASE EntryVacant(t)
  BY <1>0, <1>1, VacantHasEffect
<1>2. ASSUME NEW counters, EntryRemoved(t) \/ DropGuard(t), NextKey(t, {}, counters)
      PROVE  HasEffect(t)
  BY <1>0, <1>2, AbsentHasEffect
<1> DEFINE touched(item) == [item EXCEPT !.cas = next_cas,
                     !.expires_at = ResolveExpiry(cmd[t].exptime, now[t])]
<1>3. ASSUME NEW item \in EntryLive(t),
             items' = [items EXCEPT ![Key(t)] = Some(touched(item))],
             next_cas' = next_cas + 1,
             UNCHANGED <<guard, evictions, judged>>,
             NextKey(t, {Found(t, touched(item))}, {"GET_HITS"})
      PROVE  HasEffect(t)
  <2>1. Working(t) /\ AtEntry(t) /\ item \in Item /\ Key(t) \in Keys
    BY <1>3, LiveFacts
  <2>2. touched(item).cas = next_cas
    BY <2>1 DEF Item
  <2> HIDE DEF touched
  <2>3. \A x \in Keys : items'[x] \subseteq IF x = Key(t) THEN {touched(item)} ELSE items[x]
    BY <1>3 DEF Safe, TypedCalls, TypeOK, CacheOK, Some
  <2>4. touched(item) \in items'[Key(t)]
    BY <1>3, <2>1 DEF Safe, TypedCalls, TypeOK, CacheOK, Some
  <2>5. Ends(t)
    BY <1>3, <2>4, NextKeyEnds DEF Found, Safe
  <2>6. Tokens(t, {touched(item)}) /\ Judges
    BY <1>3, <2>2, <2>5 DEF Tokens, Judges, Ends
  <2>7. pc[t] \in {"entry", "vacant"} /\ guard' = guard /\ UNCHANGED flushing
    BY <1>0, <1>3, <2>1 DEF AtEntry, Running
  <2> QED
    BY <2>1, <2>3, <2>5, <2>6, <2>7, WriteEffect DEF HasEffect
<1> QED
  BY <1>1, <1>2, <1>3 DEF GetAndTouch

LEMMA NewVersionCas ==
  ASSUME NEW t
  PROVE  NewVersion(t).cas = cas[t]
BY DEF NewVersion, NewItem

LEMMA SetEffect ==
  ASSUME Safe, NEW t \in Threads, Set(t)
  PROVE  HasEffect(t)
<1>1. Working(t) /\ pc[t] \in {"entry", "vacant"} /\ cmd[t].op \in TokenOps
  BY AtWork DEF Set, Running, Safe, TypedCalls, TokenOps
<1>2. \A x \in Keys : items'[x] \subseteq IF x = Key(t) THEN {NewVersion(t)} ELSE items[x]
  BY AdmitPlaces DEF Set
<1> QED
  BY <1>1, <1>2, StoreEffect, NewVersionCas DEF HasEffect, Set, Running

LEMMA AddEffect ==
  ASSUME Safe, NEW t \in Threads, Add(t)
  PROVE  HasEffect(t)
<1>0. Running(t, {"add"}) /\ cmd[t].op \in TokenOps
  BY DEF Add, Running, TokenOps
<1>1. CASE EntryVacant(t)
  BY <1>0, <1>1, VacantHasEffect
<1>2. ASSUME pc[t] \in {"entry", "vacant"}, Admit(Key(t), NewVersion(t)),
             \/ AtEntry(t) /\ guard' = guard
             \/ guard' = [guard EXCEPT ![Key(t)] = None],
             \/ judged' = judged
             \/ \E old \in items[Key(t)] : Judge(t, old),
             next_cas' = next_cas, Reply(t, "Stored", {"TOTAL_ITEMS"})
      PROVE  HasEffect(t)
  <2>1. Working(t)
    BY <1>2, AtWork DEF Safe, TypedCalls
  <2>2. \A x \in Keys : items'[x] \subseteq IF x = Key(t) THEN {NewVersion(t)} ELSE items[x]
    BY <1>2, AdmitPlaces
  <2> QED
    BY <1>0, <1>2, <2>1, <2>2, StoreEffect, NewVersionCas DEF HasEffect, Running
<1>3. CASE EntryLive(t) # {} /\ Retain /\ Reply(t, "NotStored", {})
  BY <1>0, <1>3, RetainHasEffect
<1>4. CASE DropGuard(t) /\ Reply(t, "NotStored", {})
  BY <1>0, <1>4, AbsentHasEffect
<1>5. CASE /\ AtEntry(t)
           /\ \E item \in items[Key(t)] : Stale(t, item) /\ Judge(t, item)
           /\ Admit(Key(t), NewVersion(t))
           /\ UNCHANGED <<guard, next_cas>>
           /\ Reply(t, "Stored", {"TOTAL_ITEMS"})
  BY <1>2, <1>5 DEF AtEntry
<1>6. CASE /\ pc[t] = "vacant" /\ HoldsGuard(t)
           /\ Admit(Key(t), NewVersion(t))
           /\ guard' = [guard EXCEPT ![Key(t)] = None]
           /\ UNCHANGED <<next_cas, judged>>
           /\ Reply(t, "Stored", {"TOTAL_ITEMS"})
  BY <1>2, <1>6
<1> QED
  BY <1>1, <1>3, <1>4, <1>5, <1>6 DEF Add
LEMMA ReplaceEffect ==
  ASSUME Safe, NEW t \in Threads, Replace(t)
  PROVE  HasEffect(t)
<1>0. Running(t, {"replace"}) /\ cmd[t].op \in TokenOps
  BY DEF Replace, Running, TokenOps
<1>1. CASE EntryVacant(t)
  BY <1>0, <1>1, VacantHasEffect
<1>2. CASE (EntryRemoved(t) \/ DropGuard(t)) /\ Reply(t, "NotStored", {})
  BY <1>0, <1>2, AbsentHasEffect
<1>3. CASE /\ EntryLive(t) # {} /\ Rewrite(t, NewVersion(t))
           /\ Reply(t, "Stored", {"TOTAL_ITEMS"})
  BY <1>0, <1>3, RewriteHasEffect, NewVersionCas
<1> QED
  BY <1>1, <1>2, <1>3 DEF Replace

LEMMA ConcatEffect ==
  ASSUME Safe, NEW t \in Threads, Concat(t)
  PROVE  HasEffect(t)
<1>0. Running(t, {"append", "prepend"}) /\ cmd[t].op \in TokenOps
  BY DEF Concat, Running, TokenOps
<1>1. CASE EntryVacant(t)
  BY <1>0, <1>1, VacantHasEffect
<1>2. CASE (EntryRemoved(t) \/ DropGuard(t)) /\ Reply(t, "NotStored", {})
  BY <1>0, <1>2, AbsentHasEffect
<1> DEFINE joined(item) == IF cmd[t].op = "append" THEN item.data \o cmd[t].data
                                                   ELSE cmd[t].data \o item.data
<1>3. ASSUME NEW item \in EntryLive(t),
             Rewrite(t, [item EXCEPT !.cas = cas[t], !.data = joined(item)]),
             Reply(t, "Stored", {"TOTAL_ITEMS"})
      PROVE  HasEffect(t)
  <2> HIDE DEF joined
  <2>1. [item EXCEPT !.cas = cas[t], !.data = joined(item)].cas = cas[t]
    BY <1>3, LiveFacts DEF Item
  <2> QED
    BY <1>0, <1>3, <2>1, RewriteHasEffect
<1> QED
  BY <1>1, <1>2, <1>3 DEF Concat

LEMMA CasEffect ==
  ASSUME Safe, NEW t \in Threads, Cas(t)
  PROVE  HasEffect(t)
<1>0. Running(t, {"cas"}) /\ cmd[t].op \in TokenOps
  BY DEF Cas, Running, TokenOps
<1>1. CASE EntryVacant(t)
  BY <1>0, <1>1, VacantHasEffect
<1>2. CASE (EntryRemoved(t) \/ DropGuard(t)) /\ Reply(t, "NotFound", {"CAS_MISSES"})
  BY <1>0, <1>2, AbsentHasEffect
<1>3. CASE EntryLive(t) # {} /\ Retain /\ Reply(t, "Exists", {"CAS_BADVAL"})
  BY <1>0, <1>3, RetainHasEffect
<1>4. CASE /\ EntryLive(t) # {} /\ Rewrite(t, NewVersion(t))
           /\ Reply(t, "Stored", {"CAS_HITS", "TOTAL_ITEMS"})
  BY <1>0, <1>4, RewriteHasEffect, NewVersionCas
<1> QED
  BY <1>1, <1>2, <1>3, <1>4 DEF Cas

LEMMA DeleteEffect ==
  ASSUME Safe, NEW t \in Threads, Delete(t)
  PROVE  HasEffect(t)
<1>1. Working(t) /\ pc[t] \in {"entry", "vacant"} /\ Key(t) \in Keys
  BY AtWork, KeyType DEF Delete, Safe, TypedCalls
<1>2. \A x \in Keys : items'[x] \subseteq IF x = Key(t) THEN {} ELSE items[x]
  BY DEF Delete, None, Safe, TypedCalls, TypeOK, CacheOK
<1>3. Judges
  BY <1>1, <1>2, JudgedGone DEF Delete, Judges
<1>4. Ends(t)
  BY ReplyEnds DEF Delete, Safe
<1>5. Tokens(t, {})
  BY <1>4 DEF Delete, Tokens, Ends
<1> QED
  BY <1>1, <1>2, <1>3, <1>4, <1>5, WriteEffect DEF HasEffect, Delete, Running

LEMMA ArithmeticEffect ==
  ASSUME Safe, NEW t \in Threads, Arithmetic(t)
  PROVE  HasEffect(t)
<1>0. Running(t, {"incr", "decr"}) /\ cmd[t].op \in TokenOps
  BY DEF Arithmetic, Running, TokenOps
<1>1. CASE EntryVacant(t)
  BY <1>0, <1>1, VacantHasEffect
<1>2. CASE (EntryRemoved(t) \/ DropGuard(t)) /\ Reply(t, "NotFound", MissesOf(cmd[t].op))
  BY <1>0, <1>2, AbsentHasEffect
<1>3. CASE EntryLive(t) # {} /\ Retain /\ Reply(t, "ClientError", {})
  BY <1>0, <1>3, RetainHasEffect
<1>4. ASSUME NEW item \in EntryLive(t), NEW text,
             Rewrite(t, [item EXCEPT !.data = text, !.cas = cas[t]]),
             Reply(t, "Number", HitsOf(cmd[t].op))
      PROVE  HasEffect(t)
  <2>1. [item EXCEPT !.data = text, !.cas = cas[t]].cas = cas[t]
    BY <1>4, LiveFacts DEF Item
  <2> QED
    BY <1>0, <1>4, <2>1, RewriteHasEffect
<1> QED
  BY <1>1, <1>2, <1>3, <1>4 DEF Arithmetic

LEMMA TouchEffect ==
  ASSUME Safe, NEW t \in Threads, Touch(t)
  PROVE  HasEffect(t)
<1>0. Running(t, {"touch"}) /\ cmd[t].op \in TokenOps
  BY DEF Touch, Running, TokenOps
<1>1. CASE EntryVacant(t)
  BY <1>0, <1>1, VacantHasEffect
<1>2. CASE (EntryRemoved(t) \/ DropGuard(t)) /\ Reply(t, "NotFound", {"TOUCH_MISSES"})
  BY <1>0, <1>2, AbsentHasEffect
<1> DEFINE touched(item) == [item EXCEPT !.cas = cas[t],
                     !.expires_at = ResolveExpiry(cmd[t].exptime, now[t])]
<1>3. ASSUME NEW item \in EntryLive(t),
             items' = [items EXCEPT ![Key(t)] = Some(touched(item))],
             UNCHANGED <<guard, evictions, next_cas, judged>>,
             Reply(t, "Touched", {"TOUCH_HITS"})
      PROVE  HasEffect(t)
  <2>1. Working(t) /\ AtEntry(t) /\ item \in Item /\ pc[t] \in {"entry", "vacant"}
    BY <1>3, LiveFacts DEF AtEntry
  <2>2. touched(item).cas = cas[t]
    BY <2>1 DEF Item
  <2> HIDE DEF touched
  <2>3. \A x \in Keys : items'[x] \subseteq IF x = Key(t) THEN {touched(item)} ELSE items[x]
    BY <1>3 DEF Safe, TypedCalls, TypeOK, CacheOK, Some
  <2> QED
    BY <1>0, <1>3, <2>1, <2>2, <2>3, StoreEffect DEF HasEffect, Running
<1> QED
  BY <1>1, <1>2, <1>3 DEF Touch

CallMethod(t) ==
  \/ Get(t) \/ GetAndTouch(t) \/ Set(t) \/ Add(t) \/ Replace(t) \/ Concat(t)
  \/ Cas(t) \/ Delete(t) \/ Arithmetic(t) \/ Touch(t)

\* Every method but a flush has an effect of this kind.
LEMMA MethodEffect ==
  ASSUME Safe, NEW t \in Threads, CallMethod(t)
  PROVE  HasEffect(t)
BY GetEffect, GetAndTouchEffect, SetEffect, AddEffect, ReplaceEffect, ConcatEffect,
   CasEffect, DeleteEffect, ArithmeticEffect, TouchEffect DEF CallMethod
-----------------------------------------------------------------------------
(* The steps that write no item: flushes, snapshots, the clock.             *)

\* No version, value or placeholder is added, and a thread that keeps a
\* placeholder is where it was.
Quiet ==
  /\ \A x \in Keys : items'[x] \subseteq items[x] /\ guard'[x] \subseteq guard[x]
  /\ judged' = judged
  /\ \A u \in Threads : values'[u] \subseteq values[u] /\ marked'[u] \subseteq marked[u] \cup Resident
  /\ \A u \in Threads : pc[u] = "vacant" => pc'[u] = pc[u] /\ todo'[u] = todo[u]

LEMMA QuietBegin ==
  ASSUME Safe, NEW t \in Threads, NEW c \in Commands, Begin(t, c)
  PROVE  Quiet
<1>1. items' = items /\ guard' = guard /\ judged' = judged
  BY DEF Begin, shared
<1>2. \A u \in Threads : values'[u] \subseteq values[u]
  BY DEF Begin, Safe, TypedCalls, TypeOK, CallsOK
<1>3. \A u \in Threads : marked'[u] \subseteq marked[u] \cup Resident
  BY DEF Begin, flushing, Safe, TypedCalls, TypeOK
<1>4. \A u \in Threads : pc[u] = "vacant" => pc'[u] = pc[u] /\ todo'[u] = todo[u]
  BY DEF Begin, Safe, TypedCalls, TypeOK, CallsOK
<1> QED
  BY <1>1, <1>2, <1>3, <1>4 DEF Quiet

LEMMA QuietSnapshot ==
  ASSUME Safe, NEW t \in Threads, LoadOldest(t) \/ TakeToken(t)
  PROVE  Quiet
BY DEF LoadOldest, TakeToken, Quiet, shared, flushing, client, Safe, TypedCalls,
       TypeOK, CallsOK, CacheOK

LEMMA QuietFlush ==
  ASSUME Safe, NEW t \in Threads, FlushDelayed(t) \/ ClearShard(t) \/ ClearDone(t)
  PROVE  Quiet /\ next_cas' = next_cas /\ \A u \in Threads : cas'[u] \in {0, cas[u]}
<1>1. CASE FlushDelayed(t)
  BY <1>1 DEF FlushDelayed, Reply, Leave, Quiet, shared, flushing, Safe, TypedCalls,
              TypeOK, CallsOK, CacheOK
<1>2. CASE ClearShard(t)
  BY <1>2 DEF ClearShard, Quiet, locals, client, None, Safe, TypedCalls, TypeOK,
              CallsOK, CacheOK
<1>3. CASE ClearDone(t)
  BY <1>3 DEF ClearDone, Reply, Leave, Quiet, shared, Safe, TypedCalls, TypeOK,
              CallsOK, CacheOK
<1> QED
  BY <1>1, <1>2, <1>3

LEMMA QuietClock ==
  ASSUME Tick \/ UNCHANGED vars
  PROVE  Quiet
BY DEF Tick, vars, shared, locals, client, flushing, Quiet

LEMMA QuietVersions ==
  ASSUME Safe, Quiet
  PROVE  Resident' \subseteq Resident /\ Versions' \subseteq Versions
<1>1. \A v \in Resident' : v \in Resident
  BY ResidentMember DEF Quiet
<1>2. \A u \in Threads : \A v \in Observed(u)' : v \in Observed(u)
  BY DEF Quiet, Observed
<1> QED
  BY <1>1, <1>2, VersionMember DEF Quiet

LEMMA QuietKeeps ==
  ASSUME Safe, TypedCalls', Quiet
  PROVE  ObservedTokenNamesOneValue' /\ ExpiredStaysDead' /\ PlaceholderExclusive'
<1>1. ObservedTokenNamesOneValue'
  <2> SUFFICES ASSUME NEW u \in Threads, NEW v \in values'[u], NEW item \in items'[v.key],
                      item.cas = v.cas
               PROVE  item.data = v.data
    BY DEF ObservedTokenNamesOneValue
  <2>1. v.key \in Keys /\ v \in values[u]
    BY DEF TypedCalls, TypeOK, CallsOK, Quiet
  <2> QED
    BY <2>1 DEF Quiet, Safe, ObservedTokenNamesOneValue
<1>2. ExpiredStaysDead'
  BY QuietVersions DEF Quiet, Safe, ExpiredStaysDead
<1>3. PlaceholderExclusive'
  <2> SUFFICES ASSUME NEW x \in Keys, NEW u \in guard'[x]
               PROVE  items'[x] = None /\ pc'[u] = "vacant" /\ Head(todo'[u]) = x
    BY DEF PlaceholderExclusive, Key
  <2>1. u \in guard[x] /\ u \in Threads
    BY DEF Quiet, Safe, TypedCalls, TypeOK, CacheOK, Option
  <2>2. items[x] = None /\ pc[u] = "vacant" /\ Head(todo[u]) = x
    BY <2>1 DEF Safe, PlaceholderExclusive, Key
  <2> QED
    BY <2>1, <2>2 DEF Quiet, None
<1> QED
  BY <1>1, <1>2, <1>3

LEMMA QuietTokens ==
  ASSUME Safe, Quiet, next_cas' = next_cas,
         \A u \in Threads : cas'[u] \in {0, cas[u]}
  PROVE  TokensAreFresh'
<1>1. \A u \in Threads : \A c \in Pending(u)' : c \in Pending(u)
  BY DEF Pending
<1> QED
  BY <1>1, QuietVersions DEF Safe, TokensAreFresh

LEMMA TakeTokenFresh ==
  ASSUME Safe, Quiet, NEW t \in Threads, TakeToken(t)
  PROVE  TokensAreFresh'
<1>0. next_cas \in Nat \ {0} /\ \A u \in Threads : cas[u] \in Nat
  BY DEF Safe, TypedCalls, TypeOK, CacheOK, CallsOK
<1>1. /\ next_cas' = next_cas + 1 /\ cas'[t] = next_cas
      /\ \A u \in Threads \ {t} : cas'[u] = cas[u]
  BY DEF TakeToken, Safe, TypedCalls, TypeOK, CallsOK
<1>2. \A v \in Versions' : v \in Versions /\ v[2] \in 1 .. next_cas - 1
  BY QuietVersions DEF Safe, TokensAreFresh
<1>3. \A v \in Versions' : v[2] \in 1 .. next_cas' - 1 /\ v[2] # next_cas
  BY <1>0, <1>1, <1>2
<1>4. \A v, w \in Resident' : v[2] = w[2] => v = w
  BY QuietVersions DEF Safe, TokensAreFresh
<1>5. \A u \in Threads \ {t} : Pending(u)' = Pending(u)
  BY <1>1 DEF Pending
<1>6. Pending(t)' = {next_cas}
  BY <1>0, <1>1 DEF Pending
<1>7. \A u \in Threads : \A c \in Pending(u) :
        /\ c < next_cas /\ \A v \in Versions : v[2] # c
        /\ \A w \in Threads \ {u} : c \notin Pending(w)
  BY DEF Safe, TokensAreFresh
<1>8. ASSUME NEW u \in Threads \ {t}, NEW c \in Pending(u)
      PROVE  /\ c < next_cas' /\ c # next_cas
             /\ \A v \in Versions' : v[2] # c
             /\ \A w \in Threads \ {u} : c \notin Pending(w)'
  <2>1. c \in Nat /\ c < next_cas
    BY <1>0, <1>7 DEF Pending
  <2>2. c < next_cas' /\ c # next_cas
    BY <1>0, <1>1, <2>1
  <2> QED
    BY <1>2, <1>5, <1>6, <1>7, <2>2
<1>9. /\ next_cas < next_cas' /\ \A v \in Versions' : v[2] # next_cas
      /\ \A w \in Threads \ {t} : next_cas \notin Pending(w)'
  BY <1>0, <1>1, <1>3, <1>5, <1>7
<1> QED
  BY <1>3, <1>4, <1>5, <1>6, <1>8, <1>9 DEF TokensAreFresh

LEMMA BeginSafe ==
  ASSUME Safe, TypedCalls', NEW t \in Threads, NEW c \in Commands, Begin(t, c)
  PROVE  Safe'
<1>1. Quiet /\ next_cas' = next_cas /\ cas' = cas
  BY QuietBegin DEF Begin, shared
<1>2. MarkedUnswept'
  <2> SUFFICES ASSUME NEW u \in Threads, NEW v \in marked'[u], v \in Resident'
               PROVE  v[1] \in unswept'[u]
    BY DEF MarkedUnswept
  <2>1. v \in Resident /\ v[1] \in Keys
    BY <1>1, QuietVersions, ResidentMember
  <2>2. CASE UNCHANGED flushing
    BY <2>1, <2>2 DEF flushing, Safe, MarkedUnswept
  <2>3. CASE /\ unswept' = [unswept EXCEPT ![t] = Keys]
             /\ marked' = [marked EXCEPT ![t] = Resident]
    BY <2>1, <2>3 DEF Safe, MarkedUnswept, TypedCalls, TypeOK
  <2> QED
    BY <2>2, <2>3 DEF Begin
<1>3. NotYetAnswered'
  BY DEF Begin, Safe, NotYetAnswered, TypedCalls, TypeOK, CallsOK
<1> QED
  BY <1>1, <1>2, <1>3, QuietKeeps, QuietTokens DEF Safe

LEMMA SnapshotSafe ==
  ASSUME Safe, TypedCalls', NEW t \in Threads, LoadOldest(t) \/ TakeToken(t)
  PROVE  Safe'
<1>1. Quiet
  BY QuietSnapshot
<1>2. TokensAreFresh'
  BY <1>1, TakeTokenFresh, QuietTokens DEF LoadOldest, shared
<1>3. MarkedUnswept'
  BY <1>1, QuietVersions DEF Safe, MarkedUnswept, LoadOldest, TakeToken, flushing
<1>4. NotYetAnswered'
  BY DEF LoadOldest, TakeToken, client, Safe, NotYetAnswered, TypedCalls, TypeOK, CallsOK
<1> QED
  BY <1>1, <1>2, <1>3, <1>4, QuietKeeps DEF Safe
LEMMA FlushSafe ==
  ASSUME Safe, TypedCalls', NEW t \in Threads,
         FlushDelayed(t) \/ ClearShard(t) \/ ClearDone(t)
  PROVE  Safe'
<1>1. Quiet /\ next_cas' = next_cas /\ \A u \in Threads : cas'[u] \in {0, cas[u]}
  BY QuietFlush
<1>2. MarkedUnswept'
  <2> SUFFICES ASSUME NEW u \in Threads, NEW v \in marked'[u], v \in Resident'
               PROVE  v[1] \in unswept'[u]
    BY DEF MarkedUnswept
  <2>1. v \in Resident
    BY <1>1, QuietVersions
  <2>2. CASE FlushDelayed(t)
    BY <2>1, <2>2 DEF FlushDelayed, flushing, Safe, MarkedUnswept
  <2>3. CASE ClearShard(t)
    <3>1. PICK k \in unswept[t] :
            /\ items' = [items EXCEPT ![k] = None]
            /\ unswept' = [unswept EXCEPT ![t] = @ \ {k}]
      BY <2>3 DEF ClearShard
    <3>2. v[1] # k
      BY <3>1, ResidentMember DEF None, Safe, TypedCalls, TypeOK, CacheOK
    <3>3. v \in marked[u]
      BY <2>3 DEF ClearShard
    <3> QED
      BY <2>1, <3>1, <3>2, <3>3 DEF Safe, MarkedUnswept, TypedCalls, TypeOK
  <2>4. CASE ClearDone(t)
    BY <2>1, <2>4 DEF ClearDone, Safe, MarkedUnswept, TypedCalls, TypeOK
  <2> QED
    BY <2>2, <2>3, <2>4
<1>3. NotYetAnswered'
  <2>1. /\ NotYetAnswered /\ reply \in [Threads -> Replies \cup {"none"}]
        /\ pc \in [Threads -> {"idle", "oldest", "token", "entry", "vacant", "flush"}]
    BY DEF Safe, TypedCalls, TypeOK, CallsOK
  <2>2. CASE FlushDelayed(t)
    BY <2>1, <2>2 DEF FlushDelayed, Reply, Leave, NotYetAnswered
  <2>3. CASE ClearShard(t)
    BY <2>1, <2>3 DEF ClearShard, locals, client, NotYetAnswered
  <2>4. CASE ClearDone(t)
    BY <2>1, <2>4 DEF ClearDone, Reply, Leave, NotYetAnswered
  <2> QED
    BY <2>2, <2>3, <2>4
<1> QED
  BY <1>1, <1>2, <1>3, QuietKeeps, QuietTokens DEF Safe

LEMMA StillSafe ==
  ASSUME Safe, TypedCalls', Tick \/ UNCHANGED vars
  PROVE  Safe'
<1>1. /\ UNCHANGED <<items, guard, judged, next_cas, pc, todo, cas, reply, values>>
      /\ UNCHANGED flushing
  BY DEF Tick, vars, shared, locals, client, flushing
<1>2. Quiet
  BY QuietClock
<1>3. MarkedUnswept' /\ NotYetAnswered'
  BY <1>1, <1>2, QuietVersions DEF flushing, Safe, MarkedUnswept, NotYetAnswered
<1> QED
  BY <1>1, <1>2, <1>3, QuietKeeps, QuietTokens DEF Safe

LEMMA InitSafe ==
  ASSUME Init
  PROVE  Safe
<1>1. \A v : v \notin Resident
  BY ResidentMember DEF Init, None
<1>2. \A v : v \notin Versions
  BY <1>1, VersionMember DEF Init, Observed
<1>3. TokensAreFresh
  BY <1>1, <1>2 DEF TokensAreFresh, Init, Pending
<1> QED
  BY <1>1, <1>3, InitTyped DEF Init, Safe, ObservedTokenNamesOneValue, ExpiredStaysDead,
     MarkedUnswept, PlaceholderExclusive, NotYetAnswered, None

\* Every step keeps the invariant.
LEMMA NextSafe ==
  ASSUME Safe, [Next]_vars
  PROVE  Safe'
<1>0. TypedCalls'
  BY NextTyped DEF Safe
<1>1. ASSUME NEW t \in Threads, Step(t) PROVE Safe'
  <2>1. CASE LoadOldest(t) \/ TakeToken(t)
    BY <1>0, <2>1, SnapshotSafe
  <2>2. CASE CallMethod(t)
    BY <1>0, <2>2, MethodEffect, EffectSafe DEF HasEffect
  <2>3. CASE FlushDelayed(t) \/ ClearShard(t) \/ ClearDone(t)
    BY <1>0, <2>3, FlushSafe
  <2> QED
    BY <1>1, <2>1, <2>2, <2>3 DEF Step, Method, CallMethod
<1> QED
  BY <1>0, <1>1, BeginSafe, StillSafe DEF Next, Rest

LEMMA SafeAlways == Spec => []Safe
<1>1. Init => Safe
  BY InitSafe
<1>2. Safe /\ [Next]_vars => Safe'
  BY NextSafe
<1> QED
  BY <1>1, <1>2, PTL DEF Spec
-----------------------------------------------------------------------------
(* The theorems.                                                            *)

\* A token is written once, to one version of one key, however long its thread
\* was delayed after the fetch_add.
THEOREM TokensFresh == Spec => []TokensAreFresh
BY SafeAlways, PTL DEF Safe

\* A key that still carries the token a client was told still has the value it
\* was told.
THEOREM TokenNamesValue == Spec => []ObservedTokenNamesOneValue
BY SafeAlways, PTL DEF Safe

\* A version found expired once is never in the cache again.
THEOREM ExpiredGone == Spec => []ExpiredStaysDead
BY SafeAlways, PTL DEF Safe

\* A placeholder stands where no item is, and its owner is at work there.
THEOREM Placeholders == Spec => []PlaceholderExclusive
BY SafeAlways, PTL DEF Safe

\* When an immediate flush_all has swept every key, no version that was resident
\* when it was asked is left.
THEOREM FlushComplete == Spec => []FlushLeavesNothing
<1>1. Safe => FlushLeavesNothing
  BY DEF Safe, MarkedUnswept, FlushLeavesNothing
<1> QED
  BY <1>1, SafeAlways, PTL

\* Every step has an effect on one key, or is quiet.
LEMMA QuietOrCall ==
  ASSUME Safe, [Next]_vars
  PROVE  Quiet \/ \E t \in Threads : CallMethod(t)
<1>1. ASSUME NEW t \in Threads, Step(t) PROVE Quiet \/ CallMethod(t)
  BY <1>1, QuietSnapshot, QuietFlush DEF Step, Method, CallMethod
<1> QED
  BY <1>1, QuietBegin, QuietClock DEF Next, Rest

LEMMA StepKinds ==
  ASSUME Safe, [Next]_vars
  PROVE  Quiet \/ \E t \in Threads : HasEffect(t)
BY QuietOrCall, MethodEffect

\* No ABA: once a version a client was told is gone, no step brings it back.
THEOREM NoABA == Spec => ObservedVersionNeverReturns
<1>1. Safe /\ [Next]_vars =>
        [\A t \in Threads : \A v \in Observed(t) : v \notin Resident => v \notin Resident']_vars
  <2> SUFFICES ASSUME Safe, [Next]_vars, NEW t \in Threads, NEW v \in Observed(t),
                      v \notin Resident
               PROVE  v \notin Resident'
    OBVIOUS
  <2>1. v \in Versions
    BY VersionMember
  <2>2. CASE Quiet
    BY <2>2, QuietVersions
  <2>3. ASSUME NEW u \in Threads, HasEffect(u) PROVE v \notin Resident'
    BY <2>1, <2>3, NoReturn DEF HasEffect
  <2> QED
    BY <2>2, <2>3, StepKinds
<1> QED
  BY <1>1, SafeAlways, PTL DEF Spec, ObservedVersionNeverReturns

LEMMA AddStep ==
  ASSUME Safe, NEW t \in Threads, Add(t), reply'[t] = "Stored"
  PROVE  \A item \in items[Key(t)] : Stale(t, item)
<1>0. pc[t] # "idle" => reply[t] = "none"
  BY DEF Safe, NotYetAnswered
<1>1. ASSUME NEW r, NEW counters, Reply(t, r, counters) PROVE reply'[t] = r
  BY <1>1 DEF Reply, Leave, Safe, TypedCalls, TypeOK, CallsOK
<1>2. CASE EntryVacant(t)
  BY <1>0, <1>2 DEF EntryVacant, AtEntry, client
<1>3. CASE Reply(t, "NotStored", {})
  BY <1>1, <1>3
<1>4. ASSUME AtEntry(t), NEW old \in items[Key(t)], Stale(t, old)
      PROVE  \A item \in items[Key(t)] : Stale(t, item)
  <2>1. Key(t) \in Keys
    BY <1>4, AtWork, KeyType DEF AtEntry, Safe, TypedCalls
  <2> QED
    BY <1>4, <2>1 DEF Safe, TypedCalls, TypeOK, CacheOK, Option
<1>5. CASE pc[t] = "vacant" /\ HoldsGuard(t)
  <2>1. Key(t) \in Keys
    BY <1>5, AtWork, KeyType DEF Safe, TypedCalls
  <2> QED
    BY <1>5, <2>1 DEF HoldsGuard, Some, None, Safe, PlaceholderExclusive
<1> QED
  BY <1>2, <1>3, <1>4, <1>5 DEF Add

\* An add answers Stored only if its own snapshot saw nothing alive in its key,
\* whatever was stored between its `entry` and its guard's insert.
THEOREM AddRespectsStored == Spec => AddNeverOverwrites
<1>1. Safe /\ [Next]_vars =>
        [\A t \in Threads :
           cmd[t].op = "add" /\ reply'[t] = "Stored" /\ pc[t] # "idle"
             => \A item \in items[Key(t)] : Stale(t, item)]_vars
  <2> SUFFICES ASSUME Safe, [Next]_vars, NEW t \in Threads, cmd[t].op = "add",
                      reply'[t] = "Stored", pc[t] # "idle"
               PROVE  \A item \in items[Key(t)] : Stale(t, item)
    OBVIOUS
  <2>0. reply[t] # "Stored"
    BY DEF Safe, NotYetAnswered
  <2>1. ASSUME NEW u \in Threads, CallMethod(u) PROVE Add(t)
    <3>1. CASE u = t
      BY <2>1, <3>1 DEF CallMethod, Get, GetAndTouch, Set, Replace, Concat, Cas, Delete,
                        Arithmetic, Touch, Running
    <3>2. CASE u # t
      BY <2>0, <2>1, <3>2, MethodEffect DEF HasEffect, Effect, OthersStay
    <3> QED
      BY <3>1, <3>2
  <2>2. ASSUME NEW u \in Threads, FlushDelayed(u) \/ ClearShard(u) \/ ClearDone(u)
        PROVE  FALSE
    BY <2>0, <2>2 DEF FlushDelayed, ClearShard, ClearDone, Reply, Leave, client, Safe,
                      TypedCalls, TypeOK, CallsOK
  <2>3. ASSUME NEW u \in Threads, LoadOldest(u) \/ TakeToken(u) PROVE FALSE
    BY <2>0, <2>3 DEF LoadOldest, TakeToken, client
  <2>4. ASSUME NEW u \in Threads, NEW c \in Commands, Begin(u, c) PROVE FALSE
    BY <2>0, <2>4 DEF Begin, Safe, TypedCalls, TypeOK, CallsOK
  <2>5. CASE Tick \/ UNCHANGED vars
    BY <2>0, <2>5 DEF Tick, vars, client
  <2> QED
    BY <2>1, <2>2, <2>3, <2>4, <2>5, AddStep DEF Next, Rest, Step, Method, CallMethod
<1> QED
  BY <1>1, SafeAlways, PTL DEF Spec, AddNeverOverwrites

-----------------------------------------------------------------------------
(* Late guards.                                                             *)

\* Leaving its vacant key, a thread has answered for it, or stored in it
\* through a guard it still held.
LEMMA LeavesVacant ==
  ASSUME NEW t \in Threads, CallMethod(t), pc[t] = "vacant"
  PROVE  DropGuard(t) \/ HoldsGuard(t)
<1>1. ~ EntryVacant(t) /\ ~ EntryRemoved(t) /\ EntryLive(t) = {}
  BY DEF EntryVacant, EntryRemoved, EntryLive, AtEntry
<1>2. ~ Set(t) /\ ~ Delete(t)
  BY DEF Set, Delete
<1>3. CASE Get(t) \/ GetAndTouch(t)
  BY <1>1, <1>3 DEF Get, GetAndTouch
<1>4. CASE Add(t)
  BY <1>1, <1>4 DEF Add, AtEntry
<1>5. CASE Replace(t) \/ Concat(t) \/ Cas(t) \/ Arithmetic(t) \/ Touch(t)
  BY <1>1, <1>5 DEF Replace, Concat, Cas, Arithmetic, Touch
<1> QED
  BY <1>2, <1>3, <1>4, <1>5 DEF CallMethod

\* A guard that outlived its placeholder does nothing to its key, whatever has
\* been put there since.
THEOREM LateGuards == Spec => LateGuardTouchesNothing
<1>1. Safe /\ [Next]_vars =>
        [\A t \in Threads :
           pc[t] = "vacant" /\ ~ HoldsGuard(t) /\ pc'[t] # "vacant"
             => UNCHANGED <<items, guard>>]_vars
  <2> SUFFICES ASSUME Safe, [Next]_vars, NEW t \in Threads, pc[t] = "vacant",
                      ~ HoldsGuard(t), pc'[t] # "vacant"
               PROVE  UNCHANGED <<items, guard>>
    OBVIOUS
  <2>1. CASE Quiet
    BY <2>1 DEF Quiet
  <2>2. ASSUME NEW u \in Threads, CallMethod(u) PROVE u = t
    BY <2>2, MethodEffect DEF HasEffect, Effect, OthersStay
  <2>3. CASE CallMethod(t)
    BY <2>3, LeavesVacant DEF DropGuard
  <2>4. CASE Quiet \/ \E u \in Threads : CallMethod(u)
    BY <2>1, <2>2, <2>3, <2>4
  <2> QED
    BY <2>4, QuietOrCall
<1> QED
  BY <1>1, SafeAlways, PTL DEF Spec, LateGuardTouchesNothing

-----------------------------------------------------------------------------
(* Arithmetic.                                                              *)

\* An incr or decr that answers a number has moved the number it found.
LEMMA NumberStep ==
  ASSUME Safe, NEW t \in Threads, Arithmetic(t), reply'[t] = "Number"
  PROVE  \E old \in items[Key(t)] : \A new \in items'[Key(t)] :
           \E n \in ParseU64(old.data) : \E m \in ParseU64(new.data) :
             Moved(cmd[t], n, m)
<1>0. pc[t] # "idle" => reply[t] = "none"
  BY DEF Safe, NotYetAnswered
<1>1. ASSUME NEW r, NEW counters, Reply(t, r, counters) PROVE reply'[t] = r
  BY <1>1 DEF Reply, Leave, Safe, TypedCalls, TypeOK, CallsOK
<1>2. CASE EntryVacant(t)
  BY <1>0, <1>2 DEF EntryVacant, AtEntry, client
<1>3. CASE Reply(t, "NotFound", MissesOf(cmd[t].op)) \/ Reply(t, "ClientError", {})
  BY <1>1, <1>3
<1> DEFINE to(val) == IF cmd[t].op = "incr" THEN WrappingAdd(val, cmd[t].delta)
                                            ELSE SaturatingSub(val, cmd[t].delta)
<1>4. ASSUME NEW item \in EntryLive(t), NEW val \in ParseU64(item.data),
             Rewrite(t, [item EXCEPT !.data = FormatU64(to(val)), !.cas = cas[t]])
      PROVE  \E old \in items[Key(t)] : \A new \in items'[Key(t)] :
               \E n \in ParseU64(old.data) : \E m \in ParseU64(new.data) :
                 Moved(cmd[t], n, m)
  <2>1. item \in items[Key(t)] /\ item \in Item /\ Key(t) \in Keys /\ Working(t)
    BY <1>4, LiveFacts
  <2>2. val \in U64 /\ cmd[t].delta \in U64
    BY <1>4, <2>1, ParseType, CommandType DEF Safe, TypedCalls
  <2>3. to(val) \in U64
    BY <2>2, ArithmeticType
  <2>4. Moved(cmd[t], val, to(val))
    <3>1. CASE cmd[t].op = "incr"
      BY <2>2, <3>1, WrapsOnce DEF Moved
    <3>2. CASE cmd[t].op # "incr"
      BY <2>2, <3>2 DEF Moved, SaturatingSub, U64
    <3> QED
      BY <3>1, <3>2
  <2> HIDE DEF to
  <2> DEFINE put == [item EXCEPT !.data = FormatU64(to(val)), !.cas = cas[t]]
  <2>5. put.data = FormatU64(to(val))
    BY <2>1 DEF Item
  <2> HIDE DEF put
  <2>6. items'[Key(t)] \subseteq {put}
    BY <1>4, <2>1, AdmitPlaces DEF Rewrite, put
  <2>7. to(val) \in ParseU64(FormatU64(to(val)))
    BY <2>3, FormatAssumption DEF Some
  <2> QED
    BY <1>4, <2>1, <2>4, <2>5, <2>6, <2>7
<1> QED
  BY <1>2, <1>3, <1>4 DEF Arithmetic

\* No update is lost: an incr or decr moves the number its key holds at the very
\* step, and within the u64 (store.rs:424).
THEOREM NoUpdateLost == Spec => NumbersAddUp
<1>1. Safe /\ [Next]_vars =>
        [\A t \in Threads :
           cmd[t].op \in {"incr", "decr"} /\ reply'[t] = "Number" /\ pc[t] # "idle"
             => \E old \in items[Key(t)] : \A new \in items'[Key(t)] :
                  \E n \in ParseU64(old.data) : \E m \in ParseU64(new.data) :
                    Moved(cmd[t], n, m)]_vars
  <2> SUFFICES ASSUME Safe, [Next]_vars, NEW t \in Threads,
                      cmd[t].op \in {"incr", "decr"}, reply'[t] = "Number", pc[t] # "idle"
               PROVE  \E old \in items[Key(t)] : \A new \in items'[Key(t)] :
                        \E n \in ParseU64(old.data) : \E m \in ParseU64(new.data) :
                          Moved(cmd[t], n, m)
    OBVIOUS
  <2>0. reply[t] # "Number"
    BY DEF Safe, NotYetAnswered
  <2>1. ASSUME NEW u \in Threads, CallMethod(u) PROVE Arithmetic(t)
    <3>1. CASE u = t
      BY <2>1, <3>1 DEF CallMethod, Get, GetAndTouch, Set, Add, Replace, Concat, Cas, Delete,
                        Touch, Running
    <3>2. CASE u # t
      BY <2>0, <2>1, <3>2, MethodEffect DEF HasEffect, Effect, OthersStay
    <3> QED
      BY <3>1, <3>2
  <2>2. ASSUME NEW u \in Threads, FlushDelayed(u) \/ ClearShard(u) \/ ClearDone(u)
        PROVE  FALSE
    BY <2>0, <2>2 DEF FlushDelayed, ClearShard, ClearDone, Reply, Leave, client, Safe,
                      TypedCalls, TypeOK, CallsOK
  <2>3. ASSUME NEW u \in Threads, LoadOldest(u) \/ TakeToken(u) PROVE FALSE
    BY <2>0, <2>3 DEF LoadOldest, TakeToken, client
  <2>4. ASSUME NEW u \in Threads, NEW c \in Commands, Begin(u, c) PROVE FALSE
    BY <2>0, <2>4 DEF Begin, Safe, TypedCalls, TypeOK, CallsOK
  <2>5. CASE Tick \/ UNCHANGED vars
    BY <2>0, <2>5 DEF Tick, vars, client
  <2> QED
    BY <2>1, <2>2, <2>3, <2>4, <2>5, NumberStep DEF Next, Rest, Step, Method, CallMethod
<1> QED
  BY <1>1, SafeAlways, PTL DEF Spec, NumbersAddUp
=============================================================================
