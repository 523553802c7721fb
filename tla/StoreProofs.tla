---------------------------- MODULE StoreProofs ----------------------------
(***************************************************************************)
(* Theorems about Store, for any threads, keys, calls and bounds.  First   *)
(* the typing of the steps the methods are built from, then the methods;   *)
(* then what each of them counts.                                          *)
(***************************************************************************)
EXTENDS Store, FiniteSetTheorems, TLAPS

Labels == {"idle", "oldest", "token", "entry", "vacant", "flush"}

\* What a thread is doing allows it to use its key and its command.
Working(t) == cmd[t] \in Commands /\ todo[t] # <<>>

-----------------------------------------------------------------------------
(* Values.                                                                  *)

\* An expiry resolved from any exptime at any time is a time or none.
LEMMA ResolveExpiryType ==
  ASSUME NEW exptime \in Int, NEW time \in Nat
  PROVE  ResolveExpiry(exptime, time) \in Option(Nat)
<1>1. None \in Option(Nat) /\ \A x \in Nat : Some(x) \in Option(Nat)
  BY DEF Option, Some, None
<1> QED
  BY <1>1, ThirtyDaysAssumption DEF ResolveExpiry

\* An item of a storage command is an Item.
LEMMA NewItemType ==
  ASSUME NEW data \in Data, NEW exptime \in Int, NEW token \in Nat, NEW time \in Nat
  PROVE  NewItem(data, exptime, token, time) \in Item
BY ResolveExpiryType DEF NewItem, Item

\* incr wraps and decr saturates within a u64 (store.rs:424-425).
LEMMA ArithmeticType ==
  ASSUME NEW val \in U64, NEW delta \in U64
  PROVE  WrappingAdd(val, delta) \in U64 /\ SaturatingSub(val, delta) \in U64
BY ModulusAssumption DEF U64, WrappingAdd, SaturatingSub

LEMMA RemainderIs ==
  ASSUME NEW m \in Nat \ {0}, NEW x \in 0 .. 2 * m - 2
  PROVE  x % m \in {x, x - m}
OBVIOUS

\* Where the sum leaves the u64 it goes round once (store.rs:424).
LEMMA WrapsOnce ==
  ASSUME NEW val \in U64, NEW delta \in U64
  PROVE  WrappingAdd(val, delta) \in {val + delta, val + delta - Modulus}
<1> DEFINE sum == val + delta
<1>1. Modulus \in Nat \ {0} /\ sum \in 0 .. 2 * Modulus - 2
  BY ModulusAssumption DEF U64
<1>2. WrappingAdd(val, delta) = sum % Modulus
  BY DEF WrappingAdd
<1> HIDE DEF sum
<1>3. sum % Modulus \in {sum, sum - Modulus}
  BY <1>1, RemainderIs
<1> QED
  BY <1>2, <1>3, ModulusAssumption DEF sum, U64

LEMMA ParseType ==
  ASSUME NEW text, NEW n \in ParseU64(text)
  PROVE  n \in U64
BY DEF ParseU64, None, Some

\* What incr and decr write back is a payload.
LEMMA FormatType ==
  ASSUME NEW n \in U64
  PROVE  FormatU64(n) \in Data
BY FormatAssumption DEF Data

-----------------------------------------------------------------------------
(* The steps the methods are built from.                                    *)

LEMMA KeyType ==
  ASSUME TypeOK, NEW t \in Threads, Working(t)
  PROVE  Key(t) \in Keys /\ Tail(todo[t]) \in Seq(Keys)
BY DEF TypeOK, CallsOK, Working, Key

LEMMA CommandType ==
  ASSUME NEW t \in Threads, Working(t)
  PROVE  /\ cmd[t].exptime \in Int /\ cmd[t].data \in Data /\ cmd[t].delta \in U64
         /\ cmd[t].op \in Ops
BY CommandsAssumption DEF Working, Command

\* Counting leaves every counter a number.
LEMMA CountType ==
  ASSUME TypeOK, NEW counters, NEW n \in Nat, Count(counters, n)
  PROVE  stats' \in [Counters -> Nat]
BY DEF TypeOK, Count

LEMMA LeaveType ==
  ASSUME TypeOK, NEW t \in Threads, NEW r \in Replies, Leave(t, r),
         values' \in [Threads -> SUBSET [key: Keys, data: Data, cas: Nat]]
  PROVE  CallsOK'
<1>1. None \in Option(Nat) /\ <<>> \in Seq(Keys)
  BY DEF Option, None
<1>2. cmd' \in [Threads -> Command \cup {Nop}] /\ pc' \in [Threads -> Labels]
  BY DEF TypeOK, CallsOK, Leave, Labels
<1>3. /\ now' \in [Threads -> Nat] /\ cas' \in [Threads -> Nat]
      /\ reply' \in [Threads -> Replies \cup {"none"}]
  BY DEF TypeOK, CallsOK, Leave
<1>4. todo' \in [Threads -> Seq(Keys)] /\ oldest' \in [Threads -> Option(Nat)]
  BY <1>1 DEF TypeOK, CallsOK, Leave
<1> QED
  BY <1>2, <1>3, <1>4 DEF CallsOK, Labels

\* Going on to the next key, or answering with the values.
LEMMA NextKeyType ==
  ASSUME TypeOK, NEW t \in Threads, Working(t), NEW counters,
         NEW got \in SUBSET [key: Keys, data: Data, cas: Nat],
         NextKey(t, got, counters)
  PROVE  CallsOK' /\ stats' \in [Counters -> Nat]
<1>1. stats' \in [Counters -> Nat]
  BY CountType DEF NextKey
<1>2. values' \in [Threads -> SUBSET [key: Keys, data: Data, cas: Nat]]
  BY DEF NextKey, TypeOK, CallsOK
<1>3. CASE Tail(todo[t]) = <<>>
  <2>1. Leave(t, "Values") /\ "Values" \in Replies
    BY <1>3 DEF NextKey, Replies
  <2> QED
    BY <1>1, <1>2, <2>1, LeaveType
<1>4. CASE Tail(todo[t]) # <<>>
  BY <1>1, <1>2, <1>4, KeyType DEF NextKey, TypeOK, CallsOK
<1> QED
  BY <1>1, <1>3, <1>4

\* Taking in an item keeps one item at most for a key, whatever is evicted.
LEMMA AdmitType ==
  ASSUME TypeOK, NEW k \in Keys, NEW item \in Item, Admit(k, item)
  PROVE  items' \in [Keys -> Option(Item)] /\ evictions' \in Nat
<1>1. PICK victims \in SUBSET {x \in Keys : x = k \/ items[x] # None} :
        /\ evictions' = evictions + Cardinality(victims)
        /\ items' = [x \in Keys |-> IF x \in victims THEN None
                                    ELSE IF x = k THEN Some(item) ELSE items[x]]
  BY DEF Admit
<1>2. Cardinality(victims) \in Nat
  BY <1>1, KeysAssumption, FS_Subset, FS_CardinalityType
<1>3. None \in Option(Item) /\ Some(item) \in Option(Item)
  BY DEF Option, Some, None
<1> QED
  BY <1>1, <1>2, <1>3 DEF TypeOK, CacheOK

\* A method that ends in Reply.
LEMMA ReplyType ==
  ASSUME TypeOK, NEW t \in Threads, NEW r \in Replies, NEW counters,
         Reply(t, r, counters)
  PROVE  CallsOK' /\ stats' \in [Counters -> Nat]
<1>1. values' \in [Threads -> SUBSET [key: Keys, data: Data, cas: Nat]]
  BY DEF Reply, TypeOK, CallsOK
<1> QED
  BY <1>1, LeaveType, CountType DEF Reply

\* Finding a key vacant keeps the types.
LEMMA EntryVacantType ==
  ASSUME TypeOK, NEW t \in Threads, Working(t), EntryVacant(t)
  PROVE  CacheOK' /\ CallsOK' /\ stats' \in [Counters -> Nat]
<1>1. Some(t) \in Option(Threads)
  BY DEF Option, Some
<1> QED
  BY <1>1, KeyType DEF EntryVacant, TypeOK, CacheOK, CallsOK, client

\* Removing an expired item keeps the types.
LEMMA EntryRemovedType ==
  ASSUME TypeOK, NEW t \in Threads, Working(t), EntryRemoved(t)
  PROVE  CacheOK'
<1>1. None \in Option(Item)
  BY DEF Option, None
<1>2. PICK item \in items[Key(t)] : Judge(t, item)
  BY DEF EntryRemoved
<1>3. item.cas \in Nat
  BY <1>2, KeyType DEF TypeOK, CacheOK, Option, Item
<1> QED
  BY <1>1, <1>2, <1>3, KeyType DEF EntryRemoved, TypeOK, CacheOK, Judge

LEMMA DropGuardType ==
  ASSUME TypeOK, NEW t \in Threads, Working(t), DropGuard(t)
  PROVE  CacheOK'
<1>1. None \in Option(Threads)
  BY DEF Option, None
<1> QED
  BY <1>1, KeyType DEF DropGuard, TypeOK, CacheOK

LEMMA RetainType ==
  ASSUME TypeOK, Retain
  PROVE  CacheOK'
BY DEF Retain, TypeOK, CacheOK

\* A live item a callback runs on is an Item; so is what it writes for it.
LEMMA EntryLiveType ==
  ASSUME TypeOK, NEW t \in Threads, Working(t), NEW item \in EntryLive(t)
  PROVE  item \in Item /\ item \in items[Key(t)] /\ AtEntry(t)
BY KeyType DEF EntryLive, TypeOK, CacheOK, Option

LEMMA RewriteType ==
  ASSUME TypeOK, NEW t \in Threads, Working(t), NEW item \in Item, Rewrite(t, item)
  PROVE  CacheOK'
BY KeyType, AdmitType DEF Rewrite, TypeOK, CacheOK

LEMMA NewVersionType ==
  ASSUME TypeOK, NEW t \in Threads, Working(t)
  PROVE  NewVersion(t) \in Item
<1>1. cas[t] \in Nat /\ now[t] \in Nat
  BY DEF TypeOK, CallsOK
<1> QED
  BY <1>1, CommandType, NewItemType DEF NewVersion

LEMMA FoundType ==
  ASSUME TypeOK, NEW t \in Threads, Working(t), NEW item \in Item
  PROVE  {Found(t, item)} \in SUBSET [key: Keys, data: Data, cas: Nat]
BY KeyType DEF Found, Item

-----------------------------------------------------------------------------
(* The same steps keep calls well formed.                                   *)

LEMMA AtWork ==
  ASSUME TypeOK, CallsWellFormed, NEW t \in Threads, pc[t] \in {"entry", "vacant"}
  PROVE  Working(t)
BY DEF CallsWellFormed, Working

LEMMA LeaveWellFormed ==
  ASSUME TypeOK, CallsWellFormed, NEW t \in Threads, NEW r, Leave(t, r)
  PROVE  CallsWellFormed'
BY DEF TypeOK, CallsOK, CallsWellFormed, Leave

LEMMA ReplyWellFormed ==
  ASSUME TypeOK, CallsWellFormed, NEW t \in Threads, NEW r, NEW counters,
         Reply(t, r, counters)
  PROVE  CallsWellFormed'
BY LeaveWellFormed DEF Reply

LEMMA NextKeyWellFormed ==
  ASSUME TypeOK, CallsWellFormed, NEW t \in Threads, NEW got, NEW counters,
         pc[t] \in {"entry", "vacant"}, cmd[t].op \notin TokenOps,
         NextKey(t, got, counters)
  PROVE  CallsWellFormed'
<1>1. CASE Tail(todo[t]) = <<>>
  BY <1>1, LeaveWellFormed DEF NextKey
<1>2. CASE Tail(todo[t]) # <<>>
  BY <1>2 DEF TypeOK, CallsOK, CallsWellFormed, NextKey
<1> QED
  BY <1>1, <1>2

LEMMA EntryVacantWellFormed ==
  ASSUME TypeOK, CallsWellFormed, NEW t \in Threads, EntryVacant(t)
  PROVE  CallsWellFormed'
BY DEF TypeOK, CallsOK, CallsWellFormed, EntryVacant, AtEntry

-----------------------------------------------------------------------------
(* The methods.                                                             *)

TypedCalls == TypeOK /\ CallsWellFormed

LEMMA RunningType ==
  ASSUME TypeOK, NEW t \in Threads, NEW names, Running(t, names),
         CacheOK', CallsOK', stats' \in [Counters -> Nat]
  PROVE  TypeOK'
BY DEF TypeOK, Running, flushing

\* The ways a method ends that are the same for all of them.
LEMMA VacantTyped ==
  ASSUME TypedCalls, NEW t \in Threads, NEW names, Running(t, names), EntryVacant(t)
  PROVE  TypedCalls'
<1>1. Working(t)
  BY AtWork DEF TypedCalls, EntryVacant, AtEntry
<1> QED
  BY <1>1, EntryVacantType, EntryVacantWellFormed, RunningType DEF TypedCalls

LEMMA AbsentReplyTyped ==
  ASSUME TypedCalls, NEW t \in Threads, NEW names, Running(t, names),
         EntryRemoved(t) \/ DropGuard(t),
         NEW r \in Replies, NEW counters, Reply(t, r, counters)
  PROVE  TypedCalls'
<1>1. Working(t)
  BY AtWork DEF TypedCalls, EntryRemoved, DropGuard, AtEntry
<1> QED
  BY <1>1, EntryRemovedType, DropGuardType, ReplyType, ReplyWellFormed, RunningType
     DEF TypedCalls

LEMMA RetainReplyTyped ==
  ASSUME TypedCalls, NEW t \in Threads, NEW names, Running(t, names), Retain,
         NEW r \in Replies, NEW counters, Reply(t, r, counters)
  PROVE  TypedCalls'
BY RetainType, ReplyType, ReplyWellFormed, RunningType DEF TypedCalls

LEMMA RewriteReplyTyped ==
  ASSUME TypedCalls, NEW t \in Threads, NEW names, Running(t, names), Working(t),
         NEW item \in Item, Rewrite(t, item),
         NEW r \in Replies, NEW counters, Reply(t, r, counters)
  PROVE  TypedCalls'
BY RewriteType, ReplyType, ReplyWellFormed, RunningType DEF TypedCalls

LEMMA MissTyped ==
  ASSUME TypedCalls, NEW t \in Threads, NEW names, Running(t, names),
         "get" \notin TokenOps, names \subseteq {"get", "gat"},
         EntryRemoved(t) \/ DropGuard(t), NEW counters, NextKey(t, {}, counters)
  PROVE  TypedCalls'
<1>1. Working(t) /\ pc[t] \in {"entry", "vacant"}
  BY AtWork DEF TypedCalls, EntryRemoved, DropGuard, AtEntry
<1>2. cmd[t].op \notin TokenOps
  BY DEF Running, TokenOps
<1> QED
  BY <1>1, <1>2, EntryRemovedType, DropGuardType, NextKeyType, NextKeyWellFormed,
     RunningType DEF TypedCalls

LEMMA LiveWorking ==
  ASSUME TypedCalls, NEW t \in Threads, EntryLive(t) # {}
  PROVE  Working(t) /\ pc[t] \in {"entry", "vacant"}
BY AtWork DEF TypedCalls, EntryLive, AtEntry

LEMMA HitTyped ==
  ASSUME TypedCalls, NEW t \in Threads, NEW names, Running(t, names),
         names \subseteq {"get", "gat"}, Working(t), pc[t] \in {"entry", "vacant"},
         NEW item \in Item, CacheOK', NEW counters,
         NextKey(t, {Found(t, item)}, counters)
  PROVE  TypedCalls'
<1>1. cmd[t].op \notin TokenOps
  BY DEF Running, TokenOps
<1> QED
  BY <1>1, FoundType, NextKeyType, NextKeyWellFormed, RunningType DEF TypedCalls

LEMMA GetTyped ==
  ASSUME TypedCalls, NEW t \in Threads, Get(t)
  PROVE  TypedCalls'
<1>0. Running(t, {"get"})
  BY DEF Get
<1>1. CASE EntryVacant(t)
  BY <1>0, <1>1, VacantTyped
<1>2. ASSUME NEW counters, EntryRemoved(t) \/ DropGuard(t), NextKey(t, {}, counters)
      PROVE  TypedCalls'
  BY <1>0, <1>2, MissTyped DEF TokenOps
<1>3. ASSUME NEW item \in EntryLive(t), Retain,
             NextKey(t, {Found(t, item)}, {"GET_HITS"})
      PROVE  TypedCalls'
  <2>1. Working(t) /\ pc[t] \in {"entry", "vacant"} /\ item \in Item
    BY <1>3, LiveWorking, EntryLiveType DEF TypedCalls
  <2> QED
    BY <1>0, <1>3, <2>1, RetainType, HitTyped DEF TypedCalls
<1> QED
  BY <1>1, <1>2, <1>3 DEF Get

LEMMA GetAndTouchTyped ==
  ASSUME TypedCalls, NEW t \in Threads, GetAndTouch(t)
  PROVE  TypedCalls'
<1>0. Running(t, {"gat"})
  BY DEF GetAndTouch
<1>1. CASE EntryVacant(t)
  BY <1>0, <1>1, VacantTyped
<1>2. ASSUME NEW counters, EntryRemoved(t) \/ DropGuard(t), NextKey(t, {}, counters)
      PROVE  TypedCalls'
  BY <1>0, <1>2, MissTyped DEF TokenOps
<1> DEFINE touched(item) == [item EXCEPT !.cas = next_cas,
                     !.expires_at = ResolveExpiry(cmd[t].exptime, now[t])]
<1>3. ASSUME NEW item \in EntryLive(t),
             items' = [items EXCEPT ![Key(t)] = Some(touched(item))],
             next_cas' = next_cas + 1,
             UNCHANGED <<guard, evictions, judged>>,
             NextKey(t, {Found(t, touched(item))}, {"GET_HITS"})
      PROVE  TypedCalls'
  <2>1. Working(t) /\ pc[t] \in {"entry", "vacant"} /\ item \in Item
    BY <1>3, LiveWorking, EntryLiveType DEF TypedCalls
  <2>2. ResolveExpiry(cmd[t].exptime, now[t]) \in Option(Nat)
    BY <2>1, CommandType, ResolveExpiryType DEF TypedCalls, TypeOK, CallsOK
  <2>3. touched(item) \in Item
    BY <2>1, <2>2 DEF Item, TypedCalls, TypeOK, CacheOK
  <2> HIDE DEF touched
  <2>4. Some(touched(item)) \in Option(Item)
    BY <2>3 DEF Some, Option
  <2>5. CacheOK'
    BY <1>3, <2>1, <2>4, KeyType DEF CacheOK, TypeOK, TypedCalls
  <2> QED
    BY <1>0, <1>3, <2>1, <2>3, <2>5, HitTyped
<1> QED
  BY <1>1, <1>2, <1>3 DEF GetAndTouch

LEMMA SetTyped ==
  ASSUME TypedCalls, NEW t \in Threads, Set(t)
  PROVE  TypedCalls'
<1>1. Running(t, {"set"}) /\ Working(t) /\ "Stored" \in Replies
  BY AtWork DEF Set, TypedCalls, Replies
<1>2. NewVersion(t) \in Item /\ Key(t) \in Keys /\ None \in Option(Threads)
  BY <1>1, NewVersionType, KeyType DEF TypedCalls, None, Option
<1>3. items' \in [Keys -> Option(Item)] /\ evictions' \in Nat
  BY <1>2, AdmitType DEF Set, TypedCalls
<1>4. CacheOK'
  BY <1>2, <1>3 DEF Set, TypedCalls, TypeOK, CacheOK
<1> QED
  BY <1>1, <1>4, ReplyType, ReplyWellFormed, RunningType DEF Set, TypedCalls

LEMMA AddTyped ==
  ASSUME TypedCalls, NEW t \in Threads, Add(t)
  PROVE  TypedCalls'
<1>0. Running(t, {"add"}) /\ "Stored" \in Replies /\ "NotStored" \in Replies
  BY DEF Add, Replies
<1>1. CASE EntryVacant(t)
  BY <1>0, <1>1, VacantTyped
<1>2. ASSUME AtEntry(t), NEW item \in items[Key(t)], Judge(t, item),
             Admit(Key(t), NewVersion(t)), UNCHANGED <<guard, next_cas>>,
             Reply(t, "Stored", {"TOTAL_ITEMS"})
      PROVE  TypedCalls'
  <2>1. Working(t)
    BY <1>2, AtWork DEF AtEntry, TypedCalls
  <2>2. NewVersion(t) \in Item /\ Key(t) \in Keys
    BY <2>1, NewVersionType, KeyType DEF TypedCalls
  <2>3. item.cas \in Nat
    BY <2>2 DEF TypedCalls, TypeOK, CacheOK, Option, Item
  <2>4. items' \in [Keys -> Option(Item)] /\ evictions' \in Nat
    BY <1>2, <2>2, AdmitType DEF TypedCalls
  <2>5. CacheOK'
    BY <1>2, <2>2, <2>3, <2>4 DEF Judge, TypedCalls, TypeOK, CacheOK
  <2> QED
    BY <1>0, <1>2, <2>5, ReplyType, ReplyWellFormed, RunningType DEF TypedCalls
<1>3. CASE Retain /\ Reply(t, "NotStored", {})
  BY <1>0, <1>3, RetainReplyTyped
<1>4. CASE /\ pc[t] = "vacant"
           /\ Admit(Key(t), NewVersion(t))
           /\ guard' = [guard EXCEPT ![Key(t)] = None]
           /\ UNCHANGED <<next_cas, judged>>
           /\ Reply(t, "Stored", {"TOTAL_ITEMS"})
  <2>1. Working(t)
    BY <1>4, AtWork DEF TypedCalls
  <2>2. NewVersion(t) \in Item /\ Key(t) \in Keys /\ None \in Option(Threads)
    BY <2>1, NewVersionType, KeyType DEF TypedCalls, None, Option
  <2>3. items' \in [Keys -> Option(Item)] /\ evictions' \in Nat
    BY <1>4, <2>2, AdmitType DEF TypedCalls
  <2>4. CacheOK'
    BY <1>4, <2>2, <2>3 DEF TypedCalls, TypeOK, CacheOK
  <2> QED
    BY <1>0, <1>4, <2>4, ReplyType, ReplyWellFormed, RunningType DEF TypedCalls
<1>5. CASE DropGuard(t) /\ Reply(t, "NotStored", {})
  BY <1>0, <1>5, AbsentReplyTyped
<1> QED
  BY <1>1, <1>2, <1>3, <1>4, <1>5 DEF Add

LEMMA ReplaceTyped ==
  ASSUME TypedCalls, NEW t \in Threads, Replace(t)
  PROVE  TypedCalls'
<1>0. Running(t, {"replace"}) /\ "Stored" \in Replies /\ "NotStored" \in Replies
  BY DEF Replace, Replies
<1>1. CASE EntryVacant(t)
  BY <1>0, <1>1, VacantTyped
<1>2. CASE (EntryRemoved(t) \/ DropGuard(t)) /\ Reply(t, "NotStored", {})
  BY <1>0, <1>2, AbsentReplyTyped
<1>3. CASE /\ EntryLive(t) # {} /\ Rewrite(t, NewVersion(t))
           /\ Reply(t, "Stored", {"TOTAL_ITEMS"})
  <2>1. Working(t) /\ NewVersion(t) \in Item
    BY <1>3, LiveWorking, NewVersionType DEF TypedCalls
  <2> QED
    BY <1>0, <1>3, <2>1, RewriteReplyTyped
<1> QED
  BY <1>1, <1>2, <1>3 DEF Replace

LEMMA ConcatTyped ==
  ASSUME TypedCalls, NEW t \in Threads, Concat(t)
  PROVE  TypedCalls'
<1>0. /\ Running(t, {"append", "prepend"})
      /\ "Stored" \in Replies /\ "NotStored" \in Replies
  BY DEF Concat, Replies
<1>1. CASE EntryVacant(t)
  BY <1>0, <1>1, VacantTyped
<1>2. CASE (EntryRemoved(t) \/ DropGuard(t)) /\ Reply(t, "NotStored", {})
  BY <1>0, <1>2, AbsentReplyTyped
<1> DEFINE joined(item) == IF cmd[t].op = "append" THEN item.data \o cmd[t].data
                                                   ELSE cmd[t].data \o item.data
<1>3. ASSUME NEW item \in EntryLive(t),
             Rewrite(t, [item EXCEPT !.cas = cas[t], !.data = joined(item)]),
             Reply(t, "Stored", {"TOTAL_ITEMS"})
      PROVE  TypedCalls'
  <2>1. Working(t) /\ item \in Item
    BY <1>3, LiveWorking, EntryLiveType DEF TypedCalls
  <2>2. joined(item) \in Data
    BY <2>1, CommandType DEF Item, Data
  <2>3. [item EXCEPT !.cas = cas[t], !.data = joined(item)] \in Item
    BY <2>1, <2>2 DEF Item, TypedCalls, TypeOK, CallsOK
  <2> QED
    BY <1>0, <1>3, <2>1, <2>3, RewriteReplyTyped
<1> QED
  BY <1>1, <1>2, <1>3 DEF Concat

LEMMA CasTyped ==
  ASSUME TypedCalls, NEW t \in Threads, Cas(t)
  PROVE  TypedCalls'
<1>0. /\ Running(t, {"cas"})
      /\ "Stored" \in Replies /\ "NotFound" \in Replies /\ "Exists" \in Replies
  BY DEF Cas, Replies
<1>1. CASE EntryVacant(t)
  BY <1>0, <1>1, VacantTyped
<1>2. CASE (EntryRemoved(t) \/ DropGuard(t)) /\ Reply(t, "NotFound", {"CAS_MISSES"})
  BY <1>0, <1>2, AbsentReplyTyped
<1>3. CASE Retain /\ Reply(t, "Exists", {"CAS_BADVAL"})
  BY <1>0, <1>3, RetainReplyTyped
<1>4. CASE /\ EntryLive(t) # {} /\ Rewrite(t, NewVersion(t))
           /\ Reply(t, "Stored", {"CAS_HITS", "TOTAL_ITEMS"})
  <2>1. Working(t) /\ NewVersion(t) \in Item
    BY <1>4, LiveWorking, NewVersionType DEF TypedCalls
  <2> QED
    BY <1>0, <1>4, <2>1, RewriteReplyTyped
<1> QED
  BY <1>1, <1>2, <1>3, <1>4 DEF Cas

LEMMA DeleteTyped ==
  ASSUME TypedCalls, NEW t \in Threads, Delete(t)
  PROVE  TypedCalls'
<1>1. /\ Running(t, {"delete"}) /\ Working(t)
      /\ "Deleted" \in Replies /\ "NotFound" \in Replies
  BY AtWork DEF Delete, TypedCalls, Replies
<1>2. Key(t) \in Keys /\ None \in Option(Threads) /\ None \in Option(Item)
  BY <1>1, KeyType DEF TypedCalls, None, Option
<1>3. \A item \in items[Key(t)] : item.cas \in Nat
  BY <1>2 DEF TypedCalls, TypeOK, CacheOK, Option, Item
<1>4. judged' \subseteq Keys \X Nat
  BY <1>2, <1>3 DEF Delete, Judge, TypedCalls, TypeOK, CacheOK
<1>5. CacheOK'
  BY <1>2, <1>4 DEF Delete, TypedCalls, TypeOK, CacheOK
<1>6. PICK r \in Replies, counters \in SUBSET Counters : Reply(t, r, counters)
  BY <1>1 DEF Delete, Counters
<1> QED
  BY <1>1, <1>5, <1>6, ReplyType, ReplyWellFormed, RunningType DEF TypedCalls

LEMMA ArithmeticTyped ==
  ASSUME TypedCalls, NEW t \in Threads, Arithmetic(t)
  PROVE  TypedCalls'
<1>0. /\ Running(t, {"incr", "decr"})
      /\ "Number" \in Replies /\ "NotFound" \in Replies /\ "ClientError" \in Replies
  BY DEF Arithmetic, Replies
<1>1. CASE EntryVacant(t)
  BY <1>0, <1>1, VacantTyped
<1>2. CASE (EntryRemoved(t) \/ DropGuard(t)) /\ Reply(t, "NotFound", MissesOf(cmd[t].op))
  BY <1>0, <1>2, AbsentReplyTyped
<1>3. CASE Retain /\ Reply(t, "ClientError", {})
  BY <1>0, <1>3, RetainReplyTyped
<1> DEFINE new(val) == IF cmd[t].op = "incr" THEN WrappingAdd(val, cmd[t].delta)
                                             ELSE SaturatingSub(val, cmd[t].delta)
<1>4. ASSUME NEW item \in EntryLive(t), NEW val \in ParseU64(item.data),
             Rewrite(t, [item EXCEPT !.data = FormatU64(new(val)), !.cas = cas[t]]),
             Reply(t, "Number", HitsOf(cmd[t].op))
      PROVE  TypedCalls'
  <2>1. Working(t) /\ item \in Item
    BY <1>4, LiveWorking, EntryLiveType DEF TypedCalls
  <2>2. new(val) \in U64
    BY <1>4, <2>1, CommandType, ParseType, ArithmeticType
  <2>3. FormatU64(new(val)) \in Data
    BY <2>2, FormatType
  <2> HIDE DEF new
  <2>4. [item EXCEPT !.data = FormatU64(new(val)), !.cas = cas[t]] \in Item
    BY <2>1, <2>3 DEF Item, TypedCalls, TypeOK, CallsOK
  <2> QED
    BY <1>0, <1>4, <2>1, <2>4, RewriteReplyTyped
<1> QED
  BY <1>1, <1>2, <1>3, <1>4 DEF Arithmetic

LEMMA TouchTyped ==
  ASSUME TypedCalls, NEW t \in Threads, Touch(t)
  PROVE  TypedCalls'
<1>0. Running(t, {"touch"}) /\ "Touched" \in Replies /\ "NotFound" \in Replies
  BY DEF Touch, Replies
<1>1. CASE EntryVacant(t)
  BY <1>0, <1>1, VacantTyped
<1>2. CASE (EntryRemoved(t) \/ DropGuard(t)) /\ Reply(t, "NotFound", {"TOUCH_MISSES"})
  BY <1>0, <1>2, AbsentReplyTyped
<1> DEFINE touched(item) == [item EXCEPT !.cas = cas[t],
                     !.expires_at = ResolveExpiry(cmd[t].exptime, now[t])]
<1>3. ASSUME NEW item \in EntryLive(t),
             items' = [items EXCEPT ![Key(t)] = Some(touched(item))],
             UNCHANGED <<guard, evictions, next_cas, judged>>,
             Reply(t, "Touched", {"TOUCH_HITS"})
      PROVE  TypedCalls'
  <2>1. Working(t) /\ item \in Item
    BY <1>3, LiveWorking, EntryLiveType DEF TypedCalls
  <2>2. ResolveExpiry(cmd[t].exptime, now[t]) \in Option(Nat)
    BY <2>1, CommandType, ResolveExpiryType DEF TypedCalls, TypeOK, CallsOK
  <2>3. touched(item) \in Item
    BY <2>1, <2>2 DEF Item, TypedCalls, TypeOK, CallsOK
  <2> HIDE DEF touched
  <2>4. Some(touched(item)) \in Option(Item)
    BY <2>3 DEF Some, Option
  <2>5. CacheOK'
    BY <1>3, <2>1, <2>4, KeyType DEF CacheOK, TypeOK, TypedCalls
  <2> QED
    BY <1>0, <1>3, <2>5, ReplyType, ReplyWellFormed, RunningType DEF TypedCalls
<1> QED
  BY <1>1, <1>2, <1>3 DEF Touch

LEMMA FlushTyped ==
  ASSUME TypedCalls, NEW t \in Threads,
         FlushDelayed(t) \/ ClearShard(t) \/ ClearDone(t)
  PROVE  TypedCalls'
<1>0. "Ok" \in Replies
  BY DEF Replies
<1>1. CASE FlushDelayed(t)
  <2>0. cmd[t] \in Command
    BY <1>1, CommandsAssumption DEF FlushDelayed, TypedCalls, CallsWellFormed
  <2>1. oldest_live' \in Nat
    BY <1>1, <2>0 DEF FlushDelayed, TypedCalls, TypeOK, CallsOK, Command
  <2>2. CallsOK' /\ stats' \in [Counters -> Nat] /\ CallsWellFormed'
    BY <1>0, <1>1, ReplyType, ReplyWellFormed DEF FlushDelayed, TypedCalls
  <2> QED
    BY <1>1, <2>1, <2>2 DEF FlushDelayed, TypedCalls, TypeOK, CacheOK, shared, flushing
<1>2. CASE ClearShard(t)
  <2>1. PICK k \in unswept[t] :
          /\ items' = [items EXCEPT ![k] = None]
          /\ guard' = [guard EXCEPT ![k] = None]
          /\ unswept' = [unswept EXCEPT ![t] = @ \ {k}]
    BY <1>2 DEF ClearShard
  <2>2. None \in Option(Item) /\ None \in Option(Threads)
    BY DEF None, Option
  <2>3. CacheOK' /\ unswept' \in [Threads -> SUBSET Keys]
    BY <1>2, <2>1, <2>2 DEF ClearShard, TypedCalls, TypeOK, CacheOK
  <2>4. CallsOK' /\ CallsWellFormed'
    BY <1>2 DEF ClearShard, TypedCalls, TypeOK, CallsOK, CallsWellFormed, locals, client
  <2> QED
    BY <1>2, <2>3, <2>4 DEF ClearShard, TypedCalls, TypeOK
<1>3. CASE ClearDone(t)
  <2>1. CallsOK' /\ stats' \in [Counters -> Nat] /\ CallsWellFormed'
    BY <1>0, <1>3, ReplyType, ReplyWellFormed DEF ClearDone, TypedCalls
  <2> QED
    BY <1>3, <2>1 DEF ClearDone, TypedCalls, TypeOK, CacheOK, shared
<1> QED
  BY <1>1, <1>2, <1>3

-----------------------------------------------------------------------------
(* The beginning of a call, and the steps outside any call.                 *)

LEMMA ResidentType ==
  ASSUME TypeOK
  PROVE  Resident \subseteq Keys \X Nat
BY DEF Resident, TypeOK, CacheOK, Option, Item

LEMMA BeginTyped ==
  ASSUME TypedCalls, NEW t \in Threads, NEW c \in Commands, Begin(t, c)
  PROVE  TypedCalls'
<1>1. c \in Command /\ (c.op # "flush_all" => c.keys # <<>>)
  BY CommandsAssumption
<1>2. c.keys \in Seq(Keys)
  BY <1>1 DEF Command
<1>3. (IF c.op \in {"get", "gat"} THEN Len(c.keys) ELSE 1) \in Nat
  BY <1>2
<1>4. stats' \in [Counters -> Nat]
  BY <1>3, CountType DEF Begin, TypedCalls
<1>5. /\ unswept' \in [Threads -> SUBSET Keys]
      /\ marked' \in [Threads -> SUBSET (Keys \X Nat)]
  BY ResidentType DEF Begin, flushing, TypedCalls, TypeOK
<1>6. CallsOK'
  BY <1>1, <1>2 DEF Begin, TypedCalls, TypeOK, CallsOK
<1>7. CallsWellFormed'
  BY <1>1 DEF Begin, TypedCalls, TypeOK, CallsOK, CallsWellFormed
<1>8. CacheOK' /\ clock' \in Nat /\ oldest_live' \in Nat /\ ops' \in Nat
  BY DEF Begin, TypedCalls, TypeOK, CacheOK, shared
<1> QED
  BY <1>4, <1>5, <1>6, <1>7, <1>8 DEF TypedCalls, TypeOK

LEMMA SnapshotTyped ==
  ASSUME TypedCalls, NEW t \in Threads, LoadOldest(t) \/ TakeToken(t)
  PROVE  TypedCalls'
<1>1. CASE LoadOldest(t)
  <2>1. OldestLive(oldest_live) \in Option(Nat)
    BY DEF OldestLive, TypedCalls, TypeOK, Option, Some, None
  <2>2. CallsOK'
    BY <1>1, <2>1 DEF LoadOldest, TypedCalls, TypeOK, CallsOK, client
  <2>3. CallsWellFormed'
    BY <1>1 DEF LoadOldest, TypedCalls, TypeOK, CallsOK, CallsWellFormed, client
  <2> QED
    BY <1>1, <2>2, <2>3 DEF LoadOldest, TypedCalls, TypeOK, CacheOK, shared, flushing
<1>2. CASE TakeToken(t)
  <2>1. CallsOK' /\ CacheOK'
    BY <1>2 DEF TakeToken, TypedCalls, TypeOK, CallsOK, CacheOK, client
  <2>2. CallsWellFormed'
    BY <1>2 DEF TakeToken, TypedCalls, TypeOK, CacheOK, CallsOK, CallsWellFormed, client
  <2> QED
    BY <1>2, <2>1, <2>2 DEF TakeToken, TypedCalls, TypeOK, flushing
<1> QED
  BY <1>1, <1>2

LEMMA StutterTyped ==
  ASSUME TypedCalls, UNCHANGED vars
  PROVE  TypedCalls'
BY DEF TypedCalls, TypeOK, CacheOK, CallsOK, CallsWellFormed, vars, shared, locals,
       client, flushing

LEMMA TickTyped ==
  ASSUME TypedCalls, Tick
  PROVE  TypedCalls'
BY BoundsAssumption
   DEF Tick, TypedCalls, TypeOK, CacheOK, CallsOK, CallsWellFormed, shared, locals,
       client, flushing

LEMMA InitTyped ==
  ASSUME Init
  PROVE  TypedCalls
<1>1. /\ None \in Option(Item) /\ None \in Option(Threads) /\ None \in Option(Nat)
      /\ <<>> \in Seq(Keys)
  BY DEF None, Option
<1> QED
  BY <1>1, BoundsAssumption DEF Init, TypedCalls, TypeOK, CacheOK, CallsOK, CallsWellFormed

LEMMA MethodTyped ==
  ASSUME TypedCalls, NEW t \in Threads, Method(t)
  PROVE  TypedCalls'
BY GetTyped, GetAndTouchTyped, SetTyped, AddTyped, ReplaceTyped, ConcatTyped,
   CasTyped, DeleteTyped, ArithmeticTyped, TouchTyped, FlushTyped DEF Method

LEMMA NextTyped ==
  ASSUME TypedCalls, [Next]_vars
  PROVE  TypedCalls'
<1>1. ASSUME NEW t \in Threads, Step(t) PROVE TypedCalls'
  BY <1>1, SnapshotTyped, MethodTyped DEF Step
<1> QED
  BY <1>1, TickTyped, BeginTyped, StutterTyped DEF Next, Rest

\* Every variable of the store keeps its type, and a call that reaches a key
\* has the key, its command and its token.
THEOREM TypeCorrect == Spec => [](TypeOK /\ CallsWellFormed)
<1>1. Init => TypedCalls
  BY InitTyped
<1>2. TypedCalls /\ [Next]_vars => TypedCalls'
  BY NextTyped
<1> QED
  BY <1>1, <1>2, PTL DEF Spec, TypedCalls

-----------------------------------------------------------------------------
(* The counters.  A step of a call either counts nothing and keeps what the *)
(* thread has yet to do, or counts once and is done with a key: Tally says  *)
(* which counters that may be.  What is in flight is the cardinality of a   *)
(* set, which a step of one thread changes by that thread's own elements.   *)

\* A thread between two calls runs none, and one that flushes a flush_all.
CallsInPlace ==
  \A t \in Threads :
    /\ pc[t] = "idle" => cmd[t] = Nop
    /\ pc[t] = "flush" => cmd[t].op = "flush_all"

Tallied == TypedCalls /\ CallsInPlace /\ IsFiniteSet(KeysInFlight) /\ StatsBalance

-----------------------------------------------------------------------------
(* What is in flight.                                                       *)

Doing(names) == {u \in Threads : cmd[u].op \in names}

LEMMA DoingFinite ==
  ASSUME NEW names
  PROVE  /\ IsFiniteSet(Doing(names)) /\ InFlight(names) \in Nat
         /\ InFlight(names) = Cardinality(Doing(names))
<1>1. Doing(names) \in SUBSET Threads
  BY DEF Doing
<1>2. IsFiniteSet(Doing(names))
  BY <1>1, ThreadsAssumption, FS_Subset
<1> QED
  BY <1>2, FS_CardinalityType DEF Doing, InFlight

\* A thread that ends a call is in flight no more.
LEMMA DoneWith ==
  ASSUME TypedCalls, NEW names, "none" \notin names, NEW t \in Threads,
         cmd' = [cmd EXCEPT ![t] = Nop]
  PROVE  InFlight(names)' =
           IF cmd[t].op \in names THEN InFlight(names) - 1 ELSE InFlight(names)
<1>1. Doing(names)' = Doing(names) \ {t}
  BY DEF Doing, Nop, TypedCalls, TypeOK, CallsOK
<1>2. t \in Doing(names) <=> cmd[t].op \in names
  BY DEF Doing
<1>3. InFlight(names)' = Cardinality(Doing(names)')
  BY DEF InFlight, Doing
<1> QED
  BY <1>1, <1>2, <1>3, DoingFinite, FS_RemoveElement

\* A thread that begins a call is in flight from then on.
LEMMA SetOut ==
  ASSUME TypedCalls, NEW names, NEW t \in Threads, cmd[t].op \notin names,
         NEW c, cmd' = [cmd EXCEPT ![t] = c]
  PROVE  InFlight(names)' =
           IF c.op \in names THEN InFlight(names) + 1 ELSE InFlight(names)
<1>1. Doing(names)' = IF c.op \in names THEN Doing(names) \cup {t} ELSE Doing(names)
  BY DEF Doing, TypedCalls, TypeOK, CallsOK
<1>2. t \notin Doing(names)
  BY DEF Doing
<1>3. InFlight(names)' = Cardinality(Doing(names)')
  BY DEF InFlight, Doing
<1>4. IsFiniteSet(Doing(names)) /\ InFlight(names) = Cardinality(Doing(names))
  BY DoingFinite
<1>5. Cardinality(Doing(names) \cup {t}) = Cardinality(Doing(names)) + 1
  BY <1>2, <1>4, FS_AddElement
<1> QED
  BY <1>1, <1>3, <1>4, <1>5

\* A key in flight is a place in what its thread has yet to look up.
LEMMA InFlightMember ==
  /\ \A p : p \in KeysInFlight <=>
       \E u \in Threads : \E i \in DOMAIN todo[u] :
         cmd[u].op \in Retrievals /\ p = <<u, i>>
  /\ \A p : p \in KeysInFlight' <=>
       \E u \in Threads : \E i \in DOMAIN todo'[u] :
         cmd'[u].op \in Retrievals /\ p = <<u, i>>
BY DEF KeysInFlight

\* A thread that is not retrieving has no key in flight: its steps change none.
LEMMA NoKeyInFlight ==
  ASSUME TypedCalls, NEW t \in Threads, cmd[t].op \notin Retrievals,
         NEW c, c.op \notin Retrievals, cmd' = [cmd EXCEPT ![t] = c],
         \A u \in Threads \ {t} : todo'[u] = todo[u]
  PROVE  KeysInFlight' = KeysInFlight
<1>1. \A u \in Threads : cmd'[u].op \in Retrievals <=> cmd[u].op \in Retrievals
  BY DEF TypedCalls, TypeOK, CallsOK
<1>2. \A u \in Threads : cmd[u].op \in Retrievals => todo'[u] = todo[u]
  OBVIOUS
<1>3. ASSUME NEW u \in Threads, NEW i
      PROVE  i \in DOMAIN todo'[u] /\ cmd'[u].op \in Retrievals
               <=> i \in DOMAIN todo[u] /\ cmd[u].op \in Retrievals
  BY <1>1, <1>2
<1>4. \A p : p \in KeysInFlight' <=> p \in KeysInFlight
  BY <1>3, InFlightMember
<1> QED
  BY <1>4

\* A thread done with a key has the last of its places less.
LEMMA OneKeyLess ==
  ASSUME TypedCalls, NEW t \in Threads, cmd[t].op \in Retrievals, todo[t] # <<>>,
         IsFiniteSet(KeysInFlight),
         todo' = [todo EXCEPT ![t] = Tail(@)],
         cmd' = cmd \/ (Tail(todo[t]) = <<>> /\ cmd' = [cmd EXCEPT ![t] = Nop])
  PROVE  /\ IsFiniteSet(KeysInFlight')
         /\ Cardinality(KeysInFlight') = Cardinality(KeysInFlight) - 1
<1> DEFINE last == <<t, Len(todo[t])>>
<1>1. /\ Len(todo[t]) \in Nat \ {0} /\ DOMAIN todo[t] = 1 .. Len(todo[t])
      /\ DOMAIN Tail(todo[t]) = 1 .. Len(todo[t]) - 1
  BY DEF TypedCalls, TypeOK, CallsOK
<1>2. \A i : i \in DOMAIN Tail(todo[t]) <=> i \in DOMAIN todo[t] /\ i # Len(todo[t])
  BY <1>1
<1>3. \A u \in Threads : \A i : i \in DOMAIN todo'[u] <=>
        i \in DOMAIN todo[u] /\ <<u, i>> # last
  BY <1>2 DEF TypedCalls, TypeOK, CallsOK
<1>4. \A u \in Threads : \A i \in DOMAIN todo'[u] :
        cmd'[u].op \in Retrievals <=> cmd[u].op \in Retrievals
  BY <1>1 DEF TypedCalls, TypeOK, CallsOK
<1>5. last \in KeysInFlight
  BY <1>1, InFlightMember
<1>6. KeysInFlight' = KeysInFlight \ {last}
  <2> HIDE DEF last
  <2> QED
    BY <1>3, <1>4, InFlightMember
<1> QED
  BY <1>5, <1>6, FS_RemoveElement

\* A retrieval that begins has all its keys in flight.
LEMMA AllKeysMore ==
  ASSUME TypedCalls, NEW t \in Threads, cmd[t].op \notin Retrievals,
         IsFiniteSet(KeysInFlight),
         NEW c \in Command, c.op \in Retrievals, cmd' = [cmd EXCEPT ![t] = c],
         todo' = [todo EXCEPT ![t] = c.keys]
  PROVE  /\ IsFiniteSet(KeysInFlight')
         /\ Cardinality(KeysInFlight') = Cardinality(KeysInFlight) + Len(c.keys)
<1> DEFINE places == 1 .. Len(c.keys)
           keys   == {t} \X places
<1>1. Len(c.keys) \in Nat /\ DOMAIN c.keys = 1 .. Len(c.keys)
  BY DEF Command
<1>2. IsFiniteSet(keys) /\ Cardinality(keys) = Len(c.keys)
  <2>1. IsFiniteSet(places) /\ Cardinality(places) = Len(c.keys)
    BY <1>1, FS_Interval
  <2>2. IsFiniteSet({t}) /\ Cardinality({t}) = 1
    BY FS_Singleton
  <2> HIDE DEF places
  <2>3. IsFiniteSet(keys) /\ Cardinality(keys) = Cardinality({t}) * Cardinality(places)
    BY <2>1, <2>2, FS_Product
  <2> QED
    BY <1>1, <2>1, <2>2, <2>3
<1>3. \A p : p \in keys <=> \E i \in DOMAIN c.keys : p = <<t, i>>
  BY <1>1
<1> HIDE DEF keys
<1>4. KeysInFlight' = KeysInFlight \cup keys
  BY <1>3, InFlightMember DEF TypedCalls, TypeOK, CallsOK
<1>5. KeysInFlight \cap keys = {}
  BY <1>3, InFlightMember
<1>6. Cardinality(KeysInFlight) \in Nat /\ Cardinality(KeysInFlight \cap keys) = 0
  BY <1>5, FS_CardinalityType, FS_EmptySet
<1>7. /\ IsFiniteSet(KeysInFlight \cup keys)
      /\ Cardinality(KeysInFlight \cup keys) =
           Cardinality(KeysInFlight) + Cardinality(keys) - Cardinality(KeysInFlight \cap keys)
  BY <1>2, FS_Union
<1>8. Cardinality(KeysInFlight \cup keys) = Cardinality(KeysInFlight) + Len(c.keys)
  BY <1>1, <1>2, <1>6, <1>7
<1> QED
  BY <1>4, <1>7, <1>8

-----------------------------------------------------------------------------
(* What a step of a call counts.                                            *)

\* The counters a call adds to when it is done with a key: a retrieval one of
\* hits and misses, a touch one of its own, a storage command one at most.
Fits(op, counters) ==
  /\ \A c \in {"CMD_GET", "CMD_SET", "CMD_TOUCH"} : c \notin counters
  /\ "GET_HITS" \in counters => "GET_MISSES" \notin counters
  /\ "GET_HITS" \in counters \/ "GET_MISSES" \in counters <=> op \in Retrievals
  /\ "TOUCH_HITS" \in counters => "TOUCH_MISSES" \notin counters
  /\ "TOUCH_HITS" \in counters \/ "TOUCH_MISSES" \in counters <=> op = "touch"
  /\ \A c, d \in {"TOTAL_ITEMS", "CAS_MISSES", "CAS_BADVAL"} :
       c \in counters /\ d \in counters => c = d
  /\ \A c \in {"TOTAL_ITEMS", "CAS_MISSES", "CAS_BADVAL"} :
       c \in counters => op \in StorageOps

\* The thread leaves its call, a retrieval with its last key, or goes on to the
\* next key.
DoneWithKey(t) ==
  \/ /\ cmd' = [cmd EXCEPT ![t] = Nop] /\ todo' = [todo EXCEPT ![t] = <<>>]
     /\ cmd[t].op \in Retrievals => todo[t] # <<>> /\ Tail(todo[t]) = <<>>
  \/ /\ cmd' = cmd /\ todo' = [todo EXCEPT ![t] = Tail(@)]
     /\ cmd[t].op \in Retrievals /\ todo[t] # <<>>

StaysInPlace(t) ==
  /\ pc'[t] = "idle" => cmd'[t] = Nop
  /\ pc'[t] = "flush" => cmd'[t].op = "flush_all"
  /\ \A u \in Threads \ {t} : pc'[u] = pc[u] /\ cmd'[u] = cmd[u]

Tally(t) ==
  /\ StaysInPlace(t)
  /\ \/ UNCHANGED <<stats, cmd, todo>>
     \/ /\ DoneWithKey(t)
        /\ \E counters : Count(counters, 1) /\ Fits(cmd[t].op, counters)

\* A step that counts nothing leaves the balance.
LEMMA SameBalance ==
  ASSUME Tallied, UNCHANGED <<stats, cmd, todo>>
  PROVE  StatsBalance'
BY DEF Tallied, StatsBalance, InFlight, KeysInFlight

LEMMA TouchBalance ==
  ASSUME Tallied, NEW t \in Threads, DoneWithKey(t),
         NEW counters, Count(counters, 1), Fits(cmd[t].op, counters)
  PROVE  stats'["CMD_TOUCH"] = stats'["TOUCH_HITS"] + stats'["TOUCH_MISSES"]
                                 + InFlight({"touch"})'
<1> DEFINE n == InFlight({"touch"})
<1>1. /\ stats["CMD_TOUCH"] \in Nat /\ stats["TOUCH_HITS"] \in Nat
      /\ stats["TOUCH_MISSES"] \in Nat /\ n \in Nat
      /\ stats["CMD_TOUCH"] = stats["TOUCH_HITS"] + stats["TOUCH_MISSES"] + n
  BY DoingFinite DEF Tallied, TypedCalls, TypeOK, StatsBalance, Counters
<1>2. n' = IF cmd[t].op = "touch" THEN n - 1 ELSE n
  BY DoneWith DEF DoneWithKey, Retrievals, InFlight, Tallied
<1> HIDE DEF n
<1>3. /\ stats'["CMD_TOUCH"] = stats["CMD_TOUCH"]
      /\ stats'["TOUCH_HITS"] = stats["TOUCH_HITS"] + IF "TOUCH_HITS" \in counters THEN 1 ELSE 0
      /\ stats'["TOUCH_MISSES"] =
           stats["TOUCH_MISSES"] + IF "TOUCH_MISSES" \in counters THEN 1 ELSE 0
  BY <1>1 DEF Count, Counters, Fits
<1>4. stats'["CMD_TOUCH"] = stats'["TOUCH_HITS"] + stats'["TOUCH_MISSES"] + n'
  BY <1>1, <1>2, <1>3 DEF Fits
<1> QED
  BY <1>4 DEF n

LEMMA SetBalance ==
  ASSUME Tallied, NEW t \in Threads, DoneWithKey(t),
         NEW counters, Count(counters, 1), Fits(cmd[t].op, counters)
  PROVE  stats'["CMD_SET"] >= stats'["TOTAL_ITEMS"] + stats'["CAS_MISSES"]
                                + stats'["CAS_BADVAL"] + InFlight(StorageOps)'
<1> DEFINE n == InFlight(StorageOps)
           Gain(c) == IF c \in counters THEN 1 ELSE 0
<1>1. /\ stats["CMD_SET"] \in Nat /\ stats["TOTAL_ITEMS"] \in Nat
      /\ stats["CAS_MISSES"] \in Nat /\ stats["CAS_BADVAL"] \in Nat /\ n \in Nat
      /\ stats["CMD_SET"] >= stats["TOTAL_ITEMS"] + stats["CAS_MISSES"]
                               + stats["CAS_BADVAL"] + n
  BY DoingFinite DEF Tallied, TypedCalls, TypeOK, StatsBalance, Counters
<1>2. n' = IF cmd[t].op \in StorageOps THEN n - 1 ELSE n
  <2>1. "none" \notin StorageOps
    BY DEF StorageOps, TokenOps
  <2>2. CASE cmd' = [cmd EXCEPT ![t] = Nop]
    BY <2>1, <2>2, DoneWith DEF Tallied
  <2>3. CASE cmd' = cmd /\ cmd[t].op \in Retrievals
    BY <2>3 DEF InFlight, Retrievals, StorageOps, TokenOps
  <2> QED
    BY <2>2, <2>3 DEF DoneWithKey
<1> HIDE DEF n
<1>3. /\ stats'["CMD_SET"] = stats["CMD_SET"]
      /\ stats'["TOTAL_ITEMS"] = stats["TOTAL_ITEMS"] + Gain("TOTAL_ITEMS")
      /\ stats'["CAS_MISSES"] = stats["CAS_MISSES"] + Gain("CAS_MISSES")
      /\ stats'["CAS_BADVAL"] = stats["CAS_BADVAL"] + Gain("CAS_BADVAL")
  BY <1>1 DEF Count, Counters, Fits
<1>4. CASE cmd[t].op \in StorageOps
  <2>1. Gain("TOTAL_ITEMS") + Gain("CAS_MISSES") + Gain("CAS_BADVAL") <= 1
    BY DEF Fits
  <2> HIDE DEF Gain
  <2>2. \A c : Gain(c) \in Nat
    BY DEF Gain
  <2>3. stats'["CMD_SET"] >= stats'["TOTAL_ITEMS"] + stats'["CAS_MISSES"]
                                + stats'["CAS_BADVAL"] + n'
    BY <1>1, <1>2, <1>3, <1>4, <2>1, <2>2
  <2> QED
    BY <2>3 DEF n
<1>5. CASE cmd[t].op \notin StorageOps
  <2>1. Gain("TOTAL_ITEMS") = 0 /\ Gain("CAS_MISSES") = 0 /\ Gain("CAS_BADVAL") = 0
    BY <1>5 DEF Fits
  <2> HIDE DEF Gain
  <2>3. stats'["CMD_SET"] >= stats'["TOTAL_ITEMS"] + stats'["CAS_MISSES"]
                                + stats'["CAS_BADVAL"] + n'
    BY <1>1, <1>2, <1>3, <1>5, <2>1
  <2> QED
    BY <2>3 DEF n
<1> QED
  BY <1>4, <1>5

LEMMA GetBalance ==
  ASSUME Tallied, NEW t \in Threads, DoneWithKey(t),
         NEW counters, Count(counters, 1), Fits(cmd[t].op, counters)
  PROVE  /\ IsFiniteSet(KeysInFlight')
         /\ stats'["CMD_GET"] =
              stats'["GET_HITS"] + stats'["GET_MISSES"] + Cardinality(KeysInFlight')
<1> DEFINE n == Cardinality(KeysInFlight)
<1>1. /\ stats["CMD_GET"] \in Nat /\ stats["GET_HITS"] \in Nat
      /\ stats["GET_MISSES"] \in Nat /\ n \in Nat
      /\ stats["CMD_GET"] = stats["GET_HITS"] + stats["GET_MISSES"] + n
  BY FS_CardinalityType DEF Tallied, TypedCalls, TypeOK, StatsBalance, Counters
<1>2. CASE cmd[t].op \in Retrievals
  <2>1. todo' = [todo EXCEPT ![t] = Tail(@)] /\ todo[t] # <<>>
    BY <1>2 DEF DoneWithKey
  <2>2. cmd' = cmd \/ (Tail(todo[t]) = <<>> /\ cmd' = [cmd EXCEPT ![t] = Nop])
    BY <1>2 DEF DoneWithKey
  <2>3. IsFiniteSet(KeysInFlight') /\ n' = n - 1
    BY <1>2, <2>1, <2>2, OneKeyLess DEF Tallied
  <2> HIDE DEF n
  <2>4. /\ stats'["CMD_GET"] = stats["CMD_GET"]
        /\ stats'["GET_HITS"] = stats["GET_HITS"] + IF "GET_HITS" \in counters THEN 1 ELSE 0
        /\ stats'["GET_MISSES"] =
             stats["GET_MISSES"] + IF "GET_MISSES" \in counters THEN 1 ELSE 0
    BY <1>1 DEF Count, Counters, Fits
  <2>5. stats'["CMD_GET"] = stats'["GET_HITS"] + stats'["GET_MISSES"] + n'
    BY <1>1, <1>2, <2>3, <2>4 DEF Fits
  <2> QED
    BY <2>3, <2>5 DEF n
<1>3. CASE cmd[t].op \notin Retrievals
  <2>1. /\ cmd' = [cmd EXCEPT ![t] = Nop] /\ Nop.op \notin Retrievals
        /\ todo' = [todo EXCEPT ![t] = <<>>]
    BY <1>3 DEF DoneWithKey, Nop, Retrievals
  <2>2. \A u \in Threads \ {t} : todo'[u] = todo[u]
    BY <2>1 DEF Tallied, TypedCalls, TypeOK, CallsOK
  <2>3. KeysInFlight' = KeysInFlight
    BY <1>3, <2>1, <2>2, NoKeyInFlight DEF Tallied
  <2>4. /\ stats'["CMD_GET"] = stats["CMD_GET"] /\ stats'["GET_HITS"] = stats["GET_HITS"]
        /\ stats'["GET_MISSES"] = stats["GET_MISSES"]
    BY <1>3 DEF Count, Counters, Fits
  <2> QED
    BY <1>1, <2>3, <2>4 DEF Tallied
<1> QED
  BY <1>2, <1>3

LEMMA TallyBalance ==
  ASSUME Tallied, NEW t \in Threads, Tally(t)
  PROVE  StatsBalance' /\ IsFiniteSet(KeysInFlight') /\ CallsInPlace'
<1>1. CallsInPlace'
  BY DEF Tallied, CallsInPlace, Tally, StaysInPlace
<1>2. CASE UNCHANGED <<stats, cmd, todo>>
  <2>1. KeysInFlight' = KeysInFlight
    BY <1>2 DEF KeysInFlight
  <2> QED
    BY <1>1, <1>2, <2>1, SameBalance DEF Tallied
<1>3. ASSUME DoneWithKey(t), NEW counters, Count(counters, 1), Fits(cmd[t].op, counters)
      PROVE  StatsBalance' /\ IsFiniteSet(KeysInFlight')
  BY <1>3, TouchBalance, SetBalance, GetBalance DEF StatsBalance
<1> QED
  BY <1>1, <1>2, <1>3 DEF Tally

-----------------------------------------------------------------------------
(* The methods.                                                             *)

LEMMA ReplyTally ==
  ASSUME TypedCalls, NEW t \in Threads, cmd[t].op \notin Retrievals, NEW r, NEW counters,
         Reply(t, r, counters), Fits(cmd[t].op, counters)
  PROVE  Tally(t)
<1>1. StaysInPlace(t)
  BY DEF StaysInPlace, Reply, Leave, TypedCalls, TypeOK, CallsOK
<1>2. DoneWithKey(t)
  BY DEF DoneWithKey, Reply, Leave
<1> QED
  BY <1>1, <1>2 DEF Tally, Reply

LEMMA NextKeyTally ==
  ASSUME TypedCalls, NEW t \in Threads, cmd[t].op \in Retrievals,
         pc[t] \in {"entry", "vacant"}, NEW got, NEW counters,
         NextKey(t, got, counters), Fits(cmd[t].op, counters)
  PROVE  Tally(t)
<1>0. todo[t] # <<>>
  BY DEF TypedCalls, CallsWellFormed
<1>1. CASE Tail(todo[t]) = <<>>
  <2>1. StaysInPlace(t)
    BY <1>1 DEF StaysInPlace, NextKey, Leave, TypedCalls, TypeOK, CallsOK
  <2>2. DoneWithKey(t)
    BY <1>0, <1>1 DEF DoneWithKey, NextKey, Leave
  <2> QED
    BY <2>1, <2>2 DEF Tally, NextKey
<1>2. CASE Tail(todo[t]) # <<>>
  <2>1. StaysInPlace(t)
    BY <1>2 DEF StaysInPlace, NextKey, TypedCalls, TypeOK, CallsOK
  <2>2. DoneWithKey(t)
    BY <1>0, <1>2 DEF DoneWithKey, NextKey
  <2> QED
    BY <2>1, <2>2 DEF Tally, NextKey
<1> QED
  BY <1>1, <1>2

LEMMA VacantTally ==
  ASSUME TypedCalls, NEW t \in Threads, EntryVacant(t)
  PROVE  Tally(t)
BY DEF Tally, StaysInPlace, EntryVacant, TypedCalls, TypeOK, CallsOK

LEMMA RetrievalTally ==
  ASSUME TypedCalls, NEW t \in Threads, Get(t) \/ GetAndTouch(t)
  PROVE  Tally(t)
<1>0. cmd[t].op \in Retrievals /\ cmd[t].op \notin StorageOps /\ cmd[t].op # "touch"
  BY DEF Get, GetAndTouch, Running, Retrievals, StorageOps, TokenOps
<1>1. CASE EntryVacant(t)
  BY <1>1, VacantTally
<1>2. /\ Fits(cmd[t].op, Miss) /\ Fits(cmd[t].op, Miss \cup {"GET_EXPIRED"})
      /\ Fits(cmd[t].op, {"GET_HITS"})
  BY <1>0 DEF Fits, Miss
<1>3. ASSUME pc[t] \in {"entry", "vacant"}, NEW got, NEW counters,
             NextKey(t, got, counters), Fits(cmd[t].op, counters)
      PROVE  Tally(t)
  BY <1>0, <1>3, NextKeyTally
<1>4. /\ EntryRemoved(t) \/ DropGuard(t) => pc[t] \in {"entry", "vacant"}
      /\ EntryLive(t) # {} => pc[t] \in {"entry", "vacant"}
  BY DEF EntryRemoved, DropGuard, EntryLive, AtEntry
<1> QED
  BY <1>1, <1>2, <1>3, <1>4 DEF Get, GetAndTouch

\* The sets of counters with which the methods that answer once do so.
LEMMA SetFits ==
  ASSUME NEW t \in Threads, cmd[t].op \in StorageOps
  PROVE  /\ cmd[t].op \notin Retrievals /\ Fits(cmd[t].op, {})
         /\ Fits(cmd[t].op, {"TOTAL_ITEMS"}) /\ Fits(cmd[t].op, {"CAS_HITS", "TOTAL_ITEMS"})
         /\ Fits(cmd[t].op, {"CAS_MISSES"}) /\ Fits(cmd[t].op, {"CAS_BADVAL"})
<1>1. cmd[t].op \notin Retrievals /\ cmd[t].op # "touch"
  BY DEF StorageOps, TokenOps, Retrievals
<1> QED
  BY <1>1 DEF Fits

LEMMA StorageTally ==
  ASSUME TypedCalls, NEW t \in Threads,
         Set(t) \/ Add(t) \/ Replace(t) \/ Concat(t) \/ Cas(t)
  PROVE  Tally(t)
<1>1. cmd[t].op \in StorageOps
  BY DEF Set, Add, Replace, Concat, Cas, Running, StorageOps, TokenOps
<1>2. EntryVacant(t) \/ \E r, counters : Reply(t, r, counters) /\
        counters \in {{}, {"TOTAL_ITEMS"}, {"CAS_HITS", "TOTAL_ITEMS"},
                      {"CAS_MISSES"}, {"CAS_BADVAL"}}
  BY DEF Set, Add, Replace, Concat, Cas
<1> QED
  BY <1>1, <1>2, SetFits, ReplyTally, VacantTally

LEMMA OtherTally ==
  ASSUME TypedCalls, NEW t \in Threads, Delete(t) \/ Arithmetic(t) \/ Touch(t)
  PROVE  Tally(t)
<1>1. CASE Touch(t)
  <2>1. /\ cmd[t].op \notin Retrievals /\ Fits(cmd[t].op, {"TOUCH_HITS"})
        /\ Fits(cmd[t].op, {"TOUCH_MISSES"})
    BY <1>1 DEF Touch, Running, Fits, Retrievals, StorageOps, TokenOps
  <2> QED
    BY <1>1, <2>1, ReplyTally, VacantTally DEF Touch
<1>2. CASE Delete(t)
  <2>1. /\ cmd[t].op \notin Retrievals /\ Fits(cmd[t].op, {"DELETE_HITS"})
        /\ Fits(cmd[t].op, {"DELETE_MISSES"})
        /\ Fits(cmd[t].op, {"GET_EXPIRED", "DELETE_MISSES"})
    BY <1>2 DEF Delete, Running, Fits, Retrievals, StorageOps, TokenOps
  <2> QED
    BY <1>2, <2>1, ReplyTally DEF Delete
<1>3. CASE Arithmetic(t)
  <2>1. /\ cmd[t].op \notin Retrievals /\ Fits(cmd[t].op, {})
        /\ Fits(cmd[t].op, HitsOf(cmd[t].op)) /\ Fits(cmd[t].op, MissesOf(cmd[t].op))
    BY <1>3 DEF Arithmetic, Running, Fits, HitsOf, MissesOf, Retrievals, StorageOps, TokenOps
  <2>2. \/ EntryVacant(t)
        \/ \E r, counters : Reply(t, r, counters) /\
             counters \in {{}, HitsOf(cmd[t].op), MissesOf(cmd[t].op)}
    BY <1>3 DEF Arithmetic
  <2> QED
    BY <2>1, <2>2, ReplyTally, VacantTally
<1> QED
  BY <1>1, <1>2, <1>3

LEMMA FlushTally ==
  ASSUME Tallied, NEW t \in Threads, FlushDelayed(t) \/ ClearShard(t) \/ ClearDone(t)
  PROVE  Tally(t)
<1>1. cmd[t].op = "flush_all"
  BY DEF FlushDelayed, ClearShard, ClearDone, Tallied, CallsInPlace
<1>2. CASE ClearShard(t)
  BY <1>1, <1>2 DEF ClearShard, Tally, StaysInPlace, locals
<1>3. cmd[t].op \notin Retrievals /\ Fits(cmd[t].op, {})
  BY <1>1 DEF Fits, Retrievals, StorageOps, TokenOps
<1> QED
  BY <1>2, <1>3, ReplyTally DEF FlushDelayed, ClearDone, Tallied

LEMMA SnapshotTally ==
  ASSUME Tallied, NEW t \in Threads, LoadOldest(t) \/ TakeToken(t)
  PROVE  Tally(t)
BY DEF LoadOldest, TakeToken, Tally, StaysInPlace, Tallied, TypedCalls, TypeOK, CallsOK

LEMMA StepTally ==
  ASSUME Tallied, NEW t \in Threads, Step(t)
  PROVE  Tallied'
<1>1. Tally(t)
  BY RetrievalTally, StorageTally, OtherTally, FlushTally, SnapshotTally
     DEF Step, Method, Tallied
<1>2. TypedCalls'
  BY SnapshotTyped, MethodTyped DEF Step, Tallied
<1> QED
  BY <1>1, <1>2, TallyBalance DEF Tallied

-----------------------------------------------------------------------------
(* The beginning of a call, and the steps outside any call.                 *)

\* A call is counted when it begins, a retrieval with all its keys.
LEMMA BeginTally ==
  ASSUME Tallied, NEW t \in Threads, NEW c \in Commands, Begin(t, c)
  PROVE  Tallied'
<1>0. /\ c \in Command /\ cmd[t] = Nop /\ cmd' = [cmd EXCEPT ![t] = c]
      /\ todo' = [todo EXCEPT ![t] = c.keys] /\ TypedCalls /\ TypedCalls'
  BY CommandsAssumption, BeginTyped DEF Begin, Tallied, CallsInPlace
<1>1. CallsInPlace'
  BY DEF Begin, Tallied, CallsInPlace, TypedCalls, TypeOK, CallsOK
<1> DEFINE n == IF c.op \in Retrievals THEN Len(c.keys) ELSE 1
<1>2. n \in Nat
  BY <1>0 DEF Command
<1>3. \A x \in Counters : /\ stats[x] \in Nat
                          /\ stats'[x] = IF x \in CallCounter(c.op) THEN stats[x] + n ELSE stats[x]
  BY DEF Begin, Count, Tallied, TypedCalls, TypeOK
<1>4. \A x \in CallCounter(c.op) :
        /\ x = "CMD_TOUCH" => c.op = "touch"
        /\ x = "CMD_SET" => c.op \in StorageOps
        /\ x = "CMD_GET" => c.op \in Retrievals
        /\ x \in {"CMD_GET", "CMD_SET", "CMD_INCR", "CMD_DECR", "CMD_TOUCH", "CMD_FLUSH"}
  BY <1>0 DEF Command, Ops, CallCounter, StorageOps, TokenOps, Retrievals
<1>5. /\ c.op = "touch" => "CMD_TOUCH" \in CallCounter(c.op)
      /\ c.op \in StorageOps => "CMD_SET" \in CallCounter(c.op)
      /\ c.op \in Retrievals => "CMD_GET" \in CallCounter(c.op)
  BY DEF CallCounter, StorageOps, TokenOps, Retrievals
<1>6. \A x \in {"TOUCH_HITS", "TOUCH_MISSES", "TOTAL_ITEMS", "CAS_MISSES", "CAS_BADVAL",
                "GET_HITS", "GET_MISSES"} : x \in Counters /\ stats'[x] = stats[x]
  BY <1>3, <1>4 DEF Counters
<1>7. "none" \notin {"touch"} /\ "none" \notin StorageOps /\ "none" \notin Retrievals
  BY DEF StorageOps, TokenOps, Retrievals
<1>8. cmd[t].op = "none"
  BY <1>0 DEF Nop
<1>9. /\ InFlight({"touch"})' = IF c.op = "touch" THEN InFlight({"touch"}) + 1
                                                 ELSE InFlight({"touch"})
      /\ InFlight(StorageOps)' = IF c.op \in StorageOps THEN InFlight(StorageOps) + 1
                                                        ELSE InFlight(StorageOps)
      /\ InFlight({"touch"}) \in Nat /\ InFlight(StorageOps) \in Nat
  <2>1. ASSUME NEW names, "none" \notin names
        PROVE  /\ InFlight(names) \in Nat
               /\ InFlight(names)' = IF c.op \in names THEN InFlight(names) + 1
                                                       ELSE InFlight(names)
    BY <1>0, <1>8, <2>1, SetOut, DoingFinite
  <2> QED
    BY <1>7, <2>1
<1>10. /\ IsFiniteSet(KeysInFlight')
       /\ Cardinality(KeysInFlight') =
            IF c.op \in Retrievals THEN Cardinality(KeysInFlight) + n ELSE Cardinality(KeysInFlight)
  <2>1. CASE c.op \in Retrievals
    BY <1>0, <1>7, <1>8, <2>1, AllKeysMore DEF Tallied
  <2>2. CASE c.op \notin Retrievals
    <3>1. \A u \in Threads \ {t} : todo'[u] = todo[u]
      BY <1>0 DEF TypedCalls, TypeOK, CallsOK
    <3>2. KeysInFlight' = KeysInFlight
      BY <1>0, <1>7, <1>8, <2>2, <3>1, NoKeyInFlight
    <3> QED
      BY <2>2, <3>2 DEF Tallied
  <2> QED
    BY <2>1, <2>2
<1>11. /\ "CMD_TOUCH" \in Counters /\ "CMD_SET" \in Counters /\ "CMD_GET" \in Counters
       /\ c.op = "touch" \/ c.op \in StorageOps => c.op \notin Retrievals
  BY DEF Counters, StorageOps, TokenOps, Retrievals
<1>12. /\ stats'["CMD_TOUCH"] = IF c.op = "touch" THEN stats["CMD_TOUCH"] + 1
                                                  ELSE stats["CMD_TOUCH"]
       /\ stats'["CMD_SET"] = IF c.op \in StorageOps THEN stats["CMD_SET"] + 1
                                                     ELSE stats["CMD_SET"]
       /\ stats'["CMD_GET"] = IF c.op \in Retrievals THEN stats["CMD_GET"] + n
                                                     ELSE stats["CMD_GET"]
  BY <1>3, <1>4, <1>5, <1>11
<1> HIDE DEF n
<1>13. Cardinality(KeysInFlight) \in Nat
  BY FS_CardinalityType DEF Tallied
<1>14. StatsBalance'
  <2>1. StatsBalance
    BY DEF Tallied
  <2>2. stats'["CMD_TOUCH"] = stats'["TOUCH_HITS"] + stats'["TOUCH_MISSES"] + InFlight({"touch"})'
    BY <1>3, <1>6, <1>9, <1>11, <1>12, <2>1 DEF StatsBalance
  <2>3. stats'["CMD_SET"] >= stats'["TOTAL_ITEMS"] + stats'["CAS_MISSES"]
                               + stats'["CAS_BADVAL"] + InFlight(StorageOps)'
    BY <1>3, <1>6, <1>9, <1>11, <1>12, <2>1 DEF StatsBalance
  <2>4. stats'["CMD_GET"] = stats'["GET_HITS"] + stats'["GET_MISSES"] + Cardinality(KeysInFlight')
    BY <1>2, <1>3, <1>6, <1>10, <1>11, <1>12, <1>13, <2>1 DEF StatsBalance
  <2> QED
    BY <2>2, <2>3, <2>4 DEF StatsBalance
<1> QED
  BY <1>0, <1>1, <1>10, <1>14 DEF Tallied

LEMMA StillTally ==
  ASSUME Tallied, Tick \/ UNCHANGED vars
  PROVE  Tallied'
<1>1. UNCHANGED <<stats, cmd, todo, pc>>
  BY DEF Tick, vars, locals
<1>2. KeysInFlight' = KeysInFlight /\ CallsInPlace'
  BY <1>1 DEF KeysInFlight, CallsInPlace, Tallied
<1>3. StatsBalance'
  BY <1>1, SameBalance
<1> QED
  BY <1>2, <1>3, TickTyped, StutterTyped DEF Tallied

LEMMA InitTally ==
  ASSUME Init
  PROVE  Tallied
<1>1. TypedCalls /\ CallsInPlace
  BY InitTyped DEF Init, CallsInPlace
<1>2. KeysInFlight = {}
  BY InFlightMember DEF Init, Nop, Retrievals
<1>3. Doing({"touch"}) = {} /\ Doing(StorageOps) = {}
  BY DEF Doing, Init, Nop, StorageOps, TokenOps
<1>4. /\ InFlight({"touch"}) = 0 /\ InFlight(StorageOps) = 0
      /\ IsFiniteSet(KeysInFlight) /\ Cardinality(KeysInFlight) = 0
  BY <1>2, <1>3, DoingFinite, FS_EmptySet
<1>5. \A x \in Counters : stats[x] = 0
  BY DEF Init
<1>6. StatsBalance
  BY <1>4, <1>5 DEF StatsBalance, Counters
<1> QED
  BY <1>1, <1>4, <1>6 DEF Tallied

\* The counters agree with one another at every moment: with the answers the
\* calls that are over have had, up to the calls and the keys in flight,
\* whichever threads add to them in between.
THEOREM CountersAgree == Spec => []StatsBalance
<1>1. Init => Tallied
  BY InitTally
<1>2. Tallied /\ [Next]_vars => Tallied'
  BY BeginTally, StepTally, StillTally DEF Next, Rest
<1>3. Tallied => StatsBalance
  BY DEF Tallied
<1> QED
  BY <1>1, <1>2, <1>3, PTL DEF Spec
=============================================================================
