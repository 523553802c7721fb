------------------------------- MODULE Store -------------------------------
(***************************************************************************)
(* The store shared by every session (store.rs), its clock (clock.rs) and  *)
(* the counters it keeps (stats.rs).                                       *)
(*                                                                         *)
(* A worker thread runs one Store method at a time.  A method first takes  *)
(* a snapshot (the clock, the flush cutoff, a fresh CAS token), each with  *)
(* an atomic access of its own, and uses it later in a callback that       *)
(* quick_cache runs under the lock of the key's shard.  Other threads, the *)
(* clock task included, run between any two of these accesses.             *)
(*                                                                         *)
(* quick_cache is external.  What store.rs relies on is modelled: `entry`  *)
(* on a missing key leaves a placeholder whose guard the caller holds,     *)
(* another `entry` on that key waits for the guard to go, and `insert`,    *)
(* `remove` and `clear` take the placeholder away, after which the guard's *)
(* own insert fails.  An insertion may evict any entries.                  *)
(*                                                                         *)
(* What follows the callback is local to the thread or adds to a counter,  *)
(* and commutes with the other threads' steps; it is folded into the       *)
(* callback's step unless the thread still holds a placeholder.            *)
(***************************************************************************)
EXTENDS Items, FiniteSets

CONSTANTS
  Threads,        \* the worker threads
  Keys,
  Commands,       \* the calls the sessions may make
  StartTime,      \* the wall clock when the clock task is spawned
  MonotoneClock,  \* whether the wall clock is never set back
  MaxTime,        \* bound on the clock
  MaxOps,         \* bound on the calls of a behaviour
  MaxEvictions    \* bound on the evictions of a behaviour

TokenOps == {"set", "add", "replace", "append", "prepend", "cas",
             "incr", "decr", "touch"}
StorageOps == TokenOps \ {"incr", "decr", "touch"}
Retrievals == {"get", "gat"}
Ops        == TokenOps \cup Retrievals \cup {"delete", "flush_all"}

\* A call with every argument some call takes; store.rs ignores the others.
Command == [op: Ops, keys: Seq(Keys), exptime: Int, data: Data,
            delta: U64, token: Nat, delay: Nat]

ASSUME CommandsAssumption ==
  /\ Commands \subseteq Command
  /\ \A c \in Commands : c.op # "flush_all" => c.keys # <<>>
ASSUME KeysAssumption == IsFiniteSet(Keys)
ASSUME ThreadsAssumption == IsFiniteSet(Threads)
ASSUME BoundsAssumption ==
  /\ StartTime \in Nat \ {0}
  /\ MonotoneClock \in BOOLEAN
  /\ MaxTime \in Nat
  /\ MaxOps \in Nat
  /\ MaxEvictions \in Nat

Counters == {"CMD_GET", "CMD_SET", "CMD_INCR", "CMD_DECR", "CMD_TOUCH",
  "CMD_FLUSH", "GET_HITS", "GET_MISSES", "GET_EXPIRED", "CAS_HITS",
  "CAS_MISSES", "CAS_BADVAL", "INCR_HITS", "INCR_MISSES", "DECR_HITS",
  "DECR_MISSES", "TOUCH_HITS", "TOUCH_MISSES", "DELETE_HITS",
  "DELETE_MISSES", "TOTAL_ITEMS"}

Replies == {"Stored", "NotStored", "Deleted", "NotFound", "Exists",
            "Touched", "Values", "Number", "Ok", "ClientError"}

VARIABLES
  \* shared by the threads
  clock,        \* Clock.secs
  oldest_live,  \* StoreInner.oldest_live, 0 when no delayed flush was asked
  next_cas,     \* StoreInner.next_cas
  items,        \* StoreInner.items: for each key, the resident item if any
  guard,        \* for each key, the thread whose placeholder stands in it
  stats,        \* the counters
  evictions,    \* the EVICTIONS counter
  \* local to the call a thread runs
  pc, cmd,
  todo,         \* the keys the call has yet to handle
  now, oldest, cas,  \* the snapshot
  unswept,      \* keys a running clear has yet to reach
  \* what a thread's client was told
  reply,        \* the last response
  values,       \* the values of the last retrieval
  \* the model's own
  ops,          \* calls begun, for MaxOps
  judged,       \* history: the versions some call has found expired
  marked        \* history: the versions resident when a clear was asked

shared  == <<items, guard, evictions, next_cas, judged>>
locals  == <<pc, cmd, todo, now, oldest, cas>>
client  == <<reply, values>>
flushing == <<unswept, marked>>
vars == <<clock, oldest_live, shared, stats, locals, client, flushing, ops>>

-----------------------------------------------------------------------------
Nop == [op |-> "none", keys |-> <<>>, exptime |-> 0, data |-> <<>>,
        delta |-> 0, token |-> 0, delay |-> 0]

Init ==
  /\ clock = StartTime
  /\ oldest_live = 0
  /\ next_cas = 1
  /\ items = [k \in Keys |-> None]
  /\ guard = [k \in Keys |-> None]
  /\ stats = [c \in Counters |-> 0]
  /\ evictions = 0
  /\ pc = [t \in Threads |-> "idle"]
  /\ cmd = [t \in Threads |-> Nop]
  /\ todo = [t \in Threads |-> <<>>]
  /\ now = [t \in Threads |-> 0]
  /\ oldest = [t \in Threads |-> None]
  /\ cas = [t \in Threads |-> 0]
  /\ unswept = [t \in Threads |-> {}]
  /\ reply = [t \in Threads |-> "none"]
  /\ values = [t \in Threads |-> {}]
  /\ ops = 0
  /\ judged = {}
  /\ marked = [t \in Threads |-> {}]

\* A version of a key is named by the token it was written with.
Resident == UNION {{<<k, item.cas>> : item \in items[k]} : k \in Keys}

\* spawn_clock's task copies the system time, which an administrator or NTP
\* may also set back.
Tick ==
  \E s \in 1 .. MaxTime :
    /\ s # clock
    /\ MonotoneClock => s > clock
    /\ clock' = s
    /\ UNCHANGED <<oldest_live, shared, stats, locals, client, flushing, ops>>

-----------------------------------------------------------------------------
(* The beginning of a call: the snapshot.                                  *)

\* The counter a call adds to on entry, and by how much.
CallCounter(op) ==
  CASE op \in Retrievals                    -> {"CMD_GET"}
    [] op \in StorageOps                    -> {"CMD_SET"}
    [] op = "incr"                          -> {"CMD_INCR"}
    [] op = "decr"                          -> {"CMD_DECR"}
    [] op = "touch"                         -> {"CMD_TOUCH"}
    [] op = "flush_all"                     -> {"CMD_FLUSH"}
    [] op = "delete"                        -> {}

Count(counters, n) ==
  stats' = [c \in Counters |-> IF c \in counters THEN stats[c] + n ELSE stats[c]]

\* handler::handle dispatches the command and the method reads the clock.
Begin(t, c) ==
  /\ pc[t] = "idle"
  /\ ops < MaxOps
  /\ ops' = ops + 1
  /\ cmd' = [cmd EXCEPT ![t] = c]
  /\ todo' = [todo EXCEPT ![t] = c.keys]
  /\ now' = [now EXCEPT ![t] = clock]
  /\ pc' = [pc EXCEPT ![t] = IF c.op = "flush_all" THEN "flush" ELSE "oldest"]
  /\ Count(CallCounter(c.op), IF c.op \in Retrievals THEN Len(c.keys) ELSE 1)
  /\ reply' = [reply EXCEPT ![t] = "none"]
  /\ values' = [values EXCEPT ![t] = {}]
  /\ IF c.op = "flush_all" /\ c.delay = 0
       THEN /\ unswept' = [unswept EXCEPT ![t] = Keys]
            /\ marked' = [marked EXCEPT ![t] = Resident]
       ELSE UNCHANGED flushing
  /\ UNCHANGED <<clock, oldest_live, shared, oldest, cas>>

LoadOldest(t) ==
  /\ pc[t] = "oldest"
  /\ oldest' = [oldest EXCEPT ![t] = OldestLive(oldest_live)]
  /\ pc' = [pc EXCEPT ![t] = IF cmd[t].op \in TokenOps THEN "token" ELSE "entry"]
  /\ UNCHANGED <<clock, oldest_live, shared, stats, cmd, todo, now, cas,
                 client, flushing, ops>>

\* Mutant: the counter is read but not advanced by the same access.
TakeTokenLoad(t) ==
  /\ pc[t] = "token"
  /\ cas' = [cas EXCEPT ![t] = next_cas]
  /\ pc' = [pc EXCEPT ![t] = "entry"]
  /\ UNCHANGED <<clock, oldest_live, shared, stats,
                 cmd, todo, now, oldest, client, flushing, ops>>

\* StoreInner::next_cas is a fetch_add: the token is taken long before it is
\* written to an item.
TakeToken(t) ==
  /\ pc[t] = "token"
  /\ cas' = [cas EXCEPT ![t] = next_cas]
  /\ next_cas' = next_cas + 1
  /\ pc' = [pc EXCEPT ![t] = "entry"]
  /\ UNCHANGED <<clock, oldest_live, items, guard, evictions, judged, stats,
                 cmd, todo, now, oldest, client, flushing, ops>>

-----------------------------------------------------------------------------
(* The end of a call.                                                      *)

Leave(t, r) ==
  /\ pc' = [pc EXCEPT ![t] = "idle"]
  /\ cmd' = [cmd EXCEPT ![t] = Nop]
  /\ todo' = [todo EXCEPT ![t] = <<>>]
  /\ now' = [now EXCEPT ![t] = 0]
  /\ oldest' = [oldest EXCEPT ![t] = None]
  /\ cas' = [cas EXCEPT ![t] = 0]
  /\ reply' = [reply EXCEPT ![t] = r]

Reply(t, r, counters) ==
  /\ Leave(t, r)
  /\ Count(counters, 1)
  /\ UNCHANGED values

\* A retrieval's loop: on to the next key, or the Values response.
NextKey(t, got, counters) ==
  /\ values' = [values EXCEPT ![t] = @ \cup got]
  /\ Count(counters, 1)
  /\ IF Tail(todo[t]) = <<>>
       THEN Leave(t, "Values")
       ELSE /\ todo' = [todo EXCEPT ![t] = Tail(@)]
            /\ pc' = [pc EXCEPT ![t] = "entry"]
            /\ UNCHANGED <<cmd, now, oldest, cas, reply>>

-----------------------------------------------------------------------------
(* quick_cache's entry, insert and guard, as store.rs uses them.           *)

Key(t) == Head(todo[t])

\* A caller of `entry` waits while another thread's placeholder is there.
AtEntry(t) == pc[t] = "entry" /\ guard[Key(t)] = None

Stale(t, item) == IsExpired(item, now[t], oldest[t])

Judge(t, item) == judged' = judged \cup {<<Key(t), item.cas>>}

\* EntryResult::Vacant: the caller now holds a placeholder.
EntryVacant(t) ==
  /\ AtEntry(t)
  /\ items[Key(t)] = None
  /\ guard' = [guard EXCEPT ![Key(t)] = Some(t)]
  /\ pc' = [pc EXCEPT ![t] = "vacant"]
  /\ UNCHANGED <<items, evictions, next_cas, judged, stats, cmd, todo, now,
                 oldest, cas, client>>

\* Mutant: the expired item is reported missing but left in the cache.
EntryRemovedRetain(t) ==
  /\ AtEntry(t)
  /\ \E item \in items[Key(t)] : Stale(t, item) /\ Judge(t, item)
  /\ UNCHANGED <<items, guard, evictions, next_cas>>

\* EntryResult::Removed: the callback found the item expired.
EntryRemoved(t) ==
  /\ AtEntry(t)
  /\ \E item \in items[Key(t)] : Stale(t, item) /\ Judge(t, item)
  /\ items' = [items EXCEPT ![Key(t)] = None]
  /\ UNCHANGED <<guard, evictions, next_cas>>

\* The items `entry` runs its callback on that the callback takes for live.
EntryLive(t) == IF AtEntry(t) THEN {i \in items[Key(t)] : ~ Stale(t, i)} ELSE {}

\* The callback leaves the item as it is.
Retain == UNCHANGED <<items, guard, evictions, next_cas, judged>>

\* The cache takes in an item, or a resident item of a new weight, and may
\* evict any entries for it, the new one included (ItemLifecycle::on_evict).
Admit(k, item) ==
  \E victims \in SUBSET {x \in Keys : x = k \/ items[x] # None} :
    /\ evictions + Cardinality(victims) <= MaxEvictions
    /\ evictions' = evictions + Cardinality(victims)
    /\ items' = [x \in Keys |-> IF x \in victims THEN None
                                ELSE IF x = k THEN Some(item) ELSE items[x]]

\* Mutant: the item in place is changed and keeps its token.
RewriteSameToken(t, item) ==
  /\ \E old \in items[Key(t)] : Admit(Key(t), [item EXCEPT !.cas = old.cas])
  /\ UNCHANGED <<guard, next_cas, judged>>

Rewrite(t, item) == Admit(Key(t), item) /\ UNCHANGED <<guard, next_cas, judged>>

HoldsGuard(t) == guard[Key(t)] = Some(t)

DropGuardLeak(t) == \* Mutant: the placeholder outlives its guard.
  /\ pc[t] = "vacant"
  /\ UNCHANGED <<items, guard, evictions, next_cas, judged>>

DropGuardAny(t) == \* Mutant: a late guard takes the next owner's placeholder.
  /\ pc[t] = "vacant"
  /\ guard' = [guard EXCEPT ![Key(t)] = None]
  /\ UNCHANGED <<items, evictions, next_cas, judged>>

\* The guard of a vacant entry is dropped; its placeholder may be gone already.
DropGuard(t) ==
  /\ pc[t] = "vacant"
  /\ guard' = IF HoldsGuard(t) THEN [guard EXCEPT ![Key(t)] = None] ELSE guard
  /\ UNCHANGED <<items, evictions, next_cas, judged>>

-----------------------------------------------------------------------------
(* The methods of Store after the snapshot.                                *)

Running(t, names) ==
  /\ cmd[t].op \in names
  /\ UNCHANGED <<clock, oldest_live, flushing, ops>>

NoMiss == {} \* Mutant: a miss is not counted.
Miss == {"GET_MISSES"}
Found(t, item) == [key |-> Key(t), data |-> item.data, cas |-> item.cas]

Get(t) ==
  /\ Running(t, {"get"})
  /\ \/ EntryVacant(t)
     \/ EntryRemoved(t) /\ NextKey(t, {}, Miss \cup {"GET_EXPIRED"})
     \/ \E item \in EntryLive(t) :
          Retain /\ NextKey(t, {Found(t, item)}, {"GET_HITS"})
     \/ DropGuard(t) /\ NextKey(t, {}, Miss)

\* Store::get_and_touch takes its token inside the callback.
GetAndTouch(t) ==
  /\ Running(t, {"gat"})
  /\ \/ EntryVacant(t)
     \/ EntryRemoved(t) /\ NextKey(t, {}, Miss \cup {"GET_EXPIRED"})
     \/ \E item \in EntryLive(t) :
          LET touched == [item EXCEPT !.cas = next_cas,
                            !.expires_at = ResolveExpiry(cmd[t].exptime, now[t])]
          IN  /\ items' = [items EXCEPT ![Key(t)] = Some(touched)]
              /\ next_cas' = next_cas + 1
              /\ UNCHANGED <<guard, evictions, judged>>
              /\ NextKey(t, {Found(t, touched)}, {"GET_HITS"})
     \/ DropGuard(t) /\ NextKey(t, {}, Miss)

NewVersion(t) == NewItem(cmd[t].data, cmd[t].exptime, cas[t], now[t])

\* Mutant: a set leaves another thread's placeholder standing.
SetBesideGuard(t) ==
  /\ Running(t, {"set"})
  /\ pc[t] = "entry"
  /\ Admit(Key(t), NewVersion(t))
  /\ UNCHANGED <<guard, next_cas, judged>>
  /\ Reply(t, "Stored", {"TOTAL_ITEMS"})

\* A plain insert neither waits for a placeholder nor spares it.
Set(t) ==
  /\ Running(t, {"set"})
  /\ pc[t] = "entry"
  /\ Admit(Key(t), NewVersion(t))
  /\ guard' = [guard EXCEPT ![Key(t)] = None]
  /\ UNCHANGED <<next_cas, judged>>
  /\ Reply(t, "Stored", {"TOTAL_ITEMS"})

\* Mutant: the guard's insert is taken to succeed although a Set, a Delete or a
\* Clear took the placeholder away.
AddIgnoringGuard(t) ==
  /\ Running(t, {"add"})
  /\ \/ EntryVacant(t)
     \/ EntryLive(t) # {} /\ Retain /\ Reply(t, "NotStored", {})
     \/ /\ pc[t] = "vacant"
        /\ Admit(Key(t), NewVersion(t))
        /\ guard' = [guard EXCEPT ![Key(t)] = None]
        /\ UNCHANGED <<next_cas, judged>>
        /\ Reply(t, "Stored", {"TOTAL_ITEMS"})

Add(t) ==
  /\ Running(t, {"add"})
  /\ \/ EntryVacant(t)
     \/ /\ AtEntry(t)
        /\ \E item \in items[Key(t)] : Stale(t, item) /\ Judge(t, item)
        /\ Admit(Key(t), NewVersion(t))
        /\ UNCHANGED <<guard, next_cas>>
        /\ Reply(t, "Stored", {"TOTAL_ITEMS"})
     \/ EntryLive(t) # {} /\ Retain /\ Reply(t, "NotStored", {})
     \/ /\ pc[t] = "vacant" /\ HoldsGuard(t)
        /\ Admit(Key(t), NewVersion(t))
        /\ guard' = [guard EXCEPT ![Key(t)] = None]
        /\ UNCHANGED <<next_cas, judged>>
        /\ Reply(t, "Stored", {"TOTAL_ITEMS"})
     \/ ~ HoldsGuard(t) /\ DropGuard(t) /\ Reply(t, "NotStored", {})

Replace(t) ==
  /\ Running(t, {"replace"})
  /\ \/ EntryVacant(t)
     \/ (EntryRemoved(t) \/ DropGuard(t)) /\ Reply(t, "NotStored", {})
     \/ /\ EntryLive(t) # {}
        /\ Rewrite(t, NewVersion(t))
        /\ Reply(t, "Stored", {"TOTAL_ITEMS"})

\* Append and Prepend keep the item's expiry and storage time.
Concat(t) ==
  /\ Running(t, {"append", "prepend"})
  /\ \/ EntryVacant(t)
     \/ (EntryRemoved(t) \/ DropGuard(t)) /\ Reply(t, "NotStored", {})
     \/ \E item \in EntryLive(t) :
          /\ Rewrite(t, [item EXCEPT !.cas = cas[t],
                 !.data = IF cmd[t].op = "append" THEN item.data \o cmd[t].data
                                                  ELSE cmd[t].data \o item.data])
          /\ Reply(t, "Stored", {"TOTAL_ITEMS"})

Cas(t) ==
  /\ Running(t, {"cas"})
  /\ \/ EntryVacant(t)
     \/ (EntryRemoved(t) \/ DropGuard(t)) /\ Reply(t, "NotFound", {"CAS_MISSES"})
     \/ \E item \in EntryLive(t) :
          \/ /\ item.cas # cmd[t].token
             /\ Retain /\ Reply(t, "Exists", {"CAS_BADVAL"})
          \/ /\ item.cas = cmd[t].token
             /\ Rewrite(t, NewVersion(t))
             /\ Reply(t, "Stored", {"CAS_HITS", "TOTAL_ITEMS"})

\* remove() takes an item or a placeholder; only afterwards is the item
\* looked at.
Delete(t) ==
  /\ Running(t, {"delete"})
  /\ pc[t] = "entry"
  /\ items' = [items EXCEPT ![Key(t)] = None]
  /\ guard' = [guard EXCEPT ![Key(t)] = None]
  /\ UNCHANGED <<evictions, next_cas>>
  /\ \/ /\ items[Key(t)] = None
        /\ UNCHANGED judged
        /\ Reply(t, "NotFound", {"DELETE_MISSES"})
     \/ \E item \in items[Key(t)] :
          \/ /\ Stale(t, item) /\ Judge(t, item)
             /\ Reply(t, "NotFound", {"GET_EXPIRED", "DELETE_MISSES"})
          \/ /\ ~ Stale(t, item) /\ UNCHANGED judged
             /\ Reply(t, "Deleted", {"DELETE_HITS"})

HitsOf(op)   == IF op = "incr" THEN {"INCR_HITS"} ELSE {"DECR_HITS"}
MissesOf(op) == IF op = "incr" THEN {"INCR_MISSES"} ELSE {"DECR_MISSES"}

Arithmetic(t) ==
  /\ Running(t, {"incr", "decr"})
  /\ \/ EntryVacant(t)
     \/ (EntryRemoved(t) \/ DropGuard(t)) /\ Reply(t, "NotFound", MissesOf(cmd[t].op))
     \/ \E item \in EntryLive(t) :
          \/ /\ ParseU64(item.data) = None
             /\ Retain /\ Reply(t, "ClientError", {})
          \/ \E val \in ParseU64(item.data) :
               LET new == IF cmd[t].op = "incr" THEN WrappingAdd(val, cmd[t].delta)
                                                ELSE SaturatingSub(val, cmd[t].delta)
               IN  /\ Rewrite(t, [item EXCEPT !.data = FormatU64(new), !.cas = cas[t]])
                   /\ Reply(t, "Number", HitsOf(cmd[t].op))

Touch(t) ==
  /\ Running(t, {"touch"})
  /\ \/ EntryVacant(t)
     \/ (EntryRemoved(t) \/ DropGuard(t)) /\ Reply(t, "NotFound", {"TOUCH_MISSES"})
     \/ \E item \in EntryLive(t) :
          /\ items' = [items EXCEPT ![Key(t)] = Some([item EXCEPT !.cas = cas[t],
                         !.expires_at = ResolveExpiry(cmd[t].exptime, now[t])])]
          /\ UNCHANGED <<guard, evictions, next_cas, judged>>
          /\ Reply(t, "Touched", {"TOUCH_HITS"})

-----------------------------------------------------------------------------
(* Store::flush.                                                           *)

\* flush_all with a delay: the cutoff is the clock read earlier plus the delay.
FlushDelayed(t) ==
  /\ pc[t] = "flush" /\ cmd[t].delay > 0
  /\ oldest_live' = now[t] + cmd[t].delay
  /\ Reply(t, "Ok", {})
  /\ UNCHANGED <<clock, shared, flushing, ops>>

\* Mutant: the clear spares what was stored since the flush was asked.
ClearShardOlder(t) ==
  /\ pc[t] = "flush" /\ cmd[t].delay = 0
  /\ \E k \in unswept[t] :
       /\ items' = [items EXCEPT ![k] = {i \in @ : i.stored_at >= now[t]}]
       /\ guard' = [guard EXCEPT ![k] = None]
       /\ unswept' = [unswept EXCEPT ![t] = @ \ {k}]
  /\ UNCHANGED <<clock, oldest_live, evictions, next_cas, judged, stats,
                 locals, client, marked, ops>>

\* quick_cache clears shard by shard; with one key to a shard, in any order.
ClearShard(t) ==
  /\ pc[t] = "flush" /\ cmd[t].delay = 0
  /\ \E k \in unswept[t] :
       /\ items' = [items EXCEPT ![k] = None]
       /\ guard' = [guard EXCEPT ![k] = None]
       /\ unswept' = [unswept EXCEPT ![t] = @ \ {k}]
  /\ UNCHANGED <<clock, oldest_live, evictions, next_cas, judged, stats,
                 locals, client, marked, ops>>

\* Mutant: a flush starts the tokens afresh.
ClearDoneReset(t) ==
  /\ pc[t] = "flush" /\ cmd[t].delay = 0 /\ unswept[t] = {}
  /\ marked' = [marked EXCEPT ![t] = {}]
  /\ next_cas' = 1
  /\ Reply(t, "Ok", {})
  /\ UNCHANGED <<clock, oldest_live, items, guard, evictions, judged, unswept, ops>>

ClearDone(t) ==
  /\ pc[t] = "flush" /\ cmd[t].delay = 0 /\ unswept[t] = {}
  /\ marked' = [marked EXCEPT ![t] = {}]
  /\ Reply(t, "Ok", {})
  /\ UNCHANGED <<clock, oldest_live, shared, unswept, ops>>

Method(t) ==
  \/ Get(t) \/ GetAndTouch(t) \/ Set(t) \/ Add(t) \/ Replace(t) \/ Concat(t)
  \/ Cas(t) \/ Delete(t) \/ Arithmetic(t) \/ Touch(t)
  \/ FlushDelayed(t) \/ ClearShard(t) \/ ClearDone(t)

Step(t) == LoadOldest(t) \/ TakeToken(t) \/ Method(t)

\* Every call the bound allows has been made and answered.
Rest ==
  /\ ops = MaxOps
  /\ \A t \in Threads : pc[t] = "idle"
  /\ UNCHANGED vars

Next ==
  \/ Tick
  \/ \E t \in Threads : (\E c \in Commands : Begin(t, c)) \/ Step(t)
  \/ Rest

Spec == Init /\ [][Next]_vars

\* The methods are synchronous code on operating-system threads: a thread that
\* can take its next step eventually does.
FairSpec == Spec /\ \A t \in Threads : WF_vars(Step(t))

-----------------------------------------------------------------------------
(* Properties.                                                             *)

\* Every variable keeps its type, and a key has at most one resident item and
\* one placeholder (TypeOK, in parts).
CacheOK ==
  /\ next_cas \in Nat \ {0}
  /\ items \in [Keys -> Option(Item)]
  /\ guard \in [Keys -> Option(Threads)]
  /\ evictions \in Nat
  /\ judged \subseteq Keys \X Nat

CallsOK ==
  /\ pc \in [Threads -> {"idle", "oldest", "token", "entry", "vacant", "flush"}]
  /\ cmd \in [Threads -> Command \cup {Nop}]
  /\ todo \in [Threads -> Seq(Keys)]
  /\ now \in [Threads -> Nat]
  /\ oldest \in [Threads -> Option(Nat)]
  /\ cas \in [Threads -> Nat]
  /\ reply \in [Threads -> Replies \cup {"none"}]
  /\ values \in [Threads -> SUBSET [key: Keys, data: Data, cas: Nat]]

TypeOK ==
  /\ CacheOK /\ CallsOK
  /\ clock \in Nat /\ oldest_live \in Nat /\ ops \in Nat
  /\ stats \in [Counters -> Nat]
  /\ unswept \in [Threads -> SUBSET Keys]
  /\ marked \in [Threads -> SUBSET (Keys \X Nat)]

\* A call that is under way is one of Commands; on its way to a key it has one,
\* and where it may write an item it has the token for it.
CallsWellFormed ==
  \A t \in Threads :
    /\ pc[t] # "idle" => cmd[t] \in Commands
    /\ pc[t] \in {"oldest", "token", "entry", "vacant"} => todo[t] # <<>>
    /\ pc[t] \in {"entry", "vacant"} /\ cmd[t].op \in TokenOps => cas[t] # 0

\* Versions some thread or client may still name.
Observed(t) == {<<v.key, v.cas>> : v \in values[t]}
Versions == Resident \cup judged \cup UNION {Observed(t) \cup marked[t] : t \in Threads}

\* A token taken and not yet written; no pending token is 0.
Pending(t) == {cas[t]} \ {0}

\* A token handed out by next_cas names nothing until its thread writes it,
\* and then one version of one key, however long the thread was delayed
\* between the fetch_add (store.rs:245, 402, 454) and the callback.
TokensAreFresh ==
  /\ \A v \in Versions : v[2] \in 1 .. next_cas - 1
  /\ \A v, w \in Resident : v[2] = w[2] => v = w
  /\ \A t \in Threads : \A c \in Pending(t) :
       /\ c < next_cas
       /\ \A v \in Versions : v[2] # c
       /\ \A u \in Threads \ {t} : c \notin Pending(u)

\* What makes `cas` safe: if a key still carries the token a client was given
\* with a value, it still carries that value, whatever appends, increments
\* and touches were in flight.
ObservedTokenNamesOneValue ==
  \A t \in Threads : \A v \in values[t] : \A item \in items[v.key] :
    item.cas = v.cas => item.data = v.data

\* No ABA: once a key has left the version a client observed, by an overwrite,
\* a delete, an eviction or a flush, no step brings that token back.
ObservedVersionNeverReturns ==
  [][\A t \in Threads : \A v \in Observed(t) : v \notin Resident => v \notin Resident']_vars

\* An item that one call has found expired is never seen again, not even when
\* the clock is set back (clock.rs:54) or another thread still works with an
\* older snapshot of it: every judgement takes the item out of the cache.
ExpiredStaysDead == judged \cap Resident = {}

\* When an immediate flush_all answers, none of the versions that were resident
\* when it was asked is left, though the shards were cleared one by one among
\* other calls.
FlushLeavesNothing ==
  \A t \in Threads :
    pc[t] = "flush" /\ unswept[t] = {} => marked[t] \cap Resident = {}

\* A placeholder stands where no item is, and its owner is at work on that
\* very key: nobody waits in `entry` for a guard that is gone.
PlaceholderExclusive ==
  \A k \in Keys : \A t \in guard[k] :
    items[k] = None /\ pc[t] = "vacant" /\ Key(t) = k

\* An add that answers Stored put its item where its own snapshot saw none
\* alive: it never overwrites what another thread stored between its `entry`
\* and its guard's insert.
AddNeverOverwrites ==
  [][\A t \in Threads :
       cmd[t].op = "add" /\ reply'[t] = "Stored" /\ pc[t] # "idle"
         => \A item \in items[Key(t)] : Stale(t, item)]_vars

\* A guard whose placeholder another call has taken away is late: when its owner
\* drops it or inserts through it (store.rs:192, 270), neither the item nor the
\* placeholder that may stand in the key by then is touched.
LateGuardTouchesNothing ==
  [][\A t \in Threads :
       pc[t] = "vacant" /\ ~ HoldsGuard(t) /\ pc'[t] # "vacant"
         => UNCHANGED <<items, guard>>]_vars

\* No update is lost: the number an incr or a decr answers with is that of the
\* item it finds at that very step, moved by the delta, however many calls ran
\* since it took its token (store.rs:402).  incr goes round at the end of the
\* u64 (store.rs:424), decr stops at 0.
Moved(c, n, m) ==
  IF c.op = "incr" THEN m \in {n + c.delta, n + c.delta - Modulus}
                   ELSE m + c.delta = n \/ (m = 0 /\ n <= c.delta)
NumbersAddUp ==
  [][\A t \in Threads :
       cmd[t].op \in {"incr", "decr"} /\ reply'[t] = "Number" /\ pc[t] # "idle"
         => \E old \in items[Key(t)] : \A new \in items'[Key(t)] :
              \E n \in ParseU64(old.data) : \E m \in ParseU64(new.data) :
                Moved(cmd[t], n, m)]_vars

InFlight(names) == Cardinality({t \in Threads : cmd[t].op \in names})

\* The keys that retrievals under way have yet to look up.
KeysInFlight ==
  UNION {{t} \X DOMAIN todo[t] : t \in {u \in Threads : cmd[u].op \in Retrievals}}

\* The counters a `stats` reply shows agree with one another at any moment, up
\* to the keys and calls still in flight.
StatsBalance ==
  /\ stats["CMD_TOUCH"] = stats["TOUCH_HITS"] + stats["TOUCH_MISSES"] + InFlight({"touch"})
  /\ stats["CMD_SET"] >= stats["TOTAL_ITEMS"] + stats["CAS_MISSES"] + stats["CAS_BADVAL"]
                           + InFlight(StorageOps)
  /\ stats["CMD_GET"] = stats["GET_HITS"] + stats["GET_MISSES"] + Cardinality(KeysInFlight)

\* The store seen from outside: versions, tokens that no call will write any
\* more, and whether a call has met its placeholder.
View  == [k \in Keys |-> {[data |-> i.data, cas |-> i.cas] : i \in items[k]}]
Spent == (1 .. next_cas - 1) \ UNION {Pending(t) : t \in Threads}
Phase == [t \in Threads |-> CASE pc[t] = "idle"   -> "idle"
                              [] pc[t] = "vacant" -> "missed"
                              [] OTHER            -> "called"]
Atomic == INSTANCE AtomicCache WITH cache <- View, spent <- Spent, phase <- Phase

\* The store implements the atomic cache: whatever runs between the snapshot of a
\* call, its callback and its placeholder, the answers and the versions are
\* those of calls that take one atomic step for each key.
ActsAtomically == Atomic!Spec

\* Every call is answered: no thread waits for ever on a placeholder.
Progress == \A t \in Threads : pc[t] # "idle" ~> pc[t] = "idle"

\* What the tests say of add and of a delayed flush_all, for calls that run
\* concurrently or more than once; the code refutes both (see README).

\* add_new_key_stores_it_and_returns_stored (store.rs:772): an add is refused
\* only when the store has ever stored an item.
AddRefusedOnlyIfStored ==
  \A t \in Threads : reply[t] = "NotStored" => stats["TOTAL_ITEMS"] > 0

\* flush_all_delayed_item_becomes_invisible_... (store.rs:1146): an item that a
\* delayed flush has made invisible stays so as time goes on.
Flushed(item, time) ==
  \E cutoff \in OldestLive(oldest_live) : time >= cutoff /\ item.stored_at < cutoff
FlushedStaysHidden ==
  [][\A k \in Keys : \A item \in items[k] \cap items'[k] :
       Flushed(item, clock) => Flushed(item, clock)']_vars
=============================================================================
