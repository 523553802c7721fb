# Formal model of ousagi

ousagi is a cache server that speaks the memcached text protocol (`src/src`).
This directory holds TLA+ modules for its parts, the TLC runs that check them on
small instances, and proofs of theorems about them for every instance.

## The system

| part | state it keeps | operations | what makes it correct |
|---|---|---|---|
| Store (`store.rs`) | a quick_cache of items (data, flags, expiry, CAS token, time stored), the token counter `next_cas`, the flush cutoff `oldest_live` | get, gat, set, add, replace, append, prepend, cas, delete, incr, decr, touch, flush_all | calls act atomically; a token names one version of one key for ever; what was found expired stays dead; add never overwrites; a flush leaves nothing behind; calls never wait for ever |
| Clock (`clock.rs`) | one atomic word | a task copies the system time into it every second | expiry does not depend on the clock going forward only |
| Counters (`stats.rs`) | atomic counters | added to by the store and the server, read by `stats` | hits and misses add up to commands; connections are counted once |
| Connection and session (`connection.rs`, `session.rs`) | the read buffer, the BufWriter, where `read_command` is | read a line or a payload, discard, write, flush | requests are run whole and in order, one response each in the same order, no response held back |
| Parser (`parser.rs`) | none | a line to a command, or to an error and a number of bytes to discard | it accepts the protocol's lines and no others; the bytes to discard are those of the payload |
| Dispatch (`handler.rs`, `commands.rs`) | none | a command to a Store method | |
| Server (`server.rs`) | the accept loop, the semaphore of `max_connections`, the connection counters | accept, take a permit, spawn a session | first come first served, never more sessions than permits, counters that follow them |
| Shutdown (`shutdown.rs`) | none | ends `run` on a signal | the process ends, whatever the clients do |
| Start-up (`main.rs`, `cli.rs`, `runtime.rs`) | configuration | | |

Sessions are tokio tasks on `threads` worker threads (`runtime.rs`). A session
awaits its socket only; a Store method is synchronous and runs on the worker
thread to its end, blocking it while it waits for a lock or a placeholder of the
cache. Sessions share the Store, the clock and the counters, and a permit each of
the server's semaphore.

Where it is hard:

* A Store method reads the clock, then the flush cutoff, then takes a CAS token,
  and only then takes the lock of the key's shard and runs a callback on the
  item. Any other call, and the clock, may run between two of these accesses.
* `entry` on a missing key leaves a placeholder, whose guard the caller holds
  for a moment. Another `entry` on the key waits, with no time limit; a plain
  `insert`, `remove` or `clear` does not wait and takes the placeholder away.
* `clear` empties one shard after the other. An insertion may evict anything,
  what it inserts included.
* The system time may be set back.
* A session sees a stream of bytes cut at any place, may have to skip a payload
  it has only in part, and must flush before it waits.
* A line is read token by token, and an error after the length of a payload must
  still account for the payload.
* The accept loop holds a socket before it has a permit; an error of accept, a
  panic in a session and the shutdown signal may come at each await.

`PROJECT.json` lists each of these hazards at its line, with the properties
that would catch it going wrong, or the reason why none does.

## Modules

| module | what it is |
|---|---|
| `Items` | the values: items, expiry, the arithmetic of incr and decr |
| `Store` | the concurrent store, one action per method and per shared access |
| `AtomicCache` | abstract: each call deals with each of its keys in one atomic step |
| `Parser` | `parser.rs`, one operator per `parse_` function |
| `CommandLine` | lines that grow token by token, and the grammar they are compared with |
| `Connection` | one session and its client; EXTENDS `Parser` |
| `Frames` | abstract: the client's stream handled frame by frame, with no reads, buffer or flushes |
| `Server` | accept loop, semaphore, counters, the life of the sessions' tasks, shutdown |
| `Turnstile` | abstract: a line, first come first served, at most `Limit` inside |
| `MCStore`, `MCParser`, `MCConnection`, `MCServer` | small values for the constants |
| `StoreProofs`, `StoreSafety`, `StoreRefines`, `ParserLemmas`, `ParserProofs`, `ConnectionProofs`, `ConnectionOrder`, `ServerProofs` | theorems |

### Store

A Rust `Option` is a set of at most one element. Flags steer nothing and are part
of the payload. `Denotes` and `FormatU64` stand for `trim().parse::<u64>()` and
`to_string()`; the one assumption about them is that formatting is undone by
parsing. `Modulus` is 2^64 in the code. A thread runs one call at a time:

| pc | the thread is about to | code |
|---|---|---|
| `idle` | begin a call: dispatch, read the clock, count the command (`Begin`) | `handler.rs:12`, first lines of each method |
| `oldest` | read the flush cutoff (`LoadOldest`) | `store.rs:170, 204, 244, 374, 401, 453` |
| `token` | take a CAS token (`TakeToken`) | `store.rs:245, 402, 454` |
| `entry` | enter the cache for the key at the head of `todo` | `entry`, `insert`, `remove` |
| `vacant` | drop its placeholder, or insert through it | `EntryResult::Vacant` arms |
| `flush` | set the cutoff, or clear one shard, or answer | `store.rs:485` |

There is one action per method (`Get`, `GetAndTouch`, `Set`, `Add`, `Replace`,
`Concat`, `Cas`, `Delete`, `Arithmetic`, `Touch`, and `FlushDelayed`,
`ClearShard`, `ClearDone` for flush); its disjuncts are the arms of the match on
the result of `entry`. What quick_cache does is in `AtEntry`, `EntryVacant`,
`EntryRemoved`, `EntryLive`, `Retain`, `Admit`, `Rewrite`, `HoldsGuard` and
`DropGuard`, modelled from what `store.rs` relies on (and marked external in
the map). What follows a callback (adding to a counter, building the response)
is local or commutes with the other threads' steps and is folded into the
callback's step, except while a guard is held. `touch` counts its command after
taking the token; the model counts it at the beginning, like the others.

`reply` and `values` are what the thread's client was last told, and stay until
its next call. `judged` and `marked` are history: the versions a call found
expired, and those resident when a `clear` began. `ops` bounds the calls.

`AtomicCache` says what callers may rely on. `After` and `Answer` give the
sequential meaning of each command on one key; `Access` is the atomic step. It is
a cache, so an item may be lost at any moment, and never comes back. Two
weaknesses of the code are part of it, because callers must live with them: a
call that missed its key may say so when the key has an item again (`AnswerMiss`),
and an `add` may be refused although no item was ever met (`Missed`).
`Store!ActsAtomically` states the refinement: `View` forgets times and flags,
`Spent` are the tokens that no call will write any more, and a call at its
placeholder has missed.

### Parser and CommandLine

A line is the sequence of its tokens; a token is a word of which the parser asks
three things: which keyword it is, whether it may be a key (`KeyLen`,
`HasControl`), and which number it is decimal for (`Reads`, the atoi crate). One
operator per `parse_` function gives a header: the command, the length of a
payload that follows, or an error with the number of bytes to discard, which is
a `usize` sum that wraps (`PayloadAndTerminator`).

`CommandLine` holds the reference: `Shapes` gives for each command the kinds of
token that may follow it, and `Says` what the command must then have of each.
It is written from what a line of each command may look like, not from the order
in which the parser looks at it.

### Connection

The stream is a sequence of units: a word stands for the text of a line (its
tokens are `Text[word]`, which `Parser` parses) or for a byte of a payload; CR and
LF are bytes.

| pc | read_command is | code |
|---|---|---|
| `line` | reading a line, or running what it asks for | `read_line`, `read_command` |
| `payload` | reading a payload, then the two bytes after it | `read_payload` |
| `discard` | skipping a refused payload | `discard_exact` |
| `skipline` | skipping the rest of a line that is too long | `discard_until_newline` |
| `closed` | over | `session::process` returns |

`waiting` says that the session has flushed and awaits input. A read returns any
non-empty part of what has arrived. The client sends requests while no more than
`Window` answers are outstanding, is never obliged to send, and may stop within a
request: fall silent with its end open, or close it. A request carries the command
it should run, with its payload, and the answers it may get: that is the reference
the session is compared with. `Asks` says what a request is by itself, without a
session: a line, what its header announces to the last unit, and then what is run
and answered. `RequestsAssumption` requires it of all that a client may send; a
request may be refused, or have a wrong terminator, but its length is as announced.
A request whose line is longer than `MaxLine` is one that is an error anyway and
takes no payload: whether such a line is refused for its length or parsed depends
on how it arrives (`connection.rs:64`), so of a command on it nothing certain can be
said. `CutOff` is what is left of a request within which the client stops: nothing
is run; if the client is gone, an answer may still be written for it.

`Frames` has no request: it says what the session makes of any stream, as if all
of it were at hand. A line is taken with its LF, a payload whole with its
terminator or not at all, and a response is out as soon as it is written. In the
refinement (`HandlesFrames`) the abstract stream is what the session has read of a
payload, what is in the buffer and what is on the socket, one after the other; a
read, a flush and the first part of a payload are then stutters. `Frames` keeps one
freedom of the code: whether a line longer than `MaxLine` is refused for it
depends on how it arrives. `Handle` is what the session does, `Arrive` the client.

`Connection` and `Store` meet at `Execute`: a command
the session executes is a `Begin` of `Store`.

### Server

| loop | accept_loop is about to | code |
|---|---|---|
| `accept` | take a connection from the listener, or fail to | `server.rs:35` |
| `pause` | end the pause after an error | `server.rs:39` |
| `permit` | take a permit for the socket in `held` | `server.rs:44` |
| `total`, `curr` | count the connection, and spawn its task | `server.rs:53` |
| `dropped` | be no more: the signal won the select | `server.rs:25` |

A task is `idle` (awaits its client), `busy` (between two awaits; nothing else
can end it there but a panic), `returned` from `process`, or `counted` off with
the permit still in hand. `Panic` is a build that unwinds, where the permit is
dropped and `CURR_CONNECTIONS` is not counted down; `Abort` is the release build,
whose profile aborts. After `Shutdown` the runtime is dropped: `DropTask` drops
each task at its await, and `Exit` ends the process when none is left.
`Spawn` is two steps of the code, the count and the spawn: nothing but a `stats`
report could see the counter between them, and the loop has no await there. `Serve`
ends with `Running`: a task that a worker still polls before its runtime is dropped
would only be `busy` once more, which `DropTask` waits for anyway.

`Turnstile` is what `max_connections` promises. In the refinement the socket that
the accept loop holds without a permit is still the head of the line, and a
connection is inside from its permit on.

Definitions that begin with the comment `Mutant:` are wrong versions of the
definition after them; no specification uses them. Each property is shown to fail
with one of them in place, so that it does say something.

## Runs

| run | asks | bounds |
|---|---|---|
| `store_tokens` | does a token, taken early and written late, ever name two versions (`TokensAreFresh`), change its value (`ObservedTokenNamesOneValue`) or come back (`ObservedVersionNeverReturns`)? Is an incr or decr lost among other calls, or does it go wrong at the end of the u64 (`NumbersAddUp`, `TypeOK`)? | 3 threads, 1 key, 4 calls of 13 kinds, 1 eviction |
| `store_expiry` | does an item found expired stay dead (`ExpiredStaysDead`), do the counters add up, in the middle of a retrieval of several keys too (`StatsBalance`), are calls atomic while times expire (`ActsAtomically`)? | 2 threads, 1 key, 3 calls of 12 kinds, clock 1..3 in any order |
| `store_add` | what meets at a placeholder: `PlaceholderExclusive`, `AddNeverOverwrites`, a guard that comes too late (`LateGuardTouchesNothing`), `Progress`, `ActsAtomically` | 3 threads, 1 key, 3 calls of 6 kinds, 1 eviction |
| `store_flush` | does a clear, shard by shard, leave anything that was there (`FlushLeavesNothing`)? Tokens of two keys (`TokensAreFresh`), retrievals of two keys (`ActsAtomically`) | 2 threads, 2 keys, 4 calls of 7 kinds, 1 eviction |
| `parser` | is every line of the grammar accepted, with the right fields, and no other (`ParsesTheGrammar`)? Does a refused line discard its payload (`PayloadAccountedFor`)? | 16 commands, 7 kinds of token in each place, up to one token more than a command takes |
| `conn_framing` | `ExecutedInOrder`, `AnsweredInOrder`, `Answered`, `TypeOK`, `HandlesFrames` | 3 requests of 12 kinds, lines up to 4 units, a writer of 2 responses |
| `conn_vanish` | `ExecutedInOrder`, `AnsweredInOrder`, `Answered`, `SessionEnds`, `HandlesFrames` when the client falls silent or leaves anywhere | 2 requests of 6 kinds and a part of a third |
| `server` | permits (`PermitsConserved`), counters (`CountersFollow`), everyone served (`EveryoneGetsIn`), in order (`IsTurnstile`), and the end (`SignalEndsProcess`) | 3 clients, 2 permits, 5 connections, 1 accept error, 1 panic, 2 requests |

The bounds are enough for the hazards: a token race needs a call delayed between
its token and its callback, one that overtakes it, one that observes and one that
removes, hence four calls; a placeholder race needs its owner, the call that
takes it away and one more owner, hence three threads; the two-bit u64 wraps and
saturates; three clock values put an expiry before, at and after a snapshot, and
`ThirtyDays` is 2 so that exptime 3 is absolute. A line of the parser depends on
each token by itself and on how many there are, so every kind of token in every
place, and one token too many, are all the cases; numbers are in or out of
each type, and the length next to the largest `usize` is among them. Three
responses overflow a writer of two. Three clients at two permits make one wait, and
five connections let a client return. Symmetry of threads is used in the store's
runs without liveness.

Deadlock is checked in every run: `Rest` is the only way to stay put, and only
where the bound on calls, requests or connections is used up, or the session or the
process is over.

Four runs end in a violation of something the repository says:

* `conn_quit`: `ResponsesWrittenBack`. `quit` ends the session without a flush
  (`connection.rs:146`), and the responses of the commands pipelined before it in
  the same read are dropped with the BufWriter, against `commands.rs:85`.
* `add_refused`: `AddRefusedOnlyIfStored`. An `add` beside a `delete` of the same
  missing key answers NOT_STORED (`store.rs:272`): no order of the two calls
  explains the answers. The test `store.rs:772` says that a new key is stored.
* `flush_replaced`: `FlushedStaysHidden`. A second delayed `flush_all` replaces
  the cutoff (`store.rs:150`), and items that the first had hidden are visible
  again. The test `store.rs:1146` says that they become invisible.
* `parser_overflow`: `TooLargeDiscardsAll`. The discard of a refused payload is its
  length plus two in a `usize` (`parser.rs:261`), which wraps for a length next to
  the largest one; a build with overflow checks panics instead. The test
  `parser.rs:657` says that the discard is the length plus two.

## Fairness

`Store!FairSpec` has weak fairness of each thread's steps: a Store method is
synchronous code on an operating-system thread that is scheduled. A thread that
waits at a placeholder is not able to take its step, so fairness alone does not
let it pass; `Progress` needs every guard to be dropped. Over unbounded calls,
others could take the placeholder again and again; quick_cache hands it to the
waiters in order, and the model leaves that out: with the bound on calls, weak
fairness is enough. No fairness is assumed of the clock or of new calls.

`Connection!FairSpec` has weak fairness of the session, a task that the runtime
polls when its socket is ready, and none of the client. `Answered` has an
exception, `StuckInLine`: `discard_until_newline` reads without a flush
(`connection.rs:250`), so a client that stops within a line that is too long does
not get the responses that wait in the writer.

`Server!FairSpec` has weak fairness of the accept loop, of each session's task and
of the end of the process: tasks of the runtime, and the drop of the runtime. An
error of accept, a panic, a client and the signal are under no obligation. That
everyone gets in (`EveryoneGetsIn`) needs two things of the environment, and says
so: a place at all, since `-c 0` is accepted and lets nobody in, and that no client
keeps an idle session for ever, since the server has no idle timeout.

## Proofs

All theorems hold for any value of the constants under the named assumptions of the
modules, which TLC evaluates on the runs' instances.

| theorem | what it states for every instance |
|---|---|
| `StoreProofs!TypeCorrect` | `TypeOK` of `Store`, and `CallsWellFormed` |
| `StoreProofs!CountersAgree` | `StatsBalance` |
| `StoreSafety!TokensFresh`, `TokenNamesValue`, `NoABA`, `ExpiredGone`, `FlushComplete`, `Placeholders`, `AddRespectsStored`, `LateGuards`, `NoUpdateLost` | `TokensAreFresh`, `ObservedTokenNamesOneValue`, `ObservedVersionNeverReturns`, `ExpiredStaysDead`, `FlushLeavesNothing`, `PlaceholderExclusive`, `AddNeverOverwrites`, `LateGuardTouchesNothing`, `NumbersAddUp` |
| `StoreRefines!StoreIsAtomic` | `ActsAtomically`: `Store` implements `AtomicCache` |
| `ParserProofs!GrammarIsParsed` | `ParsesTheGrammar` |
| `ParserProofs!PayloadIsAccountedFor` | `PayloadAccountedFor` |
| `ConnectionProofs!SessionHandlesFrames` | `HandlesFrames`: `Connection` implements `Frames` |
| `ConnectionOrder!RunsInOrder`, `AnswersInOrder`, `SessionTypes` | `ExecutedInOrder`, `AnsweredInOrder`, `TypeOK` of `Connection` |
| `ServerProofs!ServerType`, `PermitsAreConserved`, `CountersAlwaysFollow` | `TypeOK` of `Server`, `PermitsConserved`, `CountersFollow` |
| `ServerProofs!ServerIsTurnstile` | `IsTurnstile`: `Server` implements `Turnstile` |

**Types of the store.** `TypeOK` alone is not inductive: the head of `todo` is a
key only if `todo` is not empty, and the fields of `cmd` have types only if it is
one of `Commands`, which is what `CallsWellFormed` adds. The proof types the values
(`ResolveExpiryType`, `ArithmeticType`, ...), then the steps the methods are built
from (`NextKeyType`, `AdmitType`, ...), then each method, one step per arm.

**Counters.** `StatsBalance` compares counters with what is in flight: the threads
at work on a call of some kind (`InFlight`), and the pairs of a thread and a place
in its `todo` (`KeysInFlight`), both as cardinalities. `Tallied` adds to it that
those sets are finite (`ThreadsAssumption`: the runtime has a number of worker
threads; the keys of a command are a sequence) and that a call is where its command
may be (`CallsInPlace`), since a thread that is not in a call must not count. A
beginning adds to a counter and to the set; each step of a method takes one place
out and adds one hit or one miss; everything else leaves both sides alone.

**Safety of the store.** The nine properties share one inductive invariant,
`Safe`. The five state properties are not inductive one by one. That a written
token is new rests on `TokensAreFresh`, and every property about versions uses it.
That a new item meets no placeholder rests on `PlaceholderExclusive`. Two parts are
added. `MarkedUnswept` speaks of a clear that is half done, where
`FlushLeavesNothing` speaks only of the end. `NotYetAnswered` says a call under way
has no reply yet, so an `add` with the reply `Stored` got it in this very step.
The proof has two halves. `Effect(t, k, new)` says what a step of a method does to
the cache, whichever method it is: one key at most gains an item, under the thread's
pending token or a new one; versions judged expired leave the cache in the same
step; a client is told only what is in the cache; placeholders go, or one is taken
on an empty key. `EffectSafe` derives `Safe'` from that and never looks at a method.
`MethodEffect` shows that every method of a call has such an effect. The other steps
(clock, beginnings, snapshots, flushes) are `Quiet`: they add nothing.
The four action properties follow from `Safe`: a step that answers an `add`, drops a
guard or answers a number is a step of that method. For `NumbersAddUp`, the
remainder of a sum of two numbers of the u64 is the sum or the sum less the modulus
(`RemainderIs`, `WrapsOnce`), whatever the modulus.

**Refinement of the store.** `Refinable` adds to `Safe` what a call's label tells
(`CallPhases`). A call that finds its key vacant takes the step `Miss`; dropping
the placeholder answers it; every other step of a method is its `Access`, for the
old item or for none if the method judged it expired; a snapshot is a stutter, and
the clearing of a shard a loss. A token is spent when it leaves the pending ones,
which `TokensAreFresh` allows at most once.

**The parser.** A token reads as one number of a type at most
(`ReadsAssumption`), so what the parser reads is what the grammar means
(`FieldReads`, `LengthIs`). Every command but get, gat, version, stats, quit takes
its fields and then noreply or nothing: `EndingMatches` shows, once, that such a
shape matches just when the fields are there and nothing else is left
(`Fits`), and `EitherGrammar` that the command must then have them (`Takes`). There
is one lemma per command. `flush_all` needs `NoreplyAssumption`: the word noreply
is not a number, otherwise its line would have two readings.

**The session.** `Inv` says what the mapping rests on: while a payload or a discard
is short of units, none of them is in the buffer (`Phases`), so that a read which
goes past the buffer takes the next units of the stream; what is read of a payload
and what is still to come add up to its length; the payload and the header are
clean again before the next line. The lemmas on sequences (`CutFirst`, `CutSecond`,
`Rejoined`) say where a cut of one part falls in the whole, and `LineOfStream` that
the first line of the buffer is the first line of the stream; there is then one
lemma per action, for the invariant and the abstract step together. Reads and
flushes are stutters, but for those of a discard. None of
this looks at what the client sends, beyond its being units.

**Requests in order.** `ConnectionOrder` then compares the session with the
requests. All that was sent is laid out in one line: request `i` comes after the
first `start[i]` units, and the stream that `Frames` sees is what follows the first
`taken` of them (`Placed`, `Shows`). `Aligned`, the inductive invariant, says whose
turn it is, request `i`, and how far the session is in it (`Within`): at its first
unit in a line; after its line, with the header of that line pending, in a payload;
short of its end by `need` units in a discard; within its only line when that is
skipped. It also says what has been done (`Counted`): what is run and what is written
is as long as the number of requests before `i` that have something to run or an
answer (`Rank`), and in their order. The properties speak of `executed` and of
`delivered \o out` only, and neither is inductive without the place in the stream.
The proof looks at steps of `Frames`, not of the session: a session's step is one
of them or shows nothing (`SessionSteps`), so no buffer, read or flush comes up again.
The first LF of the stream is that of the request whose turn it is (`FirstLine`),
since each request begins with its line and no earlier unit is left; a piece of the
stream is a piece of the request (`Piece`); a request whose last unit has arrived is
whole (`Entire`), so one that is cut off is never run. A step that ends a request
adds its one run and its one answer, or none (`OneMore`, `NoMore`), and `taken` is
then `start[i + 1]` (`Begins`). The client's steps only add at the end
(`StillPlaced`, `StillShows`, `StillCounted`).
`TypeOK` needs the order: a response is a text because it is an answer to some
request. Its bounds are two more invariants (`BodyBound`, `WriterBound`).
The theorems are about clients that frame their requests (`RequestsAssumption`); of
all others, `SessionHandlesFrames` still says what the session does.

**The server.** `Inv` adds to the properties that those who wait are different
clients without a session (`Apart`), and what the counters say after the signal
(`CurrKept`). A step leaves the permits and their holders alone, lets one connection
in, or lets one go (`Same`, `Lets`, `Frees`), and the same of `CURR_CONNECTIONS`;
conservation and the refinement follow from these three and not from the actions.
That a connection enters a `Turnstile` that is not full rests on `PermitsConserved`.

A token in the model is a natural number: the theorems say nothing of a `next_cas`
that has wrapped after 2^64 tokens. `DropGuard`, `Admit`, `ClearShard`, the backlog
and the semaphore are external code as ousagi uses it, and the theorems hold
relative to them.

Only model-checked: liveness (`Progress`, `Answered`, `SessionEnds`,
`EveryoneGetsIn`, `SignalEndsProcess`), which is out of the prover's reach. Every
invariant and every refinement that a passing run checks is also a theorem.

## Not modelled

* Several sessions over one store. What a session does with the store is one call
  after another, which is a thread of `Store`; their product would add no
  interleaving that the two modules do not have.
* The weights of entries and which of them quick_cache evicts (any may go); its
  order among callers that wait at one placeholder.
* The wrap of `next_cas` after 2^64 tokens, which no run of the program reaches.
* `cas` without a token, which the parser never produces; the counters no code
  changes.
* The digits of a number (the atoi crate), and the bytes of a token.
* A client that never reads, so that the session waits in a write: the session then
  holds its permit as an idle one does, which `Server` has.
* The inside of tokio (listener, semaphore, runtime) and of contatori's sharded
  counters.
* Configuration and start-up (`main.rs`, `cli.rs`, `runtime.rs`): no state that
  changes. Logging. Benchmarks.
