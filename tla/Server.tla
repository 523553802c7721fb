------------------------------- MODULE Server -------------------------------
(***************************************************************************)
(* server.rs: the accept loop, the semaphore of max_connections, the       *)
(* connection counters, the life of a session's task, and the end of run   *)
(* on a shutdown signal.                                                   *)
(*                                                                         *)
(* A client has at most one connection at a time, which is named for it.   *)
(* The listener's backlog is a queue of the operating system; the          *)
(* semaphore is tokio's: external, modelled from their use.  What a        *)
(* session does between two reads (parse, call the store) is one busy      *)
(* spell, which no other task can cut short.                               *)
(***************************************************************************)
EXTENDS Integers, Sequences, FiniteSets, SequencesExt

CONSTANTS
  Clients,
  Limit,      \* max_connections (-c)
  MaxJoins,   \* bound on the connections of a behaviour
  MaxErrors,  \* bound on the errors of accept
  MaxPanics,  \* bound on the panics in a session
  MaxServed   \* bound on the requests

ASSUME ServerAssumption ==
  /\ IsFiniteSet(Clients)
  /\ Limit \in Nat /\ MaxJoins \in Nat /\ MaxErrors \in Nat
  /\ MaxPanics \in Nat /\ MaxServed \in Nat

VARIABLES
  backlog,    \* connections the listener has not handed out
  loop,       \* where accept_loop is
  held,       \* the socket that accept_loop has in hand: one or none
  permits,    \* permits the semaphore has to give
  session,    \* for each client, where the task of its connection is
  gone,       \* the clients that have closed their end
  total,      \* stats::TOTAL_CONNECTIONS
  curr,       \* stats::CURR_CONNECTIONS
  process,    \* the process: up, leaving run, or down
  joins, errors, panics, served  \* the model's own, for the bounds

accepting == <<backlog, loop, held>>
counters  == <<total, curr>>
bounds    == <<joins, errors, panics, served>>
vars == <<accepting, permits, session, gone, counters, process, bounds>>

Init ==
  /\ backlog = <<>> /\ loop = "accept" /\ held = <<>>
  /\ permits = Limit
  /\ session = [c \in Clients |-> "none"]
  /\ gone = {}
  /\ total = 0 /\ curr = 0
  /\ process = "up"
  /\ joins = 0 /\ errors = 0 /\ panics = 0 /\ served = 0

\* A session's task waits for its client, works for it, has returned from
\* process, and is then counted off with the permit still in hand.
Counted == {c \in Clients : session[c] \in {"idle", "busy", "returned"}}
Tasks   == {c \in Clients : session[c] # "none"}

\* The connections that have a permit, the one about to be spawned included.
Holders == Tasks \cup (IF loop \in {"total", "curr"} THEN Range(held) ELSE {})

\* Those without, in the order they came.
Line == IF loop = "permit" THEN held \o backlog ELSE backlog

-----------------------------------------------------------------------------
(* Clients.                                                                 *)

Connect(c) ==
  /\ process = "up" /\ joins < MaxJoins
  /\ session[c] = "none" /\ c \notin Range(held \o backlog)
  /\ backlog' = Append(backlog, c)
  /\ gone' = gone \ {c}
  /\ joins' = joins + 1
  /\ UNCHANGED <<loop, held, permits, session, counters, process, errors, panics, served>>

\* A client closes its end, in the backlog already or when it is served.
Hangup(c) ==
  /\ c \notin gone
  /\ c \in Tasks \cup Range(held \o backlog)
  /\ gone' = gone \cup {c}
  /\ UNCHANGED <<accepting, permits, session, counters, process, bounds>>

-----------------------------------------------------------------------------
(* accept_loop.  It awaits accept, the pause after an error, and a permit;  *)
(* what follows the permit runs to the next accept without a wait.          *)

Running == process = "up"

Accept ==
  /\ Running /\ loop = "accept" /\ backlog # <<>>
  /\ held' = <<Head(backlog)>> /\ backlog' = Tail(backlog)
  /\ loop' = "permit"
  /\ UNCHANGED <<permits, session, gone, counters, process, bounds>>

AcceptFails ==
  /\ Running /\ loop = "accept" /\ errors < MaxErrors
  /\ errors' = errors + 1
  /\ loop' = "pause"
  /\ UNCHANGED <<backlog, held, permits, session, gone, counters, process, joins, panics,
                 served>>

Retry ==
  /\ Running /\ loop = "pause"
  /\ loop' = "accept"
  /\ UNCHANGED <<backlog, held, permits, session, gone, counters, process, bounds>>

\* Mutant: the permit is looked at and not taken.
AcquireNothing ==
  /\ Running /\ loop = "permit" /\ permits > 0
  /\ loop' = "total"
  /\ UNCHANGED <<backlog, held, permits, session, gone, counters, process, bounds>>

Acquire ==
  /\ Running /\ loop = "permit" /\ permits > 0
  /\ permits' = permits - 1
  /\ loop' = "total"
  /\ UNCHANGED <<backlog, held, session, gone, counters, process, bounds>>

CountTotal ==
  /\ Running /\ loop = "total"
  /\ total' = total + 1
  /\ loop' = "curr"
  /\ UNCHANGED <<backlog, held, permits, session, gone, curr, process, bounds>>

\* CURR_CONNECTIONS.add(1) and tokio::spawn.
Spawn ==
  /\ Running /\ loop = "curr"
  /\ curr' = curr + 1
  /\ session' = [c \in Clients |-> IF c \in Range(held) THEN "idle" ELSE session[c]]
  /\ held' = <<>> /\ loop' = "accept"
  /\ UNCHANGED <<backlog, permits, gone, total, process, bounds>>

-----------------------------------------------------------------------------
(* The task of a session.                                                   *)

Alive == process # "down"

\* A request arrives and the task works on it; tasks are no longer woken once
\* the runtime is on its way down.
Serve(c) ==
  /\ Running /\ session[c] = "idle" /\ c \notin gone /\ served < MaxServed
  /\ session' = [session EXCEPT ![c] = "busy"]
  /\ served' = served + 1
  /\ UNCHANGED <<accepting, permits, gone, counters, process, joins, errors, panics>>

Served(c) ==
  /\ Alive /\ session[c] = "busy"
  /\ session' = [session EXCEPT ![c] = "idle"]
  /\ UNCHANGED <<accepting, permits, gone, counters, process, bounds>>

\* process returns: quit, the end of the input, or an error of the socket.
Return(c) ==
  /\ \/ Running /\ session[c] = "idle" /\ c \in gone
     \/ Alive /\ session[c] = "busy"
  /\ session' = [session EXCEPT ![c] = "returned"]
  /\ UNCHANGED <<accepting, permits, gone, counters, process, bounds>>

\* Mutant: only a session that ends without an error is counted off.
CountOffUnlessGone(c) ==
  /\ Alive /\ session[c] = "returned"
  /\ curr' = IF c \in gone THEN curr ELSE curr - 1
  /\ session' = [session EXCEPT ![c] = "counted"]
  /\ UNCHANGED <<accepting, permits, gone, total, process, bounds>>

CountOff(c) ==
  /\ Alive /\ session[c] = "returned"
  /\ curr' = curr - 1
  /\ session' = [session EXCEPT ![c] = "counted"]
  /\ UNCHANGED <<accepting, permits, gone, total, process, bounds>>

\* Mutant: the permit is forgotten.
ReleaseNothing(c) ==
  /\ Alive /\ session[c] = "counted"
  /\ session' = [session EXCEPT ![c] = "none"]
  /\ UNCHANGED <<accepting, permits, gone, counters, process, bounds>>

ReleaseTwice(c) == \* Mutant: the permit is given back, and then dropped.
  /\ Alive /\ session[c] = "counted"
  /\ permits' = permits + 2
  /\ session' = [session EXCEPT ![c] = "none"]
  /\ UNCHANGED <<accepting, gone, counters, process, bounds>>

\* The end of the task's block drops _permit.
Release(c) ==
  /\ Alive /\ session[c] = "counted"
  /\ permits' = permits + 1
  /\ session' = [session EXCEPT ![c] = "none"]
  /\ UNCHANGED <<accepting, gone, counters, process, bounds>>

PanicForgets(c) == \* Mutant: the permit is given back at the end of the task only.
  /\ Alive /\ session[c] = "busy" /\ panics < MaxPanics
  /\ panics' = panics + 1
  /\ session' = [session EXCEPT ![c] = "none"]
  /\ UNCHANGED <<accepting, permits, gone, counters, process, joins, errors, served>>

\* A panic in a build that unwinds: the permit is dropped on the way, and
\* CURR_CONNECTIONS.sub(1) is never reached.
Panic(c) ==
  /\ Alive /\ session[c] = "busy" /\ panics < MaxPanics
  /\ panics' = panics + 1
  /\ permits' = permits + 1
  /\ session' = [session EXCEPT ![c] = "none"]
  /\ UNCHANGED <<accepting, gone, counters, process, joins, errors, served>>

\* A panic in a release build, which aborts (Cargo.toml, panic = "abort").
Abort ==
  /\ Alive /\ panics < MaxPanics /\ \E c \in Clients : session[c] = "busy"
  /\ process' = "down"
  /\ UNCHANGED <<accepting, permits, session, gone, counters, bounds>>

-----------------------------------------------------------------------------
(* The end of run.                                                          *)

\* shutdown_signal wins the select: accept_loop is dropped where it waits, with
\* the listener and the socket and what else it holds, and main drops the runtime.
Shutdown ==
  /\ Running /\ loop \in {"accept", "pause", "permit"}
  /\ process' = "leaving"
  /\ loop' = "dropped" /\ held' = <<>> /\ backlog' = <<>>
  /\ UNCHANGED <<permits, session, gone, counters, bounds>>

DropTaskWithBusy(c) == \* Mutant: the runtime waits for the sessions to return.
  /\ process = "leaving" /\ session[c] = "idle" /\ c \in gone
  /\ session' = [session EXCEPT ![c] = "none"]
  /\ permits' = permits + 1
  /\ UNCHANGED <<accepting, gone, counters, process, bounds>>

\* The runtime drops a task that awaits its client, and the permit with it; a
\* task at work first comes to its next await.
DropTask(c) ==
  /\ process = "leaving" /\ session[c] = "idle"
  /\ session' = [session EXCEPT ![c] = "none"]
  /\ permits' = permits + 1
  /\ UNCHANGED <<accepting, gone, counters, process, bounds>>

Exit ==
  /\ process = "leaving" /\ \A c \in Clients : session[c] = "none"
  /\ process' = "down"
  /\ UNCHANGED <<accepting, permits, session, gone, counters, bounds>>

AcceptLoop == Accept \/ Retry \/ Acquire \/ CountTotal \/ Spawn
Task(c)    == Served(c) \/ Return(c) \/ CountOff(c) \/ Release(c) \/ DropTask(c)

\* The process is down, or nobody comes any more.
Rest ==
  /\ process = "down" \/ joins = MaxJoins
  /\ UNCHANGED vars

Next ==
  \/ \E c \in Clients : Connect(c) \/ Hangup(c) \/ Serve(c) \/ Panic(c) \/ Task(c)
  \/ AcceptLoop \/ AcceptFails \/ Abort \/ Shutdown \/ Exit \/ Rest

Spec == Init /\ [][Next]_vars

\* The runtime polls what is ready.  Clients are under no obligation, and
\* nobody has to send the signal.
FairSpec ==
  /\ Spec
  /\ WF_vars(AcceptLoop) /\ WF_vars(Exit)
  /\ \A c \in Clients : WF_vars(Task(c))

-----------------------------------------------------------------------------
(* Properties.                                                              *)

TypeOK ==
  /\ backlog \in Seq(Clients)
  /\ loop \in {"accept", "pause", "permit", "total", "curr", "dropped"}
  /\ held \in Seq(Clients)
  /\ Len(held) = IF loop \in {"permit", "total", "curr"} THEN 1 ELSE 0
  /\ permits \in 0 .. Limit
  /\ session \in [Clients -> {"none", "idle", "busy", "returned", "counted"}]
  /\ gone \subseteq Clients
  /\ total \in Nat /\ curr \in Nat
  /\ process \in {"up", "leaving", "down"}
  /\ joins \in Nat /\ errors \in Nat /\ panics \in Nat /\ served \in Nat

\* Permits are neither lost nor made: not by a session that fails or panics, by
\* an accept loop dropped between a socket and its permit, or by a shutdown.
\* So there are never more than max_connections sessions (cli.rs, "Max
\* simultaneous client connections"), and never fewer places for them.
PermitsConserved == permits + Cardinality(Holders) = Limit

\* The counters that `stats` shows follow the connections: each one that was
\* let in is counted once in TOTAL_CONNECTIONS, and CURR_CONNECTIONS is the
\* number of sessions that have not ended, plus those that panicked.
CountersFollow ==
  Running =>
    /\ total = joins - Len(backlog) - IF loop \in {"permit", "total"} THEN 1 ELSE 0
    /\ curr = Cardinality(Counted) + panics

\* Whoever connects is served in the end, if no client keeps its session
\* waiting for ever and there is a place at all: an error of accept, a panic or
\* a client that is gone before it is served does not stop the line.
EveryoneGetsIn ==
  (Limit > 0 /\ \A c \in Clients : []<>(session[c] # "idle" \/ c \in gone))
    => \A c \in Clients : c \in Range(backlog) ~> (session[c] # "none" \/ ~ Running)

\* After the signal the process ends, although clients stay connected.
SignalEndsProcess == process = "leaving" ~> process = "down"

\* The accept loop and the semaphore make a turnstile: in the order of arrival,
\* and at most max_connections at a time.
Gate == INSTANCE Turnstile
          WITH line <- IF Running THEN Line ELSE <<>>, inside <- Holders, closed <- ~ Running
IsTurnstile == Gate!Spec
=============================================================================
