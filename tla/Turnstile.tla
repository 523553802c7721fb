----------------------------- MODULE Turnstile -----------------------------
(***************************************************************************)
(* What max_connections promises: those who come stand in one line and are *)
(* let in in that order, never more than Limit at a time, until the place  *)
(* closes.                                                                 *)
(***************************************************************************)
EXTENDS Naturals, Sequences, FiniteSets

CONSTANTS Clients, Limit

VARIABLES line, inside, closed

vars == <<line, inside, closed>>

Init == line = <<>> /\ inside = {} /\ closed = FALSE

Join(c) ==
  /\ ~ closed
  /\ c \notin inside /\ \A i \in DOMAIN line : line[i] # c
  /\ line' = Append(line, c)
  /\ UNCHANGED <<inside, closed>>

Enter ==
  /\ line # <<>> /\ Cardinality(inside) < Limit
  /\ inside' = inside \cup {Head(line)}
  /\ line' = Tail(line)
  /\ UNCHANGED closed

Leave(c) ==
  /\ c \in inside
  /\ inside' = inside \ {c}
  /\ UNCHANGED <<line, closed>>

\* Nobody is let in any more; those who are inside may be put out.
Close ==
  /\ closed' = TRUE /\ line' = <<>>
  /\ inside' \subseteq inside

Next == (\E c \in Clients : Join(c) \/ Leave(c)) \/ Enter \/ Close

Spec == Init /\ [][Next]_vars
=============================================================================
