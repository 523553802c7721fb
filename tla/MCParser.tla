------------------------------ MODULE MCParser ------------------------------
(***************************************************************************)
(* A small instance of CommandLine: tokens that are good or bad for each   *)
(* purpose, and integer types of a few values.                             *)
(***************************************************************************)
EXTENDS CommandLine

\* set stands for add, replace, append and prepend, which are parsed alike.
MCHeads ==
  {"get", "gets", "gat", "gats", "set", "cas", "delete", "incr", "decr", "touch",
   "flush_all", "verbosity", "version", "stats", "quit", "frob"}

\* A number of every type; a negative one; one beyond U32 and the item size;
\* the largest usize; a control character; a key that is too long; and a token
\* that is as long as a key may be.
MCArguments == {"1", "-1", "8", "11", "\t", "toolongkey", "noreply"}

MCWord == MCHeads \cup MCArguments

MCKeyLen(w) == CASE w = "toolongkey" -> 8 [] w = "noreply" -> 7 [] OTHER -> 1
MCHasControl(w) == w = "\t"
MCReads(w, n) ==
  <<w, n>> \in {<<"1", 1>>, <<"-1", -1>>, <<"8", 8>>, <<"11", 11>>}

MCU32 == 0 .. 7
MCI64 == -2 .. 7
MCU64 == 0 .. 9

\* One token more than the command takes, or as many as are worth reading.
MCMaxArgs(w) ==
  CASE w \in {"set", "cas"}          -> 6
    [] w \in {"gat", "gats", "incr", "decr", "touch"} -> 4
    [] w \in {"get", "gets", "delete", "flush_all", "verbosity"} -> 3
    [] OTHER                         -> 1
=============================================================================
