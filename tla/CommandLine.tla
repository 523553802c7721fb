---------------------------- MODULE CommandLine ----------------------------
(***************************************************************************)
(* What the parser makes of every command line: a line grows by one token  *)
(* at a time, and each line is parsed.  The reference is a grammar: for    *)
(* each command, the kinds of token that may follow it.                    *)
(***************************************************************************)
EXTENDS Parser

CONSTANTS
  Heads,      \* first tokens
  Arguments,  \* the tokens after the first
  MaxArgs(_)  \* bound on the tokens after a first one

ASSUME TokensAssumption == Heads \subseteq Word /\ Arguments \subseteq Word
ASSUME NoreplyAssumption == \A n \in U32 : ~ Reads("noreply", n)

VARIABLE line

Init == line = <<>>

Extend ==
  \/ line = <<>> /\ \E w \in Heads : line' = <<w>>
  \/ /\ line # <<>> /\ Len(line) <= MaxArgs(line[1])
     /\ \E w \in Arguments : line' = Append(line, w)

\* The bound is reached.
Rest == line # <<>> /\ Len(line) > MaxArgs(line[1]) /\ UNCHANGED line

Next == Extend \/ Rest
Spec == Init /\ [][Next]_line

header == ParseCommandLine(line)

-----------------------------------------------------------------------------
(* The grammar.                                                             *)

\* The tokens of a kind.
OfKind(kind) ==
  CASE kind = "key"             -> {w \in Word : ValidateKey(w)}
    [] kind \in {"flags", "delay", "level"} -> {w \in Word : IsField(w, U32)}
    [] kind = "exptime"         -> {w \in Word : IsField(w, I64)}
    [] kind \in {"delta", "token"} -> {w \in Word : IsField(w, U64)}
    [] kind = "length"          -> {w \in Word : IsField(w, 0 .. MaxItemSize)}
    [] kind = "noreply"         -> {"noreply"}

Times(n, kind) == [i \in 1 .. n |-> kind]

\* The kinds that may follow a command, of the n that a line has.
Shapes(op, n) ==
  LET Quiet(s) == {s, s \o <<"noreply">>}
  IN  CASE op \in {"get", "gets"}   -> {Times(n, "key")} \ {<<>>}
        [] op \in {"gat", "gats"}   -> {<<"exptime">> \o Times(n - 1, "key")} \ {<<"exptime">>}
        [] op \in StoreOps \ {"cas"} -> Quiet(<<"key", "flags", "exptime", "length">>)
        [] op = "cas"            -> Quiet(<<"key", "flags", "exptime", "length", "token">>)
        [] op = "delete"         -> Quiet(<<"key">>)
        [] op \in {"incr", "decr"} -> Quiet(<<"key", "delta">>)
        [] op = "touch"          -> Quiet(<<"key", "exptime">>)
        [] op = "flush_all"      -> Quiet(<<>>) \cup Quiet(<<"delay">>)
        [] op = "verbosity"      -> Quiet(<<"level">>)
        [] op \in {"version", "stats"} -> {<<>>}
        [] op = "quit"           -> {Times(n, "any")}
        [] OTHER                 -> {}

Matches(args, shape) ==
  /\ Len(args) = Len(shape)
  /\ \A i \in DOMAIN args : shape[i] = "any" \/ args[i] \in OfKind(shape[i])

\* What the header says at the place of a token of this kind.
Says(kind, word) ==
  CASE kind = "key"     -> word \in Range(header.cmd.keys)
    [] kind = "flags"   -> Reads(word, header.cmd.flags)
    [] kind = "exptime" -> Reads(word, header.cmd.exptime)
    [] kind = "length"  -> Reads(word, header.len)
    [] kind = "token"   -> \E n \in header.cmd.cas : Reads(word, n)
    [] kind = "delta"   -> Reads(word, header.cmd.delta)
    [] kind = "delay"   -> \E n \in header.cmd.delay : Reads(word, n)
    [] kind = "noreply" -> header.cmd.noreply
    [] kind \in {"any", "level"} -> TRUE

ShapesOfLine ==
  IF line = <<>> THEN {}
  ELSE {s \in Shapes(line[1], Len(line) - 1) : Matches(Tail(line), s)}

-----------------------------------------------------------------------------
(* Properties.                                                              *)

TypeOK == line \in Seq(Word)

\* The parse_ functions, which read a line token by token and return at the
\* first that is wrong, accept the lines of the grammar and no others, and the
\* command has each number, key and noreply from its place in the line.
ParsesTheGrammar ==
  /\ (header.kind # "error") = (ShapesOfLine # {})
  /\ \A s \in ShapesOfLine :
       /\ \A i \in DOMAIN s : Says(s[i], line[i + 1])
       /\ header.cmd.noreply => "noreply" \in Range(s)
       /\ Len(header.cmd.keys) = Cardinality({i \in DOMAIN s : s[i] = "key"})

\* A line that announces a payload, and the length it announces.
Announces(n) ==
  Len(line) > 4 /\ line[1] \in StoreOps /\ n \in ParseField(line[5], Usize)

\* Whatever is wrong with such a line, what follows it is taken off the stream:
\* the payload as one, or the payload and its terminator as the discard; and no
\* other line takes anything (parser.rs:250, the order of the checks).
PayloadAccountedFor ==
  /\ \A n \in Usize : Announces(n) /\ n + 2 < UsizeModulus =>
       header.len = IF header.kind = "error" THEN n + 2 ELSE n
  /\ (\A n \in Usize : ~ Announces(n)) => header.len = 0

\* set_item_larger_than_max_item_size_fails (parser.rs:657): the discard of a
\* payload that is too large is its length and two.  The code refutes it for a
\* length next to the largest usize (see README).
TooLargeDiscardsAll ==
  \A n \in Usize : Announces(n) /\ header.error = "TooLarge" => header.len = n + 2
=============================================================================
