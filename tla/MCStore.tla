------------------------------ MODULE MCStore ------------------------------
(***************************************************************************)
(* Small instances of Store: decimal text in base 2 for a u64 of two bits, *)
(* and the menus of calls the runs choose from.                            *)
(***************************************************************************)
EXTENDS Store, TLC

CONSTANTS t1, t2, t3, k1, k2

TwoThreads   == {t1, t2}
ThreeThreads == {t1, t2, t3}
OneKey       == {k1}
TwoKeys      == {k1, k2}
Alike        == Permutations(Threads)

-----------------------------------------------------------------------------
(* Bytes: the digits 0 and 1, the sign `+` that parse::<u64> accepts, a     *)
(* space, and a letter.                                                     *)

Plus   == 2
Space  == 3
Letter == 4
MCByte == 0 .. 4

RECURSIVE Trim(_)
Trim(s) == IF s = <<>> THEN s
           ELSE IF s[1] = Space THEN Trim(Tail(s))
           ELSE IF s[Len(s)] = Space THEN Trim(SubSeq(s, 1, Len(s) - 1))
           ELSE s

Unsigned(s) == IF s # <<>> /\ s[1] = Plus THEN Tail(s) ELSE s

MCDenotes(s, n) ==
  LET digits == Unsigned(Trim(s))
      val[i \in 0 .. Len(digits)] == IF i = 0 THEN 0 ELSE 2 * val[i - 1] + digits[i]
  IN  /\ digits # <<>>
      /\ \A i \in DOMAIN digits : digits[i] \in {0, 1}
      /\ val[Len(digits)] = n

RECURSIVE MCFormatU64(_)
MCFormatU64(n) == IF n < 2 THEN <<n>> ELSE MCFormatU64(n \div 2) \o <<n % 2>>

Text == <<Letter>>
Zero == <<0>>
Most == <<Space, 1, 1>>   \* the largest u64, with a space before it

-----------------------------------------------------------------------------
(* The calls.                                                               *)

Call(op, keys) == [Nop EXCEPT !.op = op, !.keys = keys]
Store1(op, data, exptime) ==
  [Call(op, <<k1>>) EXCEPT !.data = data, !.exptime = exptime]
CasWith(token, data) == [Store1("cas", data, 0) EXCEPT !.token = token]
Arith(op, delta) == [Call(op, <<k1>>) EXCEPT !.delta = delta]
FlushAfter(delay) == [Call("flush_all", <<>>) EXCEPT !.delay = delay]

\* Every way to change a value that a client may know by its token, with numbers
\* at the boundaries of a u64.
TokenMenu ==
  {Store1("set", Zero, 0), Store1("set", Most, 0), Store1("append", Text, 0),
   Store1("prepend", Zero, 0), Arith("incr", 3), Arith("decr", 3),
   Call("get", <<k1>>), Call("gat", <<k1>>), Call("touch", <<k1>>),
   CasWith(1, Text), CasWith(2, Zero), Call("delete", <<k1>>), FlushAfter(0)}

\* Everything that sets, reads or resets a time.
ExpiryMenu ==
  {Store1("set", Text, 1), Store1("set", Zero, 3), Store1("add", Text, -1),
   Store1("replace", Text, 1), Store1("append", Text, 0), CasWith(1, Text),
   Arith("incr", 1), Call("get", <<k1, k1>>),
   [Call("gat", <<k1>>) EXCEPT !.exptime = 2],
   [Call("touch", <<k1>>) EXCEPT !.exptime = 1],
   Call("delete", <<k1>>), FlushAfter(1)}

\* What meets at a placeholder.
AddMenu ==
  {Store1("add", Text, 0), Store1("set", Zero, 0), Store1("replace", Text, 0),
   Call("get", <<k1>>), Call("delete", <<k1>>), FlushAfter(0)}

\* Calls on two keys, with the clear between them.
FlushMenu ==
  {Store1("set", Text, 0), [Store1("set", Text, 0) EXCEPT !.keys = <<k2>>],
   Store1("append", Text, 0), Store1("add", Text, 0),
   Call("gat", <<k1, k2>>), Call("get", <<k2, k1>>), FlushAfter(0)}

AddDeleteMenu    == {Store1("add", Text, 0), Call("delete", <<k1>>)}
FlushDelayedMenu == {Store1("set", Text, 0), Call("get", <<k1>>),
                     FlushAfter(1), FlushAfter(2)}
=============================================================================
