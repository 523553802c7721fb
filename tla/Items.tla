------------------------------- MODULE Items -------------------------------
(***************************************************************************)
(* The values of the store and the pure functions on them: the expiry of  *)
(* an item (store.rs, impl Item) and 64-bit arithmetic on decimal text     *)
(* (store.rs, Store::arithmetic).                                          *)
(*                                                                         *)
(* A Rust Option is a set of at most one element, so is_some_and is an     *)
(* existential over it.  Flags ride with the data and steer nothing: they  *)
(* are part of the payload.                                                *)
(***************************************************************************)
EXTENDS Integers, Sequences

CONSTANTS
  ThirtyDays,    \* THIRTY_DAYS_SECS: the largest relative exptime
  Modulus,       \* 2^64, the number of values of a u64
  Byte,          \* the bytes a payload is made of
  Denotes(_, _), \* whether text, once trimmed, is decimal for a number
  FormatU64(_)   \* u64::to_string

U64 == 0 .. Modulus - 1

Some(x)   == {x}
None      == {}
Option(S) == {o \in SUBSET S : \A x, y \in o : x = y}

\* str::trim and parse::<u64>, as an Option.
ParseU64(text) ==
  LET numbers == {n \in U64 : Denotes(text, n)}
  IN  IF numbers = {} THEN None ELSE Some(CHOOSE n \in numbers : TRUE)

ASSUME ThirtyDaysAssumption == ThirtyDays \in Nat
ASSUME ModulusAssumption == Modulus \in Nat \ {0}
ASSUME FormatAssumption ==
  \A n \in U64 : FormatU64(n) \in Seq(Byte) /\ ParseU64(FormatU64(n)) = Some(n)

Data == Seq(Byte)

Item == [data: Data, expires_at: Option(Nat), cas: Nat, stored_at: Nat]

\* Item::resolve_expiry: 0 never, negative already past, up to 30 days
\* relative to now, and absolute beyond.
ResolveExpiry(exptime, now) ==
  CASE exptime = 0                          -> None
    [] exptime < 0                          -> Some(0)
    [] exptime > 0 /\ exptime <= ThirtyDays -> Some(now + exptime)
    [] exptime > ThirtyDays                 -> Some(exptime)

NewItem(data, exptime, cas, now) ==
  [data |-> data, expires_at |-> ResolveExpiry(exptime, now),
   cas |-> cas, stored_at |-> now]

\* Item::is_expired: past its own time, or stored before a flush cutoff that
\* has come.
IsExpired(item, now, oldest) ==
  \/ \E t \in item.expires_at : now >= t
  \/ \E cutoff \in oldest : now >= cutoff /\ item.stored_at < cutoff

\* StoreInner::oldest_live: the atomic word 0 means no flush is recorded.
OldestLive(word) == IF word = 0 THEN None ELSE Some(word)

ClampedAdd(val, delta) == \* Mutant: incr stops at the largest number.
  IF val + delta < Modulus THEN val + delta ELSE Modulus - 1
WrappingAdd(val, delta)   == (val + delta) % Modulus
PlainSub(val, delta)      == val - delta  \* Mutant: decr goes below zero.
SaturatingSub(val, delta) == IF delta <= val THEN val - delta ELSE 0
=============================================================================
