---------------------------- MODULE ParserLemmas ----------------------------
(***************************************************************************)
(* What the headers of Parser announce, for any line.                      *)
(***************************************************************************)
EXTENDS Parser, SequenceTheorems, TLAPS

\* No header but those of store lines takes anything off the stream.
LEMMA NoPayload ==
  ASSUME NEW op, NEW args, NEW cmd, NEW type, NEW error
  PROVE  /\ Failed(error).len = 0 /\ ImmediateHeader(cmd).len = 0 /\ QuitHeader.len = 0
         /\ Ended(cmd, args).len = 0
         /\ Retrieve(cmd, args).len = 0
         /\ KeyAndNumber(cmd, type, error, args).len = 0
<1>1. \A e, c : Failed(e).len = 0 /\ ImmediateHeader(c).len = 0
  BY DEF Failed, Discarding, ImmediateHeader, CommandHeader
<1>2. QuitHeader.len = 0
  BY DEF QuitHeader, CommandHeader
<1>3. \A c, rest : Ended(c, rest).len = 0
  BY <1>1 DEF Ended
<1>4. Retrieve(cmd, args).len = 0
  BY <1>1 DEF Retrieve
<1>5. KeyAndNumber(cmd, type, error, args).len = 0
  BY <1>1, <1>3 DEF KeyAndNumber
<1> QED
  BY <1>1, <1>2, <1>3, <1>4, <1>5

\* What a store line takes, or asks to discard, is a number.
LEMMA StoreLength ==
  ASSUME NEW op, NEW args
  PROVE  ParseStore(op, args).len \in Nat
<1> DEFINE len == Field(args[4], Usize)
<1>1. CASE Len(args) < 4 \/ ~ IsField(args[4], Usize)
  BY <1>1, NoPayload DEF ParseStore
<1>2. CASE ~ (Len(args) < 4) /\ IsField(args[4], Usize)
  <2>1. len \in Usize
    BY <1>2 DEF IsField, Field, The, ParseField
  <2>2. len \in Nat /\ MaxItemSize \in Nat /\ UsizeModulus \in Nat \ {0}
    BY <2>1, ParserAssumption DEF Usize
  <2> HIDE DEF len
  <2>3. (len + 2) % UsizeModulus \in Nat
    BY <2>2
  <2>4. \A e : Discarding(e, PayloadAndTerminator(len)).len \in Nat
    BY <2>3 DEF Discarding, PayloadAndTerminator
  <2>5. \A c : PendingHeader(c, len).len \in Nat
    BY <2>2 DEF PendingHeader, CommandHeader
  <2>6. len > MaxItemSize \/ (len <= MaxItemSize /\ ~ StoreFieldsOK(op, args))
          \/ (len <= MaxItemSize /\ StoreFieldsOK(op, args))
    BY <2>2
  <2> QED
    BY <1>2, <2>2, <2>4, <2>5, <2>6 DEF ParseStore, len
<1> QED
  BY <1>1, <1>2

LEMMA LengthIsNat ==
  ASSUME NEW line
  PROVE  ParseCommandLine(line).len \in Nat
<1>1. CASE line = <<>>
  BY <1>1, NoPayload DEF ParseCommandLine
<1>2. CASE line # <<>>
  <2> DEFINE op   == line[1]
             args == Tail(line)
  <2>1. ParseGet(op, args).len = 0 /\ ParseGetAndTouch(op, args).len = 0
    BY NoPayload DEF ParseGet, ParseGetAndTouch
  <2>2. ParseDelete(args).len = 0 /\ ParseArithmetic(op, args).len = 0
    BY NoPayload DEF ParseDelete, ParseArithmetic
  <2>3. ParseTouch(args).len = 0 /\ ParseBare(op, args).len = 0
    BY NoPayload DEF ParseTouch, ParseBare
  <2>4. ParseFlushAll(args).len = 0
    BY NoPayload DEF ParseFlushAll
  <2>5. ParseVerbosity(args).len = 0
    BY NoPayload DEF ParseVerbosity
  <2>6. ParseStore(op, args).len \in Nat
    BY StoreLength
  <2>7. QuitHeader.len = 0 /\ Failed("Unknown").len = 0
    BY NoPayload
  <2> HIDE DEF op, args
  <2> QED
    BY <1>2, <2>1, <2>2, <2>3, <2>4, <2>5, <2>6, <2>7 DEF ParseCommandLine, op, args
<1> QED
  BY <1>1, <1>2
=============================================================================
