---------------------------- MODULE ParserProofs ----------------------------
(***************************************************************************)
(* Theorems about the parser, for lines of any length and any vocabulary:  *)
(* what a refused line asks to discard, and that the parser accepts the    *)
(* grammar of CommandLine and nothing else.                                *)
(***************************************************************************)
EXTENDS CommandLine, ParserLemmas, FiniteSetTheorems

\* A line is a sequence of tokens.
THEOREM LinesAreTokens == Spec => []TypeOK
<1>1. Init => TypeOK
  BY DEF Init, TypeOK
<1>2. TypeOK /\ [Next]_line => TypeOK'
  <2>1. SUFFICES ASSUME TypeOK, [Next]_line PROVE TypeOK'
    OBVIOUS
  <2>2. Heads \subseteq Word /\ Arguments \subseteq Word /\ line \in Seq(Word)
    BY <2>1, TokensAssumption DEF TypeOK
  <2>3. CASE Extend
    <3>1. CASE line = <<>> /\ \E w \in Heads : line' = <<w>>
      BY <2>2, <3>1 DEF TypeOK
    <3>2. CASE \E w \in Arguments : line' = Append(line, w)
      BY <2>2, <3>2, AppendProperties DEF TypeOK
    <3> QED
      BY <2>3, <3>1, <3>2 DEF Extend
  <2>4. CASE UNCHANGED line
    BY <2>2, <2>4 DEF TypeOK
  <2> QED
    BY <2>1, <2>3, <2>4 DEF Next, Rest
<1> QED
  BY <1>1, <1>2, PTL DEF Spec

-----------------------------------------------------------------------------
(* Fields.                                                                  *)

\* A token reads as one number of a type at most.
LEMMA FieldIs ==
  ASSUME NEW w \in Word, NEW type \in {Usize, U32, I64, U64}, NEW n \in ParseField(w, type)
  PROVE  Field(w, type) = n
<1>1. \A m \in ParseField(w, type) : m = n
  BY ReadsAssumption DEF ParseField
<1>2. ParseField(w, type) = {n}
  BY <1>1
<1> QED
  BY <1>2 DEF Field, The

\* The tokens after the first.
LEMMA ArgsOfLine ==
  ASSUME TypeOK, line # <<>>
  PROVE  /\ line[1] \in Word /\ Tail(line) \in Seq(Word)
         /\ Len(Tail(line)) = Len(line) - 1 /\ Len(line) \in Nat \ {0}
         /\ \A i \in 1 .. Len(line) - 1 : Tail(line)[i] = line[i + 1]
BY HeadTailProperties, EmptySeq DEF TypeOK

-----------------------------------------------------------------------------
(* Discards.                                                                *)

LEMMA OtherLinesTakeNothing ==
  ASSUME line = <<>> \/ line[1] \notin StoreOps
  PROVE  header.len = 0
<1>1. CASE line = <<>>
  BY <1>1, NoPayload DEF header, ParseCommandLine
<1>2. CASE line # <<>> /\ line[1] \notin StoreOps
  <2> DEFINE op == line[1]
             args == Tail(line)
  <2>1. ParseGet(op, args).len = 0 /\ ParseGetAndTouch(op, args).len = 0
    BY NoPayload DEF ParseGet, ParseGetAndTouch
  <2>2. ParseDelete(args).len = 0 /\ ParseFlushAll(args).len = 0
    BY NoPayload DEF ParseDelete, ParseFlushAll
  <2>3. ParseArithmetic(op, args).len = 0 /\ ParseTouch(args).len = 0
    BY NoPayload DEF ParseArithmetic, ParseTouch
  <2>4. ParseBare(op, args).len = 0 /\ ParseVerbosity(args).len = 0
    BY NoPayload DEF ParseBare, ParseVerbosity
  <2>5. QuitHeader.len = 0 /\ Failed("Unknown").len = 0
    BY NoPayload
  <2> HIDE DEF op, args
  <2>6. op \notin StoreOps /\ header = ParseCommandLine(line) /\ line # <<>>
        /\ op = line[1] /\ args = Tail(line)
    BY <1>2 DEF op, args, header
  <2> QED
    BY <2>1, <2>2, <2>3, <2>4, <2>5, <2>6 DEF ParseCommandLine
<1> QED
  BY <1>1, <1>2

\* A store line is parsed by parse_store and nothing else.
LEMMA StoreLine ==
  ASSUME line # <<>>, line[1] \in StoreOps
  PROVE  header = ParseStore(line[1], Tail(line))
BY DEF header, ParseCommandLine, StoreOps

LEMMA StoreLineTakes ==
  ASSUME TypeOK, line # <<>>, line[1] \in StoreOps
  PROVE  PayloadAccountedFor
<1> DEFINE op == line[1]
           args == Tail(line)
<1>1. /\ args \in Seq(Word) /\ Len(args) = Len(line) - 1 /\ Len(line) \in Nat
      /\ Len(line) > 4 => args[4] = line[5] /\ line[5] \in Word
  <2>1. 4 \in 1 .. Len(line) - 1 <=> Len(line) > 4
    BY ArgsOfLine
  <2> QED
    BY <2>1, ArgsOfLine DEF TypeOK
<1>2. header = ParseStore(op, args)
  BY StoreLine
<1> HIDE DEF op, args
<1>3. CASE Len(line) <= 4
  <2>1. header = Failed("Unknown") /\ \A n : ~ Announces(n)
    BY <1>1, <1>2, <1>3 DEF ParseStore, Announces
  <2> QED
    BY <2>1, NoPayload DEF PayloadAccountedFor
<1>4. CASE Len(line) > 4 /\ ~ IsField(line[5], Usize)
  <2>1. header = Failed("BadFormat") /\ \A n : ~ Announces(n)
    BY <1>1, <1>2, <1>4 DEF ParseStore, Announces, IsField
  <2> QED
    BY <2>1, NoPayload DEF PayloadAccountedFor
<1>5. CASE Len(line) > 4 /\ IsField(line[5], Usize)
  <2>1. PICK len \in ParseField(line[5], Usize) : TRUE
    BY <1>5 DEF IsField
  <2>2. Field(line[5], Usize) = len /\ len \in Nat /\ len < UsizeModulus
    BY <1>1, <1>5, <2>1, FieldIs, ParserAssumption DEF ParseField, Usize
  <2>3. \A n \in Usize : Announces(n) => n = len
    BY <1>1, <1>5, <2>2, FieldIs DEF Announces
  <2>4. Announces(len) /\ len \in Usize
    BY <1>5, <2>1 DEF Announces, ParseField
  <2>5. MaxItemSize \in Nat /\ UsizeModulus \in Nat /\ MaxItemSize + 2 < UsizeModulus
    BY ParserAssumption
  <2>6. \A n \in Nat : n + 2 < UsizeModulus => PayloadAndTerminator(n) = n + 2
    BY <2>5 DEF PayloadAndTerminator
  <2>7. len + 2 < UsizeModulus =>
          header.len = IF header.kind = "error" THEN len + 2 ELSE len
    <3>1. SUFFICES ASSUME len + 2 < UsizeModulus
                   PROVE  header.len = IF header.kind = "error" THEN len + 2 ELSE len
      OBVIOUS
    <3>2. PayloadAndTerminator(len) = len + 2
      BY <2>2, <2>6, <3>1
    <3>3. CASE len > MaxItemSize
      <4>1. header = Discarding("TooLarge", len + 2)
        BY <1>1, <1>2, <1>5, <2>2, <2>5, <3>2, <3>3 DEF ParseStore
      <4> QED
        BY <4>1 DEF Discarding
    <3>4. CASE len <= MaxItemSize /\ ~ StoreFieldsOK(op, args)
      <4>1. header = Discarding("BadFormat", len + 2)
        BY <1>1, <1>2, <1>5, <2>2, <2>5, <3>2, <3>4 DEF ParseStore
      <4> QED
        BY <4>1 DEF Discarding
    <3>5. CASE len <= MaxItemSize /\ StoreFieldsOK(op, args)
      <4>1. PICK cmd : header = PendingHeader(cmd, len)
        BY <1>1, <1>2, <1>5, <2>2, <2>5, <3>5 DEF ParseStore
      <4> QED
        BY <4>1 DEF PendingHeader, CommandHeader
    <3> QED
      BY <2>2, <2>5, <3>3, <3>4, <3>5
  <2> QED
    BY <2>3, <2>4, <2>7 DEF PayloadAccountedFor
<1> QED
  BY <1>1, <1>3, <1>4, <1>5

\* Whatever a client sends on a line, with tokens of any kind in any number: a
\* length that is announced, is read and does not overflow is taken off the
\* stream, and nothing is taken otherwise (parse_store, and all the others).
THEOREM PayloadIsAccountedFor == Spec => []PayloadAccountedFor
<1>1. TypeOK => PayloadAccountedFor
  <2>1. line = <<>> \/ line[1] \notin StoreOps => PayloadAccountedFor
    <3>1. SUFFICES ASSUME line = <<>> \/ line[1] \notin StoreOps PROVE PayloadAccountedFor
      OBVIOUS
    <3>2. \A n : ~ Announces(n)
      BY <3>1 DEF Announces
    <3> QED
      BY <3>1, <3>2, OtherLinesTakeNothing DEF PayloadAccountedFor
  <2> QED
    BY <2>1, StoreLineTakes
<1> QED
  BY <1>1, LinesAreTokens, PTL

-----------------------------------------------------------------------------
(* The grammar.                                                             *)

args == Tail(line)

\* What ParsesTheGrammar says of a shape that the line has.
Told(s) ==
  /\ \A i \in DOMAIN s : Says(s[i], line[i + 1])
  /\ header.cmd.noreply => "noreply" \in Range(s)
  /\ Len(header.cmd.keys) = Cardinality({i \in DOMAIN s : s[i] = "key"})

Kinds == {"key", "flags", "exptime", "length", "token", "delta", "delay", "level",
          "noreply", "any"}

\* What may be left of a line after n fields: nothing, or noreply.
Plain(n) == Drop(args, n) = <<>>
Quiet(n) == Drop(args, n) = <<"noreply">>

\* The tokens of these kinds, and then noreply or nothing.
Fits(kinds) ==
  /\ Len(args) >= Len(kinds)
  /\ \A i \in 1 .. Len(kinds) : args[i] \in OfKind(kinds[i])
  /\ Plain(Len(kinds)) \/ Quiet(Len(kinds))

\* The command has them.
Takes(kinds) ==
  /\ \A i \in 1 .. Len(kinds) : Says(kinds[i], args[i])
  /\ header.cmd.noreply <=> Quiet(Len(kinds))
  /\ Len(header.cmd.keys) = Cardinality({i \in 1 .. Len(kinds) : kinds[i] = "key"})

Endings(kinds) == {kinds, kinds \o <<"noreply">>}

LEMMA KindIs ==
  /\ OfKind("key") = {w \in Word : ValidateKey(w)}
  /\ OfKind("flags") = {w \in Word : IsField(w, U32)}
  /\ OfKind("delay") = {w \in Word : IsField(w, U32)}
  /\ OfKind("level") = {w \in Word : IsField(w, U32)}
  /\ OfKind("exptime") = {w \in Word : IsField(w, I64)}
  /\ OfKind("delta") = {w \in Word : IsField(w, U64)}
  /\ OfKind("token") = {w \in Word : IsField(w, U64)}
  /\ OfKind("length") = {w \in Word : IsField(w, 0 .. MaxItemSize)}
  /\ OfKind("noreply") = {"noreply"}
BY DEF OfKind

LEMMA NoreplyIs ==
  ASSUME NEW rest
  PROVE  /\ FALSE \in ParseNoreply(rest) <=> rest = <<>>
         /\ TRUE \in ParseNoreply(rest) <=> rest = <<"noreply">>
         /\ \A b \in ParseNoreply(rest) : b \in BOOLEAN /\ The(ParseNoreply(rest)) = b
<1>1. <<"noreply">> # <<>>
  OBVIOUS
<1>2. /\ FALSE \in ParseNoreply(rest) <=> rest = <<>>
      /\ TRUE \in ParseNoreply(rest) <=> rest = <<"noreply">>
  BY DEF ParseNoreply
<1>3. \A b \in ParseNoreply(rest) : b \in BOOLEAN
  BY DEF ParseNoreply
<1>4. \A b \in ParseNoreply(rest) : ParseNoreply(rest) = {b}
  BY <1>1, <1>2, <1>3
<1> QED
  BY <1>2, <1>3, <1>4 DEF The

LEMMA EndedIs ==
  ASSUME NEW cmd, NEW rest
  PROVE  /\ rest = <<>> => Ended(cmd, rest) = ImmediateHeader([cmd EXCEPT !.noreply = FALSE])
         /\ rest = <<"noreply">> =>
              Ended(cmd, rest) = ImmediateHeader([cmd EXCEPT !.noreply = TRUE])
         /\ rest # <<>> /\ rest # <<"noreply">> => Ended(cmd, rest) = Failed("BadFormat")
<1>1. rest = <<>> => ParseNoreply(rest) # {} /\ The(ParseNoreply(rest)) = FALSE
  BY NoreplyIs
<1>2. rest = <<"noreply">> => ParseNoreply(rest) # {} /\ The(ParseNoreply(rest)) = TRUE
  BY NoreplyIs
<1>3. rest # <<>> /\ rest # <<"noreply">> => ParseNoreply(rest) = {}
  BY NoreplyIs
<1> QED
  BY <1>1, <1>2, <1>3 DEF Ended

LEMMA DropIs ==
  ASSUME NEW s \in Seq(Word), NEW n \in Nat, n <= Len(s)
  PROVE  /\ Drop(s, n) \in Seq(Word) /\ Len(Drop(s, n)) = Len(s) - n
         /\ \A i \in 1 .. Len(s) - n : Drop(s, n)[i] = s[n + i]
<1>1. Len(s) \in Nat /\ \A i \in n + 1 .. Len(s) : s[i] \in Word
  OBVIOUS
<1>2. /\ SubSeq(s, n + 1, Len(s)) \in Seq(Word)
      /\ Len(SubSeq(s, n + 1, Len(s))) =
           IF n + 1 <= Len(s) THEN Len(s) - (n + 1) + 1 ELSE 0
      /\ \A i \in 1 .. Len(s) - (n + 1) + 1 : SubSeq(s, n + 1, Len(s))[i] = s[(n + 1) + i - 1]
  BY <1>1, SubSeqProperties
<1> QED
  BY <1>1, <1>2 DEF Drop

LEMMA RestIs ==
  ASSUME NEW s \in Seq(Word), NEW n \in Nat, n <= Len(s)
  PROVE  /\ Drop(s, n) = <<>> <=> Len(s) = n
         /\ Drop(s, n) = <<"noreply">> <=> Len(s) = n + 1 /\ s[n + 1] = "noreply"
<1>0. Len(s) \in Nat
  OBVIOUS
<1>1. /\ Drop(s, n) \in Seq(Word) /\ Len(Drop(s, n)) = Len(s) - n
      /\ \A i \in 1 .. Len(s) - n : Drop(s, n)[i] = s[n + i]
  BY DropIs
<1>2. Drop(s, n) = <<>> <=> Len(s) = n
  BY <1>0, <1>1, EmptySeq
<1>3. Drop(s, n) = <<"noreply">> => Len(Drop(s, n)) = 1 /\ Drop(s, n)[1] = "noreply"
  OBVIOUS
<1>4. Len(Drop(s, n)) = 1 /\ Drop(s, n)[1] = "noreply" => Drop(s, n) = <<"noreply">>
  BY <1>1
<1>5. Len(s) = n + 1 => 1 \in 1 .. Len(s) - n
  BY <1>0
<1>6. Len(Drop(s, n)) = 1 <=> Len(s) = n + 1
  BY <1>0, <1>1
<1> QED
  BY <1>1, <1>2, <1>3, <1>4, <1>5, <1>6

LEMMA WithNoreply ==
  ASSUME NEW kinds \in Seq(Kinds)
  PROVE  /\ kinds \o <<"noreply">> \in Seq(Kinds)
         /\ Len(kinds \o <<"noreply">>) = Len(kinds) + 1
         /\ (kinds \o <<"noreply">>)[Len(kinds) + 1] = "noreply"
         /\ \A i \in 1 .. Len(kinds) : (kinds \o <<"noreply">>)[i] = kinds[i]
<1>1. kinds \o <<"noreply">> = Append(kinds, "noreply")
  BY AppendIsConcat
<1>2. /\ Append(kinds, "noreply") \in Seq(Kinds)
      /\ Len(Append(kinds, "noreply")) = Len(kinds) + 1
      /\ Append(kinds, "noreply")[Len(kinds) + 1] = "noreply"
      /\ \A i \in 1 .. Len(kinds) : Append(kinds, "noreply")[i] = kinds[i]
  <2>1. "noreply" \in Kinds
    BY DEF Kinds
  <2> QED
    BY <2>1, AppendProperties
<1> QED
  BY <1>1, <1>2

\* One of the two endings of these kinds matches just when the line fits.
LEMMA EndingMatches ==
  ASSUME TypeOK, line # <<>>, NEW kinds \in Seq(Kinds),
         \A i \in 1 .. Len(kinds) : kinds[i] \notin {"any", "noreply"}
  PROVE  /\ Fits(kinds) <=> \E s \in Endings(kinds) : Matches(args, s)
         /\ Fits(kinds) /\ Takes(kinds) =>
              \A s \in Endings(kinds) : Matches(args, s) => Told(s)
<1> DEFINE quiet == kinds \o <<"noreply">>
<1>1. /\ args \in Seq(Word) /\ Len(args) \in Nat /\ Len(kinds) \in Nat
      /\ \A i \in 1 .. Len(args) : args[i] = line[i + 1]
  BY ArgsOfLine DEF args
<1>2. /\ DOMAIN kinds = 1 .. Len(kinds)
      /\ DOMAIN quiet = 1 .. Len(kinds) + 1 /\ Len(quiet) = Len(kinds) + 1
      /\ quiet[Len(kinds) + 1] = "noreply"
      /\ \A i \in 1 .. Len(kinds) : quiet[i] = kinds[i]
  BY WithNoreply, LenProperties
<1>3. Endings(kinds) = {kinds, quiet}
  BY DEF Endings
<1> HIDE DEF quiet
<1>4. \A i \in 1 .. Len(kinds) + 1 : i \in 1 .. Len(kinds) \/ i = Len(kinds) + 1
  BY <1>1
<1>5. Len(args) >= Len(kinds) =>
        /\ Plain(Len(kinds)) <=> Len(args) = Len(kinds)
        /\ Quiet(Len(kinds)) <=> Len(args) = Len(kinds) + 1 /\ args[Len(kinds) + 1] = "noreply"
  <2>1. Len(args) >= Len(kinds) => Len(kinds) <= Len(args)
    BY <1>1
  <2> QED
    BY <1>1, <2>1, RestIs DEF Plain, Quiet
<1>6. Matches(args, kinds) <=>
        /\ Len(args) = Len(kinds)
        /\ \A i \in 1 .. Len(kinds) : args[i] \in OfKind(kinds[i])
  BY <1>2 DEF Matches
<1>7. Matches(args, quiet) <=>
        /\ Len(args) = Len(kinds) + 1
        /\ \A i \in 1 .. Len(kinds) : args[i] \in OfKind(kinds[i])
        /\ args[Len(kinds) + 1] = "noreply"
  <2>1. OfKind("noreply") = {"noreply"} /\ "noreply" # "any"
    BY KindIs
  <2>2. Len(kinds) + 1 \in 1 .. Len(kinds) + 1
        /\ \A i \in 1 .. Len(kinds) : i \in 1 .. Len(kinds) + 1
    BY <1>1
  <2> QED
    BY <1>2, <1>4, <2>1, <2>2 DEF Matches
<1>8. Fits(kinds) <=> Matches(args, kinds) \/ Matches(args, quiet)
  <2>1. Len(args) = Len(kinds) \/ Len(args) = Len(kinds) + 1 => Len(args) >= Len(kinds)
    BY <1>1
  <2> QED
    BY <1>1, <1>5, <1>6, <1>7, <2>1 DEF Fits
<1>9. ASSUME Takes(kinds), Matches(args, kinds) PROVE Told(kinds)
  <2>1. ~ header.cmd.noreply
    BY <1>1, <1>5, <1>6, <1>9 DEF Takes
  <2>2. \A i \in DOMAIN kinds : Says(kinds[i], line[i + 1])
    BY <1>1, <1>2, <1>6, <1>9 DEF Takes
  <2> QED
    BY <1>2, <1>9, <2>1, <2>2 DEF Takes, Told
<1>10. ASSUME Takes(kinds), Matches(args, quiet) PROVE Told(quiet)
  <2>1. header.cmd.noreply
    BY <1>1, <1>5, <1>7, <1>10 DEF Takes
  <2>2. \A i \in DOMAIN quiet : Says(quiet[i], line[i + 1])
    <3>1. Says("noreply", line[Len(kinds) + 1 + 1])
      BY <2>1 DEF Says
    <3>2. \A i \in 1 .. Len(kinds) : Says(quiet[i], line[i + 1])
      BY <1>1, <1>2, <1>7, <1>10 DEF Takes
    <3> QED
      BY <1>2, <1>4, <3>1, <3>2
  <2>3. "noreply" \in Range(quiet)
    BY <1>1, <1>2 DEF Range
  <2>4. {i \in DOMAIN quiet : quiet[i] = "key"} = {i \in 1 .. Len(kinds) : kinds[i] = "key"}
    BY <1>1, <1>2, <1>4
  <2> QED
    BY <1>10, <2>2, <2>3, <2>4 DEF Takes, Told
<1> QED
  BY <1>3, <1>8, <1>9, <1>10

\* A command whose tokens are of these kinds or of those, with an optional noreply.
LEMMA EitherGrammar ==
  ASSUME TypeOK, line # <<>>, NEW kinds \in Seq(Kinds), NEW others \in Seq(Kinds),
         \A i \in 1 .. Len(kinds) : kinds[i] \notin {"any", "noreply"},
         \A i \in 1 .. Len(others) : others[i] \notin {"any", "noreply"},
         Shapes(line[1], Len(line) - 1) = Endings(kinds) \cup Endings(others),
         (header.kind # "error") <=> Fits(kinds) \/ Fits(others),
         Fits(kinds) => Takes(kinds), Fits(others) => Takes(others)
  PROVE  ParsesTheGrammar
<1>1. ShapesOfLine = {s \in Endings(kinds) : Matches(args, s)} \cup
                     {s \in Endings(others) : Matches(args, s)}
  BY DEF ShapesOfLine, args
<1>2. Fits(kinds) \/ Fits(others) <=> ShapesOfLine # {}
  BY <1>1, EndingMatches
<1>3. \A s \in ShapesOfLine : Told(s)
  BY <1>1, EndingMatches
<1> QED
  BY <1>2, <1>3 DEF ParsesTheGrammar, Told

LEMMA QuietGrammar ==
  ASSUME TypeOK, line # <<>>, NEW kinds \in Seq(Kinds),
         \A i \in 1 .. Len(kinds) : kinds[i] \notin {"any", "noreply"},
         Shapes(line[1], Len(line) - 1) = Endings(kinds),
         (header.kind # "error") <=> Fits(kinds),
         Fits(kinds) => Takes(kinds)
  PROVE  ParsesTheGrammar
<1>1. Shapes(line[1], Len(line) - 1) = Endings(kinds) \cup Endings(kinds)
  OBVIOUS
<1> QED
  BY <1>1, EitherGrammar

\* A field that is there is what the token reads as.
LEMMA FieldReads ==
  ASSUME NEW w \in Word, NEW type \in {Usize, U32, I64, U64}, IsField(w, type)
  PROVE  Reads(w, Field(w, type)) /\ Field(w, type) \in type
<1>1. PICK n \in ParseField(w, type) : TRUE
  BY DEF IsField
<1> QED
  BY <1>1, FieldIs DEF ParseField

LEMMA OneKey ==
  ASSUME NEW kinds \in Seq(Kinds), Len(kinds) >= 1, NEW k \in 1 .. Len(kinds),
         \A i \in 1 .. Len(kinds) : kinds[i] = "key" <=> i = k
  PROVE  Cardinality({i \in 1 .. Len(kinds) : kinds[i] = "key"}) = 1
<1>1. {i \in 1 .. Len(kinds) : kinds[i] = "key"} = {k}
  OBVIOUS
<1> QED
  BY <1>1, FS_Singleton

LEMMA NoKeyIn ==
  ASSUME NEW kinds, NEW n, \A i \in 1 .. n : kinds[i] # "key"
  PROVE  Cardinality({i \in 1 .. n : kinds[i] = "key"}) = 0
<1>1. {i \in 1 .. n : kinds[i] = "key"} = {}
  OBVIOUS
<1> QED
  BY <1>1, FS_EmptySet

Fields == {"op", "keys", "flags", "exptime", "delta", "cas", "delay", "with_cas", "noreply"}

\* A line that ends after n fields, or one token after them.
LEMMA EndedLine ==
  ASSUME NEW cmd, NEW n, DOMAIN cmd = Fields, header = Ended(cmd, Drop(args, n))
  PROVE  /\ (header.kind # "error") <=> (Plain(n) \/ Quiet(n))
         /\ Plain(n) \/ Quiet(n) =>
              /\ header.len = 0 /\ header.cmd.keys = cmd.keys
              /\ header.cmd.exptime = cmd.exptime /\ header.cmd.delta = cmd.delta
              /\ header.cmd.delay = cmd.delay
              /\ header.cmd.noreply <=> Quiet(n)
<1>1. \A q : /\ [cmd EXCEPT !.noreply = q].keys = cmd.keys
             /\ [cmd EXCEPT !.noreply = q].exptime = cmd.exptime
             /\ [cmd EXCEPT !.noreply = q].delta = cmd.delta
             /\ [cmd EXCEPT !.noreply = q].delay = cmd.delay
             /\ [cmd EXCEPT !.noreply = q].noreply = q
  BY DEF Fields
<1>2. \A c : /\ ImmediateHeader(c).kind = "immediate" /\ ImmediateHeader(c).len = 0
             /\ ImmediateHeader(c).cmd = c
  BY DEF ImmediateHeader, CommandHeader
<1>3. ASSUME NEW q, header = ImmediateHeader([cmd EXCEPT !.noreply = q])
      PROVE  /\ header.kind # "error" /\ header.len = 0 /\ header.cmd.keys = cmd.keys
             /\ header.cmd.exptime = cmd.exptime /\ header.cmd.delta = cmd.delta
             /\ header.cmd.delay = cmd.delay /\ header.cmd.noreply = q
  <2>1. header.kind = "immediate" /\ header.len = 0 /\ header.cmd = [cmd EXCEPT !.noreply = q]
    BY <1>2, <1>3
  <2> QED
    BY <1>1, <2>1
<1>4. CASE Plain(n)
  <2>1. header = ImmediateHeader([cmd EXCEPT !.noreply = FALSE])
    BY <1>4, EndedIs DEF Plain
  <2>2. ~ Quiet(n)
    BY <1>4 DEF Plain, Quiet
  <2>3. ~ header.cmd.noreply
    BY <1>3, <2>1, Zenon
  <2> QED
    BY <1>3, <1>4, <2>1, <2>2, <2>3, Zenon
<1>5. CASE Quiet(n)
  <2>1. header = ImmediateHeader([cmd EXCEPT !.noreply = TRUE])
    BY <1>5, EndedIs DEF Quiet
  <2>2. header.cmd.noreply
    BY <1>3, <2>1, Zenon
  <2> QED
    BY <1>3, <1>5, <2>1, <2>2, Zenon
<1>6. CASE ~ Plain(n) /\ ~ Quiet(n)
  <2>1. header = Failed("BadFormat")
    BY <1>6, EndedIs DEF Plain, Quiet
  <2>2. header.kind = "error"
    BY <2>1 DEF Failed, Discarding
  <2> QED
    BY <1>6, <2>2
<1> QED
  BY <1>4, <1>5, <1>6

\* The tokens of a line after the first.
LEMMA ArgsAre ==
  ASSUME TypeOK, line # <<>>
  PROVE  /\ args \in Seq(Word) /\ Len(args) \in Nat /\ Len(args) = Len(line) - 1
         /\ \A i \in 1 .. Len(args) : args[i] \in Word
         /\ args = <<>> <=> Len(args) = 0
<1>1. args \in Seq(Word) /\ Len(args) \in Nat /\ Len(args) = Len(line) - 1
  BY ArgsOfLine DEF args
<1>2. \A i \in 1 .. Len(args) : args[i] \in Word
  BY <1>1
<1>3. args = <<>> <=> Len(args) = 0
  BY <1>1, EmptySeq
<1> QED
  BY <1>1, <1>2, <1>3

LEMMA FirstIsRest ==
  ASSUME TypeOK, line # <<>>, args # <<>>
  PROVE  Tail(args) = Drop(args, 1)
BY ArgsAre, TailIsSubSeq DEF Drop

LEMMA FailedIs == \A e : Failed(e).kind = "error"
BY DEF Failed, Discarding

LEMMA OneKeyIn ==
  ASSUME NEW k
  PROVE  k \in Range(<<k>>) /\ Len(<<k>>) = 1
BY DEF Range

LEMMA DeleteGrammar ==
  ASSUME TypeOK, line # <<>>, line[1] = "delete"
  PROVE  ParsesTheGrammar
<1> DEFINE kinds == <<"key">>
<1>1. /\ kinds \in Seq(Kinds) /\ Len(kinds) = 1 /\ kinds[1] = "key" /\ 1 .. 1 = {1}
  BY DEF Kinds
<1>2. Shapes(line[1], Len(line) - 1) = Endings(kinds)
  BY DEF Shapes, Endings, StoreOps
<1> HIDE DEF kinds
<1>3. header = ParseDelete(args)
  BY DEF header, ParseCommandLine, StoreOps, args
<1>4. /\ args \in Seq(Word) /\ Len(args) \in Nat /\ \A i \in 1 .. Len(args) : args[i] \in Word
      /\ args = <<>> <=> Len(args) = 0
  BY ArgsAre
<1>5. Fits(kinds) <=>
        /\ args # <<>> /\ ValidateKey(args[1]) /\ (Plain(1) \/ Quiet(1))
  BY <1>1, <1>4, KindIs DEF Fits
<1>6. CASE args # <<>> /\ ValidateKey(args[1])
  <2> DEFINE cmd == [NoCommand EXCEPT !.op = "delete", !.keys = <<args[1]>>]
  <2>1. DOMAIN cmd = Fields /\ cmd.keys = <<args[1]>>
    BY DEF NoCommand, Fields
  <2>2. header = Ended(cmd, Drop(args, 1))
    BY <1>3, <1>6, FirstIsRest DEF ParseDelete
  <2> HIDE DEF cmd
  <2>3. (header.kind # "error") <=> (Plain(1) \/ Quiet(1))
    BY <2>1, <2>2, EndedLine
  <2>4. Plain(1) \/ Quiet(1) => header.cmd.keys = <<args[1]>> /\ (header.cmd.noreply <=> Quiet(1))
    BY <2>1, <2>2, EndedLine
  <2>5. Cardinality({i \in 1 .. Len(kinds) : kinds[i] = "key"}) = 1
    BY <1>1, OneKey
  <2>6. Plain(1) \/ Quiet(1) => Takes(kinds)
    BY <1>1, <2>4, <2>5, OneKeyIn DEF Takes, Says
  <2> QED
    BY <1>1, <1>2, <1>5, <1>6, <2>3, <2>6, QuietGrammar
<1>7. CASE args = <<>> \/ ~ ValidateKey(args[1])
  <2>1. header.kind = "error"
    BY <1>3, <1>7, FailedIs DEF ParseDelete
  <2> QED
    BY <1>1, <1>2, <1>5, <1>7, <2>1, QuietGrammar
<1> QED
  BY <1>6, <1>7

\* verbosity: a level that is read, and goes nowhere.
LEMMA VerbosityGrammar ==
  ASSUME TypeOK, line # <<>>, line[1] = "verbosity"
  PROVE  ParsesTheGrammar
<1> DEFINE kinds == <<"level">>
<1>1. /\ kinds \in Seq(Kinds) /\ Len(kinds) = 1 /\ kinds[1] = "level" /\ 1 .. 1 = {1}
  BY DEF Kinds
<1>2. Shapes(line[1], Len(line) - 1) = Endings(kinds)
  BY DEF Shapes, Endings, StoreOps
<1> HIDE DEF kinds
<1>3. header = ParseVerbosity(args)
  BY DEF header, ParseCommandLine, StoreOps, args
<1>4. /\ args \in Seq(Word) /\ Len(args) \in Nat /\ \A i \in 1 .. Len(args) : args[i] \in Word
      /\ args = <<>> <=> Len(args) = 0
  BY ArgsAre
<1>5. Fits(kinds) <=>
        /\ args # <<>> /\ IsField(args[1], U32) /\ (Plain(1) \/ Quiet(1))
  BY <1>1, <1>4, KindIs DEF Fits
<1>6. CASE args # <<>> /\ IsField(args[1], U32)
  <2> DEFINE cmd == [NoCommand EXCEPT !.op = "verbosity"]
  <2>1. DOMAIN cmd = Fields /\ cmd.keys = <<>>
    BY DEF NoCommand, Fields
  <2>2. header = Ended(cmd, Drop(args, 1))
    BY <1>3, <1>6, FirstIsRest DEF ParseVerbosity
  <2> HIDE DEF cmd
  <2>3. (header.kind # "error") <=> (Plain(1) \/ Quiet(1))
    BY <2>1, <2>2, EndedLine
  <2>4. Plain(1) \/ Quiet(1) => header.cmd.keys = <<>> /\ (header.cmd.noreply <=> Quiet(1))
    BY <2>1, <2>2, EndedLine
  <2>5. Cardinality({i \in 1 .. Len(kinds) : kinds[i] = "key"}) = 0
    BY <1>1, NoKeyIn
  <2>6. Plain(1) \/ Quiet(1) => Takes(kinds)
    BY <1>1, <2>4, <2>5 DEF Takes, Says
  <2> QED
    BY <1>1, <1>2, <1>5, <1>6, <2>3, <2>6, QuietGrammar
<1>7. CASE args = <<>> \/ ~ IsField(args[1], U32)
  <2>1. header.kind = "error"
    BY <1>3, <1>7, FailedIs DEF ParseVerbosity
  <2> QED
    BY <1>1, <1>2, <1>5, <1>7, <2>1, QuietGrammar
<1> QED
  BY <1>6, <1>7

\* incr, decr and touch: a key and a number, each in its place.
LEMMA KeyAndNumberGrammar ==
  ASSUME TypeOK, line # <<>>, NEW cmd, NEW type, NEW error, NEW kind,
         header = KeyAndNumber(cmd, type, error, args),
         Shapes(line[1], Len(line) - 1) = Endings(<<"key", kind>>),
         \/ kind = "delta" /\ type = U64 /\ cmd.delta = Field(args[2], U64)
         \/ kind = "exptime" /\ type = I64 /\ cmd.exptime = Field(args[2], I64),
         DOMAIN cmd = Fields, cmd.keys = <<args[1]>>
  PROVE  ParsesTheGrammar
<1> DEFINE kinds == <<"key", kind>>
<1>1. /\ kinds \in Seq(Kinds) /\ Len(kinds) = 2 /\ kinds[1] = "key" /\ kinds[2] = kind
      /\ 1 .. 2 = {1, 2}
      /\ kind \notin {"key", "any", "noreply"}
  BY DEF Kinds
<1>2. Shapes(line[1], Len(line) - 1) = Endings(kinds)
  OBVIOUS
<1> HIDE DEF kinds
<1>3. OfKind(kind) = {w \in Word : IsField(w, type)}
  BY KindIs
<1>4. /\ args \in Seq(Word) /\ Len(args) \in Nat /\ \A i \in 1 .. Len(args) : args[i] \in Word
      /\ args = <<>> <=> Len(args) = 0
  BY ArgsAre
<1>5. Fits(kinds) <=>
        /\ Len(args) >= 2 /\ ValidateKey(args[1]) /\ IsField(args[2], type)
        /\ (Plain(2) \/ Quiet(2))
  BY <1>1, <1>3, <1>4, KindIs DEF Fits
<1>6. CASE Len(args) >= 2 /\ ValidateKey(args[1]) /\ IsField(args[2], type)
  <2>1. header = Ended(cmd, Drop(args, 2))
    BY <1>4, <1>6 DEF KeyAndNumber
  <2>2. (header.kind # "error") <=> (Plain(2) \/ Quiet(2))
    BY <2>1, EndedLine
  <2>3. Plain(2) \/ Quiet(2) =>
          /\ header.cmd.keys = <<args[1]>> /\ header.cmd.delta = cmd.delta
          /\ header.cmd.exptime = cmd.exptime /\ (header.cmd.noreply <=> Quiet(2))
    BY <2>1, EndedLine
  <2>4. Cardinality({i \in 1 .. Len(kinds) : kinds[i] = "key"}) = 1
    <3>1. {i \in 1 .. Len(kinds) : kinds[i] = "key"} = {1}
      BY <1>1
    <3> QED
      BY <3>1, FS_Singleton
  <2>5. Reads(args[2], Field(args[2], type))
    <3>1. args[2] \in Word /\ type \in {Usize, U32, I64, U64}
      BY <1>4, <1>6
    <3> QED
      BY <1>6, <3>1, FieldReads
  <2>6. Plain(2) \/ Quiet(2) => Says(kind, args[2])
    BY <2>3, <2>5 DEF Says
  <2>7. Plain(2) \/ Quiet(2) => Says("key", args[1])
    BY <2>3, OneKeyIn DEF Says
  <2>8. Plain(2) \/ Quiet(2) => Len(header.cmd.keys) = 1 /\ (header.cmd.noreply <=> Quiet(2))
    BY <2>3, OneKeyIn
  <2>9. Plain(2) \/ Quiet(2) => Takes(kinds)
    BY <1>1, <2>4, <2>6, <2>7, <2>8 DEF Takes
  <2> QED
    BY <1>1, <1>2, <1>5, <1>6, <2>2, <2>9, QuietGrammar
<1>7. CASE ~ (Len(args) >= 2 /\ ValidateKey(args[1]) /\ IsField(args[2], type))
  <2>1. header.kind = "error"
    BY <1>4, <1>7, FailedIs DEF KeyAndNumber
  <2> QED
    BY <1>1, <1>2, <1>5, <1>7, <2>1, QuietGrammar
<1> QED
  BY <1>6, <1>7

LEMMA ArithmeticGrammar ==
  ASSUME TypeOK, line # <<>>, line[1] \in {"incr", "decr"}
  PROVE  ParsesTheGrammar
<1> DEFINE cmd == [NoCommand EXCEPT !.op = line[1], !.keys = <<args[1]>>,
                                    !.delta = Field(args[2], U64)]
<1>1. Shapes(line[1], Len(line) - 1) = Endings(<<"key", "delta">>)
  BY DEF Shapes, Endings, StoreOps
<1>2. header = KeyAndNumber(cmd, U64, "NumericDelta", args)
  BY DEF header, ParseCommandLine, StoreOps, args, ParseArithmetic
<1>3. DOMAIN cmd = Fields /\ cmd.keys = <<args[1]>> /\ cmd.delta = Field(args[2], U64)
  BY DEF NoCommand, Fields
<1> HIDE DEF cmd
<1> QED
  BY <1>1, <1>2, <1>3, KeyAndNumberGrammar

LEMMA TouchGrammar ==
  ASSUME TypeOK, line # <<>>, line[1] = "touch"
  PROVE  ParsesTheGrammar
<1> DEFINE cmd == [NoCommand EXCEPT !.op = "touch", !.keys = <<args[1]>>,
                                    !.exptime = Field(args[2], I64)]
<1>1. Shapes(line[1], Len(line) - 1) = Endings(<<"key", "exptime">>)
  BY DEF Shapes, Endings, StoreOps
<1>2. header = KeyAndNumber(cmd, I64, "BadFormat", args)
  BY DEF header, ParseCommandLine, StoreOps, args, ParseTouch
<1>3. DOMAIN cmd = Fields /\ cmd.keys = <<args[1]>> /\ cmd.exptime = Field(args[2], I64)
  BY DEF NoCommand, Fields
<1> HIDE DEF cmd
<1> QED
  BY <1>1, <1>2, <1>3, KeyAndNumberGrammar

\* version and stats: nothing follows.
LEMMA BareGrammar ==
  ASSUME TypeOK, line # <<>>, line[1] \in {"version", "stats"}
  PROVE  ParsesTheGrammar
<1>1. header = ParseBare(line[1], args)
  BY DEF header, ParseCommandLine, StoreOps, args
<1>2. Len(args) \in Nat /\ (args = <<>> <=> Len(args) = 0)
  BY ArgsAre
<1>3. ShapesOfLine = {s \in {<<>>} : Matches(args, s)}
  BY DEF ShapesOfLine, Shapes, StoreOps, args
<1>4. Matches(args, <<>>) <=> args = <<>>
  BY <1>2 DEF Matches
<1>5. CASE args = <<>>
  <2>1. header = ImmediateHeader([NoCommand EXCEPT !.op = line[1]])
    BY <1>1, <1>5 DEF ParseBare
  <2>2. /\ header.kind # "error" /\ header.cmd.keys = <<>> /\ header.cmd.noreply = FALSE
    BY <2>1 DEF ImmediateHeader, CommandHeader, NoCommand
  <2>3. \A s \in ShapesOfLine : s = <<>>
    BY <1>3
  <2>4. Cardinality({i \in DOMAIN <<>> : <<>>[i] = "key"}) = 0
    <3>1. {i \in DOMAIN <<>> : <<>>[i] = "key"} = {}
      OBVIOUS
    <3> QED
      BY <3>1, FS_EmptySet
  <2>5. ShapesOfLine # {}
    BY <1>3, <1>4, <1>5
  <2>6. Len(<<>>) = 0 /\ DOMAIN <<>> = {}
    OBVIOUS
  <2>7. Told(<<>>)
    BY <2>2, <2>4, <2>6, Zenon DEF Told
  <2> QED
    BY <2>2, <2>3, <2>5, <2>7 DEF ParsesTheGrammar, Told
<1>6. CASE args # <<>>
  <2>1. header.kind = "error"
    BY <1>1, <1>6, FailedIs DEF ParseBare
  <2>2. ShapesOfLine = {}
    BY <1>3, <1>4, <1>6
  <2> QED
    BY <2>1, <2>2 DEF ParsesTheGrammar
<1> QED
  BY <1>5, <1>6

\* Any other word.
LEMMA UnknownGrammar ==
  ASSUME line # <<>>,
         line[1] \notin StoreOps \cup {"get", "gets", "gat", "gats", "delete", "incr", "decr",
                          "touch", "flush_all", "version", "stats", "verbosity", "quit"}
  PROVE  ParsesTheGrammar
<1>1. header = Failed("Unknown")
  BY DEF header, ParseCommandLine
<1>2. ShapesOfLine = {}
  <2>1. Shapes(line[1], Len(line) - 1) = {}
    BY DEF Shapes, StoreOps
  <2> QED
    BY <2>1 DEF ShapesOfLine
<1> QED
  BY <1>1, <1>2, FailedIs DEF ParsesTheGrammar

LEMMA TimesIs ==
  ASSUME NEW n \in Nat, NEW kind
  PROVE  /\ DOMAIN Times(n, kind) = 1 .. n /\ Len(Times(n, kind)) = n
         /\ \A i \in 1 .. n : Times(n, kind)[i] = kind
         /\ Times(n, kind) = <<>> <=> n = 0
<1>1. DOMAIN Times(n, kind) = 1 .. n /\ \A i \in 1 .. n : Times(n, kind)[i] = kind
  BY DEF Times
<1>2. Times(n, kind) \in Seq({kind})
  BY SeqDef DEF Times
<1>3. Len(Times(n, kind)) = n
  BY <1>1, <1>2, LenProperties
<1> QED
  BY <1>1, <1>2, <1>3, EmptySeq

\* quit: whatever follows it is ignored.
LEMMA QuitGrammar ==
  ASSUME TypeOK, line # <<>>, line[1] = "quit"
  PROVE  ParsesTheGrammar
<1> DEFINE shape == Times(Len(args), "any")
<1>1. header.kind = "quit" /\ header.cmd.keys = <<>> /\ header.cmd.noreply = FALSE
  <2>1. header = QuitHeader
    BY DEF header, ParseCommandLine, StoreOps
  <2> QED
    BY <2>1 DEF QuitHeader, CommandHeader, NoCommand
<1>2. /\ args \in Seq(Word) /\ Len(args) \in Nat /\ Len(args) = Len(line) - 1
      /\ DOMAIN args = 1 .. Len(args)
  BY ArgsAre, LenProperties
<1>3. ShapesOfLine = {s \in {shape} : Matches(args, s)}
  BY <1>2 DEF ShapesOfLine, Shapes, StoreOps, args
<1>4. /\ DOMAIN shape = 1 .. Len(args) /\ Len(shape) = Len(args)
      /\ \A i \in 1 .. Len(args) : shape[i] = "any"
  BY <1>2, TimesIs
<1> HIDE DEF shape
<1>5. Matches(args, shape)
  BY <1>2, <1>4 DEF Matches
<1>6. Cardinality({i \in DOMAIN shape : shape[i] = "key"}) = 0
  BY <1>4, NoKeyIn
<1>7. \A i \in DOMAIN shape : Says(shape[i], line[i + 1])
  BY <1>4 DEF Says
<1>8. Told(shape)
  BY <1>1, <1>6, <1>7 DEF Told
<1> QED
  BY <1>1, <1>3, <1>5, <1>8 DEF ParsesTheGrammar, Told

\* flush_all: a noreply where the delay is expected is no delay.
LEMMA FlushGrammar ==
  ASSUME TypeOK, line # <<>>, line[1] = "flush_all"
  PROVE  ParsesTheGrammar
<1> DEFINE kinds == <<"delay">>
           none  == <<>>
<1>1. /\ kinds \in Seq(Kinds) /\ Len(kinds) = 1 /\ kinds[1] = "delay" /\ 1 .. 1 = {1}
      /\ none \in Seq(Kinds) /\ Len(none) = 0 /\ 1 .. 0 = {}
  BY DEF Kinds
<1>2. Shapes(line[1], Len(line) - 1) = Endings(none) \cup Endings(kinds)
  BY DEF Shapes, Endings, StoreOps
<1>3. header = ParseFlushAll(args)
  BY DEF header, ParseCommandLine, StoreOps, args
<1>4. /\ args \in Seq(Word) /\ Len(args) \in Nat /\ \A i \in 1 .. Len(args) : args[i] \in Word
      /\ args = <<>> <=> Len(args) = 0
  BY ArgsAre
<1>5. Drop(args, 0) = args
  BY <1>4, SubSeqFull DEF Drop
<1> HIDE DEF kinds, none
<1>6. Fits(kinds) <=> args # <<>> /\ IsField(args[1], U32) /\ (Plain(1) \/ Quiet(1))
  BY <1>1, <1>4, KindIs DEF Fits
<1>7. Fits(none) <=> Plain(0) \/ Quiet(0)
  BY <1>1, <1>4 DEF Fits
<1>8. /\ Cardinality({i \in 1 .. Len(kinds) : kinds[i] = "key"}) = 0
      /\ Cardinality({i \in 1 .. Len(none) : none[i] = "key"}) = 0
  BY <1>1, NoKeyIn
<1>9. CASE args = <<>> \/ args[1] = "noreply"
  <2> DEFINE cmd == [NoCommand EXCEPT !.op = "flush_all"]
  <2>1. DOMAIN cmd = Fields /\ cmd.keys = <<>>
    BY DEF NoCommand, Fields
  <2>2. header = Ended(cmd, Drop(args, 0))
    BY <1>3, <1>5, <1>9 DEF ParseFlushAll
  <2> HIDE DEF cmd
  <2>3. (header.kind # "error") <=> (Plain(0) \/ Quiet(0))
    BY <2>1, <2>2, EndedLine
  <2>4. Plain(0) \/ Quiet(0) => header.cmd.keys = <<>> /\ (header.cmd.noreply <=> Quiet(0))
    BY <2>1, <2>2, EndedLine
  <2>5. ~ IsField("noreply", U32)
    BY NoreplyAssumption DEF IsField, ParseField
  <2>6. ~ Fits(kinds)
    BY <1>6, <1>9, <2>5
  <2>7. Fits(none) => Takes(none)
    BY <1>1, <1>7, <1>8, <2>4 DEF Takes
  <2> QED
    BY <1>1, <1>2, <1>7, <2>3, <2>6, <2>7, EitherGrammar
<1>10. CASE args # <<>> /\ args[1] # "noreply"
  <2>1. ~ Fits(none)
    <3>1. args # <<"noreply">>
      BY <1>10
    <3> QED
      BY <1>5, <1>7, <1>10, <3>1 DEF Plain, Quiet
  <2>2. CASE IsField(args[1], U32)
    <3> DEFINE cmd == [[NoCommand EXCEPT !.op = "flush_all"] EXCEPT
                         !.delay = ParseField(args[1], U32)]
    <3>1. DOMAIN cmd = Fields /\ cmd.keys = <<>> /\ cmd.delay = ParseField(args[1], U32)
      BY DEF NoCommand, Fields
    <3>2. header = Ended(cmd, Drop(args, 1))
      BY <1>3, <1>10, <2>2, FirstIsRest DEF ParseFlushAll
    <3> HIDE DEF cmd
    <3>3. (header.kind # "error") <=> (Plain(1) \/ Quiet(1))
      BY <3>1, <3>2, EndedLine
    <3>4. Plain(1) \/ Quiet(1) =>
            /\ header.cmd.keys = <<>> /\ header.cmd.delay = ParseField(args[1], U32)
            /\ header.cmd.noreply <=> Quiet(1)
      BY <3>1, <3>2, EndedLine
    <3>5. PICK n \in ParseField(args[1], U32) : Reads(args[1], n)
      BY <2>2 DEF IsField, ParseField
    <3>6. Plain(1) \/ Quiet(1) => Says("delay", args[1])
      BY <3>4, <3>5 DEF Says
    <3>7. Plain(1) \/ Quiet(1) => Takes(kinds)
      BY <1>1, <1>8, <3>4, <3>6 DEF Takes
    <3> QED
      BY <1>1, <1>2, <1>6, <1>10, <2>1, <2>2, <3>3, <3>7, EitherGrammar
  <2>3. CASE ~ IsField(args[1], U32)
    <3>1. header.kind = "error"
      BY <1>3, <1>10, <2>3, FailedIs DEF ParseFlushAll
    <3> QED
      BY <1>1, <1>2, <1>6, <2>1, <2>3, <3>1, EitherGrammar
  <2> QED
    BY <2>2, <2>3
<1> QED
  BY <1>9, <1>10

\* The keys of get and gat: all valid, or the line is refused.
LEMMA RetrieveIs ==
  ASSUME NEW cmd, NEW keys, DOMAIN cmd = Fields
  PROVE  /\ Retrieve(cmd, keys).kind # "error" <=>
              keys # <<>> /\ \A i \in DOMAIN keys : ValidateKey(keys[i])
         /\ Retrieve(cmd, keys).kind # "error" =>
              /\ Retrieve(cmd, keys).cmd.keys = keys
              /\ Retrieve(cmd, keys).cmd.exptime = cmd.exptime
              /\ Retrieve(cmd, keys).cmd.noreply = cmd.noreply
<1> DEFINE full == [cmd EXCEPT !.keys = keys]
<1>1. full.keys = keys /\ full.exptime = cmd.exptime /\ full.noreply = cmd.noreply
  BY DEF Fields
<1>2. CASE keys # <<>> /\ \A i \in DOMAIN keys : ValidateKey(keys[i])
  <2>1. Retrieve(cmd, keys) = ImmediateHeader(full)
    BY <1>2 DEF Retrieve
  <2> HIDE DEF full
  <2>2. ImmediateHeader(full).kind = "immediate" /\ ImmediateHeader(full).cmd = full
    BY DEF ImmediateHeader, CommandHeader
  <2> QED
    BY <1>1, <1>2, <2>1, <2>2
<1>3. CASE ~ (keys # <<>> /\ \A i \in DOMAIN keys : ValidateKey(keys[i]))
  BY <1>3, FailedIs DEF Retrieve
<1> QED
  BY <1>2, <1>3

\* get and gets: one key or more, in the order they come in.
LEMMA GetGrammar ==
  ASSUME TypeOK, line # <<>>, line[1] \in {"get", "gets"}
  PROVE  ParsesTheGrammar
<1> DEFINE shape == Times(Len(args), "key")
           cmd   == [NoCommand EXCEPT !.op = "get", !.with_cas = (line[1] = "gets")]
<1>1. /\ args \in Seq(Word) /\ Len(args) \in Nat /\ Len(args) = Len(line) - 1
      /\ DOMAIN args = 1 .. Len(args) /\ (args = <<>> <=> Len(args) = 0)
      /\ \A i \in 1 .. Len(args) : args[i] \in Word /\ args[i] = line[i + 1]
  BY ArgsAre, ArgsOfLine, LenProperties DEF args
<1>2. DOMAIN cmd = Fields /\ cmd.noreply = FALSE
  BY DEF NoCommand, Fields
<1>3. header = Retrieve(cmd, args)
  BY DEF header, ParseCommandLine, StoreOps, args, ParseGet
<1>4. ShapesOfLine = {s \in {shape} \ {<<>>} : Matches(args, s)}
  BY <1>1 DEF ShapesOfLine, Shapes, StoreOps, args
<1>5. /\ DOMAIN shape = 1 .. Len(args) /\ Len(shape) = Len(args)
      /\ \A i \in 1 .. Len(args) : shape[i] = "key"
      /\ shape = <<>> <=> Len(args) = 0
  BY <1>1, TimesIs
<1> HIDE DEF shape, cmd
<1>6. Matches(args, shape) <=> \A i \in DOMAIN args : ValidateKey(args[i])
  BY <1>1, <1>5, KindIs DEF Matches
<1>7. header.kind # "error" <=> args # <<>> /\ Matches(args, shape)
  BY <1>2, <1>3, <1>6, RetrieveIs
<1>8. ASSUME header.kind # "error" PROVE Told(shape)
  <2>1. header.cmd.keys = args /\ header.cmd.noreply = FALSE
    BY <1>2, <1>3, <1>8, RetrieveIs
  <2>2. {i \in DOMAIN shape : shape[i] = "key"} = 1 .. Len(args)
    BY <1>5
  <2>3. Cardinality(1 .. Len(args)) = Len(args)
    BY <1>1, FS_Interval
  <2>4. \A i \in DOMAIN shape : Says(shape[i], line[i + 1])
    BY <1>1, <1>5, <2>1 DEF Says, Range
  <2> QED
    BY <2>1, <2>2, <2>3, <2>4 DEF Told
<1>9. header.kind # "error" <=> ShapesOfLine # {}
  BY <1>1, <1>4, <1>5, <1>7
<1>10. \A s \in ShapesOfLine : s = shape
  BY <1>4
<1> QED
  BY <1>8, <1>9, <1>10 DEF ParsesTheGrammar, Told

LEMMA ShortGatShape ==
  ASSUME NEW n \in Nat, n < 2
  PROVE  <<"exptime">> \o Times(n - 1, "key") = <<"exptime">>
<1>1. 1 .. n - 1 = 1 .. 0
  OBVIOUS
<1>2. Times(n - 1, "key") = Times(0, "key")
  BY <1>1 DEF Times
<1>3. Times(n - 1, "key") = <<>>
  BY <1>2, TimesIs
<1>4. <<"exptime">> \in Seq(Kinds)
  BY DEF Kinds
<1>5. <<"exptime">> \o <<>> = <<"exptime">>
  BY <1>4, ConcatEmptySeq
<1> QED
  BY <1>3, <1>5, Zenon

LEMMA GatShape ==
  ASSUME NEW n \in Nat, n >= 2
  PROVE  /\ DOMAIN (<<"exptime">> \o Times(n - 1, "key")) = 1 .. n
         /\ Len(<<"exptime">> \o Times(n - 1, "key")) = n
         /\ (<<"exptime">> \o Times(n - 1, "key"))[1] = "exptime"
         /\ \A i \in 2 .. n : (<<"exptime">> \o Times(n - 1, "key"))[i] = "key"
<1> DEFINE keys == Times(n - 1, "key")
<1>1. n - 1 \in Nat /\ n - 1 # 0
  OBVIOUS
<1>2. /\ DOMAIN keys = 1 .. n - 1 /\ Len(keys) = n - 1
      /\ \A i \in 1 .. n - 1 : keys[i] = "key"
  BY <1>1, TimesIs
<1>3. keys \in Seq(Kinds)
  BY <1>1, SeqDef DEF Times, Kinds
<1>4. <<"exptime">> \in Seq(Kinds) /\ Len(<<"exptime">>) = 1 /\ <<"exptime">>[1] = "exptime"
  BY DEF Kinds
<1> HIDE DEF keys
<1>5. /\ <<"exptime">> \o keys \in Seq(Kinds)
      /\ Len(<<"exptime">> \o keys) = 1 + (n - 1)
      /\ \A i \in 1 .. 1 + (n - 1) :
           (<<"exptime">> \o keys)[i] = IF i <= 1 THEN <<"exptime">>[i] ELSE keys[i - 1]
  BY <1>2, <1>3, <1>4, ConcatProperties
<1>6. Len(<<"exptime">> \o keys) = n
  BY <1>5
<1>7. DOMAIN (<<"exptime">> \o keys) = 1 .. n
  BY <1>5, <1>6, LenProperties
<1>8. (<<"exptime">> \o keys)[1] = "exptime"
  BY <1>4, <1>5
<1>9. \A i \in 2 .. n : (<<"exptime">> \o keys)[i] = "key"
  BY <1>2, <1>5
<1> QED
  BY <1>6, <1>7, <1>8, <1>9 DEF keys

\* gat and gats: a time, and then one key or more.
LEMMA GetAndTouchGrammar ==
  ASSUME TypeOK, line # <<>>, line[1] \in {"gat", "gats"}
  PROVE  ParsesTheGrammar
<1> DEFINE shape == <<"exptime">> \o Times(Len(args) - 1, "key")
           cmd   == [NoCommand EXCEPT !.op = "gat", !.with_cas = (line[1] = "gats"),
                                      !.exptime = Field(args[1], I64)]
<1>1. /\ args \in Seq(Word) /\ Len(args) \in Nat /\ Len(args) = Len(line) - 1
      /\ DOMAIN args = 1 .. Len(args) /\ (args = <<>> <=> Len(args) = 0)
      /\ \A i \in 1 .. Len(args) : args[i] \in Word /\ args[i] = line[i + 1]
  BY ArgsAre, ArgsOfLine, LenProperties DEF args
<1>2. DOMAIN cmd = Fields /\ cmd.noreply = FALSE /\ cmd.exptime = Field(args[1], I64)
  BY DEF NoCommand, Fields
<1>3. header = IF args = <<>> THEN Failed("Unknown")
               ELSE IF ~ IsField(args[1], I64) THEN Failed("BadFormat")
               ELSE Retrieve(cmd, Tail(args))
  BY DEF header, ParseCommandLine, StoreOps, args, ParseGetAndTouch
<1>4. ShapesOfLine = {s \in {shape} \ {<<"exptime">>} : Matches(args, s)}
  BY <1>1 DEF ShapesOfLine, Shapes, StoreOps, args
<1>5. Len(args) < 2 => shape = <<"exptime">>
  BY <1>1, ShortGatShape
<1>6. Len(args) >= 2 =>
        /\ DOMAIN shape = 1 .. Len(args) /\ Len(shape) = Len(args)
        /\ shape[1] = "exptime" /\ \A i \in 2 .. Len(args) : shape[i] = "key"
  BY <1>1, GatShape
<1> HIDE DEF shape, cmd
<1>7. CASE Len(args) < 2
  <2>1. ShapesOfLine = {}
    BY <1>4, <1>5, <1>7
  <2>2. header.kind = "error"
    <3>1. args # <<>> => Tail(args) = <<>>
      BY <1>1, <1>7
    <3> QED
      BY <1>2, <1>3, <3>1, FailedIs, RetrieveIs
  <2> QED
    BY <2>1, <2>2 DEF ParsesTheGrammar
<1>8. CASE Len(args) >= 2 /\ ~ IsField(args[1], I64)
  <2>1. 1 \in DOMAIN args
    BY <1>1, <1>8
  <2>2. ~ Matches(args, shape)
    BY <1>6, <1>8, <2>1, KindIs DEF Matches
  <2>3. header.kind = "error"
    BY <1>3, <1>8, FailedIs
  <2> QED
    BY <1>4, <2>2, <2>3 DEF ParsesTheGrammar
<1>9. CASE Len(args) >= 2 /\ IsField(args[1], I64)
  <2> DEFINE keys == Tail(args)
  <2>1. /\ Len(keys) = Len(args) - 1 /\ keys # <<>> /\ DOMAIN keys = 1 .. Len(args) - 1
        /\ \A i \in 1 .. Len(args) - 1 : keys[i] = args[i + 1]
    <3>1. keys \in Seq(Word) /\ Len(keys) = Len(args) - 1
      <4>1. args # <<>>
        BY <1>1, <1>9
      <4> QED
        BY <1>1, <4>1, HeadTailProperties
    <3>2. DOMAIN keys = 1 .. Len(args) - 1
      BY <3>1, LenProperties, Zenon
    <3>3. \A i \in 1 .. Len(args) - 1 : keys[i] = args[i + 1]
      BY <1>1, <1>9
    <3>4. keys # <<>>
      <4>1. Len(keys) # 0
        BY <1>1, <1>9, <3>1
      <4>2. Len(<<>>) = 0
        OBVIOUS
      <4> QED
        BY <4>1, <4>2, Zenon
    <3> QED
      BY <3>1, <3>2, <3>3, <3>4
  <2>2. header = Retrieve(cmd, keys)
    BY <1>1, <1>3, <1>9
  <2> HIDE DEF keys
  <2>3. Matches(args, shape) <=> \A i \in 2 .. Len(args) : ValidateKey(args[i])
    <3>1. \A i \in 1 .. Len(args) : i = 1 \/ i \in 2 .. Len(args)
      BY <1>1
    <3>2. 1 \in 1 .. Len(args) /\ \A i \in 2 .. Len(args) : i \in 1 .. Len(args)
      BY <1>1, <1>9
    <3>3. /\ OfKind("exptime") = {w \in Word : IsField(w, I64)}
          /\ OfKind("key") = {w \in Word : ValidateKey(w)}
      BY KindIs
    <3>4. args[1] \in OfKind("exptime")
      BY <1>1, <1>9, <3>2, <3>3
    <3>5. \A i \in 2 .. Len(args) : args[i] \in OfKind("key") <=> ValidateKey(args[i])
      BY <1>1, <3>2, <3>3
    <3> QED
      BY <1>1, <1>6, <1>9, <3>1, <3>2, <3>4, <3>5 DEF Matches
  <2>4. (\A i \in 2 .. Len(args) : ValidateKey(args[i])) <=>
          \A i \in DOMAIN keys : ValidateKey(keys[i])
    <3>1. ASSUME NEW i \in 2 .. Len(args), \A j \in DOMAIN keys : ValidateKey(keys[j])
          PROVE  ValidateKey(args[i])
      <4>1. i - 1 \in DOMAIN keys /\ keys[i - 1] = args[i]
        BY <1>1, <2>1
      <4> QED
        BY <3>1, <4>1
    <3>2. \A i \in DOMAIN keys : i + 1 \in 2 .. Len(args) /\ keys[i] = args[i + 1]
      BY <1>1, <2>1
    <3> QED
      BY <3>1, <3>2
  <2>5. header.kind # "error" <=> Matches(args, shape)
    BY <1>2, <2>1, <2>2, <2>3, <2>4, RetrieveIs
  <2>6. ASSUME header.kind # "error" PROVE Told(shape)
    <3>1. /\ header.cmd.keys = keys /\ header.cmd.noreply = FALSE
          /\ header.cmd.exptime = Field(args[1], I64)
      BY <1>2, <2>2, <2>6, RetrieveIs
    <3>2. {i \in DOMAIN shape : shape[i] = "key"} = 2 .. Len(args)
      BY <1>1, <1>6, <1>9
    <3>3. Cardinality(2 .. Len(args)) = Len(args) - 1
      BY <1>1, <1>9, FS_Interval
    <3>4. Says("exptime", line[2])
      <4>1. args[1] = line[2] /\ args[1] \in Word
        BY <1>1, <1>9
      <4>2. Reads(args[1], Field(args[1], I64))
        BY <1>9, <4>1, FieldReads
      <4> QED
        BY <3>1, <4>1, <4>2 DEF Says
    <3>5. \A i \in 2 .. Len(args) : Says("key", line[i + 1])
      <4>1. \A i \in 2 .. Len(args) : i - 1 \in DOMAIN keys /\ keys[i - 1] = line[i + 1]
        BY <1>1, <2>1
      <4> QED
        BY <3>1, <4>1 DEF Says, Range
    <3>6. \A i \in DOMAIN shape : Says(shape[i], line[i + 1])
      BY <1>1, <1>6, <1>9, <3>4, <3>5
    <3> QED
      BY <2>1, <3>1, <3>2, <3>3, <3>6 DEF Told
  <2>7. shape # <<"exptime">>
    BY <1>6, <1>9
  <2>8. /\ header.kind # "error" <=> ShapesOfLine # {}
        /\ \A s \in ShapesOfLine : s = shape
    BY <1>4, <2>5, <2>7
  <2> QED
    BY <2>6, <2>8 DEF ParsesTheGrammar, Told
<1> QED
  BY <1>1, <1>7, <1>8, <1>9

-----------------------------------------------------------------------------
(* The lines that store.                                                    *)

\* A length that the grammar admits is one that is read and is not too large.
LEMMA LengthIs ==
  ASSUME NEW w \in Word
  PROVE  IsField(w, 0 .. MaxItemSize) <=> IsField(w, Usize) /\ Field(w, Usize) <= MaxItemSize
<1>1. MaxItemSize \in Nat /\ UsizeModulus \in Nat /\ MaxItemSize + 2 < UsizeModulus
  BY ParserAssumption
<1>2. ASSUME IsField(w, 0 .. MaxItemSize)
      PROVE  IsField(w, Usize) /\ Field(w, Usize) <= MaxItemSize
  <2>1. PICK n \in 0 .. MaxItemSize : Reads(w, n)
    BY <1>2 DEF IsField, ParseField
  <2>2. n \in ParseField(w, Usize) /\ n <= MaxItemSize
    BY <1>1, <2>1 DEF ParseField, Usize
  <2>3. Field(w, Usize) = n
    BY <2>2, FieldIs
  <2> QED
    BY <2>2, <2>3 DEF IsField
<1>3. ASSUME IsField(w, Usize), Field(w, Usize) <= MaxItemSize
      PROVE  IsField(w, 0 .. MaxItemSize)
  <2>1. PICK n \in ParseField(w, Usize) : TRUE
    BY <1>3 DEF IsField
  <2>2. n \in 0 .. MaxItemSize /\ Reads(w, n)
    BY <1>1, <1>3, <2>1, FieldIs DEF ParseField, Usize
  <2> QED
    BY <2>2 DEF IsField, ParseField
<1> QED
  BY <1>2, <1>3

\* Whether noreply is last.
LEMMA LastIs ==
  ASSUME NEW n
  PROVE  /\ ParseNoreply(Drop(args, n)) # {} <=> Plain(n) \/ Quiet(n)
         /\ Plain(n) => The(ParseNoreply(Drop(args, n))) = FALSE /\ ~ Quiet(n)
         /\ Quiet(n) => The(ParseNoreply(Drop(args, n))) = TRUE
<1>1. ParseNoreply(Drop(args, n)) # {} <=> Plain(n) \/ Quiet(n)
  <2>1. \A b \in ParseNoreply(Drop(args, n)) : b = TRUE \/ b = FALSE
    BY NoreplyIs
  <2> QED
    BY <2>1, NoreplyIs DEF Plain, Quiet
<1>2. Plain(n) => The(ParseNoreply(Drop(args, n))) = FALSE
  BY NoreplyIs DEF Plain
<1>3. Quiet(n) => The(ParseNoreply(Drop(args, n))) = TRUE
  BY NoreplyIs DEF Quiet
<1>4. Plain(n) => ~ Quiet(n)
  BY DEF Plain, Quiet
<1> QED
  BY <1>1, <1>2, <1>3, <1>4

\* The fields of a store line of n of them, n being 5 for cas.
Stored(n) ==
  /\ Len(args) >= n
  /\ ValidateKey(args[1]) /\ IsField(args[2], U32) /\ IsField(args[3], I64)
  /\ IsField(args[4], Usize) /\ Field(args[4], Usize) <= MaxItemSize
  /\ n = 5 => IsField(args[5], U64)
  /\ Plain(n) \/ Quiet(n)

\* The checks of parse_store, one after the other, ask for these and no more.
LEMMA StoreChecks ==
  ASSUME TypeOK, line # <<>>, line[1] \in StoreOps,
         NEW n, n = IF line[1] = "cas" THEN 5 ELSE 4
  PROVE  /\ ~ Stored(n) => header.kind = "error"
         /\ Stored(n) =>
              /\ header.kind = "store" /\ header.len = Field(args[4], Usize)
              /\ header.cmd.keys = <<args[1]>>
              /\ header.cmd.flags = Field(args[2], U32)
              /\ header.cmd.exptime = Field(args[3], I64)
              /\ header.cmd.cas = CasToken(line[1], args)
              /\ header.cmd.noreply = The(ParseNoreply(Drop(args, n)))
<1> DEFINE op  == line[1]
           len == Field(args[4], Usize)
<1>1. /\ args \in Seq(Word) /\ Len(args) \in Nat /\ \A i \in 1 .. Len(args) : args[i] \in Word
  BY ArgsAre
<1>2. header = ParseStore(op, args)
  BY StoreLine DEF args
<1>3. n = (IF op = "cas" THEN 5 ELSE 4) /\ n \in {4, 5} /\ (n = 5 <=> op = "cas")
  OBVIOUS
<1>4. AfterStoreFields(op, args) = Drop(args, n)
  BY <1>3 DEF AfterStoreFields
<1> HIDE DEF op
<1>5. Len(args) >= 4 /\ op = "cas" =>
        (CasToken(op, args) # {} <=> Len(args) >= 5 /\ IsField(args[5], U64))
  BY <1>1 DEF CasToken, IsField
<1>6. Len(args) >= 4 =>
        (StoreFieldsOK(op, args) <=>
           /\ ValidateKey(args[1]) /\ IsField(args[2], U32) /\ IsField(args[3], I64)
           /\ op = "cas" => Len(args) >= 5 /\ IsField(args[5], U64)
           /\ Plain(n) \/ Quiet(n))
  BY <1>4, <1>5, LastIs DEF StoreFieldsOK
<1>7. MaxItemSize \in Int /\ (Len(args) >= 4 /\ IsField(args[4], Usize) => len \in Int)
  <2>1. Len(args) >= 4 => args[4] \in Word
    BY <1>1
  <2>2. Len(args) >= 4 /\ IsField(args[4], Usize) => len \in Usize
    BY <2>1, FieldReads
  <2> QED
    BY <2>2, ParserAssumption DEF Usize
<1>8. Stored(n) <=>
        Len(args) >= 4 /\ IsField(args[4], Usize) /\ len <= MaxItemSize /\ StoreFieldsOK(op, args)
  BY <1>1, <1>3, <1>6 DEF Stored
<1> HIDE DEF len
<1>9. CASE Len(args) < 4
  <2>1. header = Failed("Unknown")
    BY <1>1, <1>2, <1>9 DEF ParseStore
  <2> QED
    BY <1>1, <1>8, <1>9, <2>1, FailedIs
<1>10. CASE Len(args) >= 4 /\ ~ IsField(args[4], Usize)
  <2>1. header = Failed("BadFormat")
    BY <1>1, <1>2, <1>10 DEF ParseStore
  <2> QED
    BY <1>8, <1>10, <2>1, FailedIs
<1>11. CASE Len(args) >= 4 /\ IsField(args[4], Usize) /\ len > MaxItemSize
  <2>1. header = Discarding("TooLarge", PayloadAndTerminator(len))
    BY <1>1, <1>2, <1>7, <1>11 DEF ParseStore, len
  <2> QED
    BY <1>7, <1>8, <1>11, <2>1 DEF Discarding
<1>12. CASE Len(args) >= 4 /\ IsField(args[4], Usize) /\ len <= MaxItemSize
              /\ ~ StoreFieldsOK(op, args)
  <2>1. header = Discarding("BadFormat", PayloadAndTerminator(len))
    BY <1>1, <1>2, <1>7, <1>12 DEF ParseStore, len
  <2> QED
    BY <1>8, <1>12, <2>1 DEF Discarding
<1>13. CASE Len(args) >= 4 /\ IsField(args[4], Usize) /\ len <= MaxItemSize
              /\ StoreFieldsOK(op, args)
  <2> DEFINE cmd == [NoCommand EXCEPT !.op = op, !.keys = <<args[1]>>,
                       !.flags = Field(args[2], U32), !.exptime = Field(args[3], I64),
                       !.cas = CasToken(op, args),
                       !.noreply = The(ParseNoreply(Drop(args, n)))]
  <2>1. header = PendingHeader(cmd, len)
    BY <1>1, <1>2, <1>4, <1>7, <1>13 DEF ParseStore, len
  <2>2. /\ cmd.keys = <<args[1]>> /\ cmd.flags = Field(args[2], U32)
        /\ cmd.exptime = Field(args[3], I64) /\ cmd.cas = CasToken(op, args)
        /\ cmd.noreply = The(ParseNoreply(Drop(args, n)))
    BY DEF NoCommand
  <2> HIDE DEF cmd
  <2>3. header.kind = "store" /\ header.len = len /\ header.cmd = cmd
    BY <2>1 DEF PendingHeader, CommandHeader
  <2>4. Stored(n)
    BY <1>8, <1>13
  <2> QED
    BY <2>2, <2>3, <2>4 DEF op, len
<1> QED
  BY <1>1, <1>7, <1>9, <1>10, <1>11, <1>12, <1>13

LEMMA FitsStore ==
  ASSUME TypeOK, line # <<>>, NEW kinds \in Seq(Kinds), NEW n \in {4, 5}, Len(kinds) = n,
         kinds[1] = "key", kinds[2] = "flags", kinds[3] = "exptime", kinds[4] = "length",
         n = 5 => kinds[5] = "token"
  PROVE  Fits(kinds) <=> Stored(n)
<1>1. Len(args) \in Nat /\ \A i \in 1 .. Len(args) : args[i] \in Word
  BY ArgsAre
<1>2. /\ OfKind("key") = {w \in Word : ValidateKey(w)}
      /\ OfKind("flags") = {w \in Word : IsField(w, U32)}
      /\ OfKind("exptime") = {w \in Word : IsField(w, I64)}
      /\ OfKind("length") = {w \in Word : IsField(w, 0 .. MaxItemSize)}
      /\ OfKind("token") = {w \in Word : IsField(w, U64)}
  BY KindIs
<1>3. Len(args) >= n => args[4] \in Word
  BY <1>1
<1>4. Len(args) >= n =>
        (args[4] \in OfKind("length") <=>
           IsField(args[4], Usize) /\ Field(args[4], Usize) <= MaxItemSize)
  BY <1>2, <1>3, LengthIs
<1>5. Len(args) >= n =>
        /\ args[1] \in OfKind("key") <=> ValidateKey(args[1])
        /\ args[2] \in OfKind("flags") <=> IsField(args[2], U32)
        /\ args[3] \in OfKind("exptime") <=> IsField(args[3], I64)
        /\ n = 5 => (args[5] \in OfKind("token") <=> IsField(args[5], U64))
  BY <1>1, <1>2
<1>6. (\A i \in 1 .. n : args[i] \in OfKind(kinds[i])) <=>
        /\ args[1] \in OfKind("key") /\ args[2] \in OfKind("flags")
        /\ args[3] \in OfKind("exptime") /\ args[4] \in OfKind("length")
        /\ n = 5 => args[5] \in OfKind("token")
  <2>1. CASE n = 4
    <3>1. 1 .. 4 = {1, 2, 3, 4}
      OBVIOUS
    <3> QED
      BY <2>1, <3>1
  <2>2. CASE n = 5
    <3>1. 1 .. 5 = {1, 2, 3, 4, 5}
      OBVIOUS
    <3> QED
      BY <2>2, <3>1
  <2> QED
    BY <2>1, <2>2
<1> QED
  BY <1>4, <1>5, <1>6 DEF Fits, Stored

\* set, add, replace, append, prepend and cas.
LEMMA StoreGrammarOf ==
  ASSUME TypeOK, line # <<>>, line[1] \in StoreOps,
         NEW kinds \in Seq(Kinds), NEW n, n = IF line[1] = "cas" THEN 5 ELSE 4,
         Len(kinds) = n,
         kinds[1] = "key", kinds[2] = "flags", kinds[3] = "exptime", kinds[4] = "length",
         n = 5 => kinds[5] = "token",
         Shapes(line[1], Len(line) - 1) = Endings(kinds)
  PROVE  ParsesTheGrammar
<1>1. n \in {4, 5} /\ (n = 5 <=> line[1] = "cas")
  OBVIOUS
<1>2. Fits(kinds) <=> Stored(n)
  BY <1>1, FitsStore
<1>3. \A i \in 1 .. n : i \in {1, 2, 3, 4} \/ (n = 5 /\ i = 5)
  BY <1>1
<1>4. \A i \in 1 .. Len(kinds) : kinds[i] \notin {"any", "noreply"}
  BY <1>3
<1>5. Cardinality({i \in 1 .. Len(kinds) : kinds[i] = "key"}) = 1
  <2>1. {i \in 1 .. Len(kinds) : kinds[i] = "key"} = {1}
    BY <1>1, <1>3
  <2> QED
    BY <2>1, FS_Singleton
<1>6. CASE ~ Stored(n)
  <2>1. header.kind = "error"
    BY <1>6, StoreChecks
  <2> QED
    BY <1>2, <1>4, <1>6, <2>1, QuietGrammar
<1>7. CASE Stored(n)
  <2>1. /\ header.kind = "store" /\ header.len = Field(args[4], Usize)
        /\ header.cmd.keys = <<args[1]>> /\ header.cmd.flags = Field(args[2], U32)
        /\ header.cmd.exptime = Field(args[3], I64)
        /\ header.cmd.cas = CasToken(line[1], args)
        /\ header.cmd.noreply = The(ParseNoreply(Drop(args, n)))
    BY <1>7, StoreChecks
  <2>2. header.kind # "error"
    BY <2>1
  <2>3. /\ Len(args) \in Nat /\ \A i \in 1 .. Len(args) : args[i] \in Word
        /\ Len(args) >= n
    BY <1>7, ArgsAre DEF Stored
  <2>4. /\ args[1] \in Word /\ args[2] \in Word /\ args[3] \in Word /\ args[4] \in Word
        /\ n = 5 => args[5] \in Word
    BY <1>1, <2>3
  <2>5. Says("key", args[1])
    BY <2>1, OneKeyIn DEF Says
  <2>6. Says("flags", args[2])
    BY <1>7, <2>1, <2>4, FieldReads DEF Says, Stored
  <2>7. Says("exptime", args[3])
    BY <1>7, <2>1, <2>4, FieldReads DEF Says, Stored
  <2>8. Says("length", args[4])
    BY <1>7, <2>1, <2>4, FieldReads DEF Says, Stored
  <2>9. n = 5 => Says("token", args[5])
    <3>1. n = 5 => CasToken(line[1], args) = ParseField(args[5], U64)
      BY <1>1, <2>3 DEF CasToken
    <3>2. n = 5 => \E m \in ParseField(args[5], U64) : Reads(args[5], m)
      BY <1>7 DEF Stored, IsField, ParseField
    <3> QED
      BY <2>1, <3>1, <3>2 DEF Says
  <2>10. \A i \in 1 .. Len(kinds) : Says(kinds[i], args[i])
    BY <1>3, <2>5, <2>6, <2>7, <2>8, <2>9
  <2>11. header.cmd.noreply <=> Quiet(n)
    <3>1. Plain(n) \/ Quiet(n)
      BY <1>7 DEF Stored
    <3> QED
      BY <2>1, <3>1, LastIs, Zenon
  <2>12. Len(header.cmd.keys) = 1
    BY <2>1, OneKeyIn
  <2>13. Takes(kinds)
    BY <1>5, <2>10, <2>11, <2>12 DEF Takes
  <2> QED
    BY <1>2, <1>4, <1>7, <2>2, <2>13, QuietGrammar
<1> QED
  BY <1>6, <1>7

LEMMA StoreGrammar ==
  ASSUME TypeOK, line # <<>>, line[1] \in StoreOps
  PROVE  ParsesTheGrammar
<1>1. CASE line[1] = "cas"
  <2> DEFINE kinds == <<"key", "flags", "exptime", "length", "token">>
  <2>1. /\ kinds \in Seq(Kinds) /\ Len(kinds) = 5
        /\ kinds[1] = "key" /\ kinds[2] = "flags" /\ kinds[3] = "exptime"
        /\ kinds[4] = "length" /\ kinds[5] = "token"
    BY DEF Kinds
  <2>2. Shapes(line[1], Len(line) - 1) = Endings(kinds)
    BY <1>1 DEF Shapes, Endings, StoreOps
  <2> HIDE DEF kinds
  <2> QED
    BY <1>1, <2>1, <2>2, StoreGrammarOf
<1>2. CASE line[1] # "cas"
  <2> DEFINE kinds == <<"key", "flags", "exptime", "length">>
  <2>1. /\ kinds \in Seq(Kinds) /\ Len(kinds) = 4
        /\ kinds[1] = "key" /\ kinds[2] = "flags" /\ kinds[3] = "exptime"
        /\ kinds[4] = "length"
    BY DEF Kinds
  <2>2. Shapes(line[1], Len(line) - 1) = Endings(kinds)
    BY <1>2 DEF Shapes, Endings, StoreOps
  <2>3. (4 = IF line[1] = "cas" THEN 5 ELSE 4) /\ 4 # 5
    BY <1>2
  <2> HIDE DEF kinds
  <2> QED
    BY <1>2, <2>1, <2>2, <2>3, StoreGrammarOf
<1> QED
  BY <1>1, <1>2

\* For a vocabulary of any size and lines of any length, the parse_ functions
\* accept the lines of the grammar and no others, and the command says what the
\* line does, field by field.
THEOREM GrammarIsParsed == Spec => []ParsesTheGrammar
<1>1. TypeOK => ParsesTheGrammar
  <2>1. ASSUME line = <<>> PROVE ParsesTheGrammar
    BY <2>1, FailedIs DEF ParsesTheGrammar, ShapesOfLine, header, ParseCommandLine
  <2>2. ASSUME TypeOK, line # <<>> PROVE ParsesTheGrammar
    <3>1. \/ line[1] \in StoreOps
          \/ line[1] \in {"get", "gets"} \/ line[1] \in {"gat", "gats"}
          \/ line[1] = "delete" \/ line[1] \in {"incr", "decr"} \/ line[1] = "touch"
          \/ line[1] = "flush_all" \/ line[1] \in {"version", "stats"}
          \/ line[1] = "verbosity" \/ line[1] = "quit"
          \/ line[1] \notin StoreOps \cup {"get", "gets", "gat", "gats", "delete", "incr",
                "decr", "touch", "flush_all", "version", "stats", "verbosity", "quit"}
      OBVIOUS
    <3> QED
      BY <2>2, <3>1, StoreGrammar, GetGrammar, GetAndTouchGrammar, DeleteGrammar,
         ArithmeticGrammar, TouchGrammar, FlushGrammar, BareGrammar, VerbosityGrammar,
         QuitGrammar, UnknownGrammar
  <2> QED
    BY <2>1, <2>2
<1> QED
  BY <1>1, LinesAreTokens, PTL
=============================================================================
