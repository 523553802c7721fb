------------------------------- MODULE Parser -------------------------------
(***************************************************************************)
(* parser.rs: a command line, as the sequence of its tokens, to a command, *)
(* to the header of a payload that follows, or to an error with the number *)
(* of bytes to discard.                                                    *)
(*                                                                         *)
(* A token is a word.  What the parser asks of one is whether it is this   *)
(* or that keyword, whether it may be a key, and which number of a type it *)
(* is decimal for (the atoi crate).  What an operator may fail to return   *)
(* is a set of at most one element, like a Rust Option.                    *)
(***************************************************************************)
EXTENDS Integers, Sequences, SequencesExt, FiniteSets

CONSTANTS
  Word,           \* the tokens, keywords among them
  KeyLen(_),      \* the bytes of a token
  HasControl(_),  \* whether a token has a control character or a DEL
  Reads(_, _),    \* whether from_radix_10_signed reads all of a token, as a number
  MaxKeyLen,      \* MAX_KEY_LEN
  MaxItemSize,    \* MAX_ITEM_SIZE
  U32, I64, U64,  \* the values of these types
  UsizeModulus    \* the number of values of a usize

Usize == 0 .. UsizeModulus - 1

ASSUME ParserAssumption ==
  /\ UsizeModulus \in Nat /\ MaxItemSize \in Nat
  /\ MaxItemSize + 2 < UsizeModulus
  /\ U32 \subseteq Nat /\ U64 \subseteq Nat /\ I64 \subseteq Int
ASSUME ReadsAssumption ==
  \A w \in Word : \A m, n \in Usize \cup U32 \cup I64 \cup U64 :
    Reads(w, m) /\ Reads(w, n) => m = n

StoreOps == {"set", "add", "replace", "append", "prepend", "cas"}

\* A command, with every argument some command takes.
NoCommand == [op |-> "none", keys |-> <<>>, flags |-> 0, exptime |-> 0,
              delta |-> 0, cas |-> {}, delay |-> {}, with_cas |-> FALSE,
              noreply |-> FALSE]

CommandHeader(kind, cmd, len) ==
  [kind |-> kind, cmd |-> cmd, len |-> len, error |-> "none"]
ImmediateHeader(cmd)    == CommandHeader("immediate", cmd, 0)
PendingHeader(cmd, len) == CommandHeader("store", cmd, len)
QuitHeader              == CommandHeader("quit", NoCommand, 0)

\* ParseError: len is what `discard` asks to skip.
Discarding(error, n) ==
  [kind |-> "error", cmd |-> NoCommand, len |-> n, error |-> error]
Failed(error) == Discarding(error, 0)

-----------------------------------------------------------------------------
(* The parts of a line.                                                     *)

Drop(s, n) == SubSeq(s, n + 1, Len(s))
The(option) == CHOOSE x \in option : TRUE

ValidateKey(word) == KeyLen(word) \in 1 .. MaxKeyLen /\ ~ HasControl(word)
ParseField(word, type) == {n \in type : Reads(word, n)}
IsField(word, type) == ParseField(word, type) # {}
Field(word, type) == The(ParseField(word, type))

\* Mutant: whatever follows noreply is ignored.
NoreplyFirst(rest) ==
  {b \in BOOLEAN : IF b THEN rest # <<>> /\ rest[1] = "noreply" ELSE rest = <<>>}

\* parse_noreply, with its expect_end: what is left of the line.
ParseNoreply(rest) == {b \in BOOLEAN : rest = IF b THEN <<"noreply">> ELSE <<>>}

\* The end of a line whose fields are all read.
Ended(cmd, rest) ==
  IF ParseNoreply(rest) = {} THEN Failed("BadFormat")
  ELSE ImmediateHeader([cmd EXCEPT !.noreply = The(ParseNoreply(rest))])

-----------------------------------------------------------------------------
(* One operator per parse_ function; args are the tokens after the first.   *)

Retrieve(cmd, keys) ==
  IF keys = <<>> THEN Failed("Unknown")
  ELSE IF \E i \in DOMAIN keys : ~ ValidateKey(keys[i]) THEN Failed("BadFormat")
  ELSE ImmediateHeader([cmd EXCEPT !.keys = keys])

ParseGet(op, args) ==
  Retrieve([NoCommand EXCEPT !.op = "get", !.with_cas = (op = "gets")], args)

ParseGetAndTouch(op, args) ==
  IF args = <<>> THEN Failed("Unknown")
  ELSE IF ~ IsField(args[1], I64) THEN Failed("BadFormat")
  ELSE Retrieve([NoCommand EXCEPT !.op = "gat", !.with_cas = (op = "gats"),
                                  !.exptime = Field(args[1], I64)],
                Tail(args))

\* Mutant: the payload is discarded without its terminator.
PayloadAlone(len) == len % UsizeModulus

\* The discard of a refused payload; it wraps, as in a build without overflow checks.
PayloadAndTerminator(len) == (len + 2) % UsizeModulus

CasToken(op, args) ==
  CASE op # "cas"                   -> {}
    [] op = "cas" /\ Len(args) < 5  -> {}
    [] op = "cas" /\ Len(args) >= 5 -> ParseField(args[5], U64)
AfterStoreFields(op, args) == Drop(args, IF op = "cas" THEN 5 ELSE 4)

\* Every error after the length is read is BadFormat with the same discard.
StoreFieldsOK(op, args) ==
  /\ ValidateKey(args[1]) /\ IsField(args[2], U32) /\ IsField(args[3], I64)
  /\ op = "cas" => CasToken(op, args) # {}
  /\ ParseNoreply(AfterStoreFields(op, args)) # {}

ParseStore(op, args) ==
  IF Len(args) < 4 THEN Failed("Unknown")
  ELSE IF ~ IsField(args[4], Usize) THEN Failed("BadFormat")
  ELSE LET len == Field(args[4], Usize)
       IN  CASE len > MaxItemSize ->
                  Discarding("TooLarge", PayloadAndTerminator(len))
             [] len <= MaxItemSize /\ ~ StoreFieldsOK(op, args) ->
                  Discarding("BadFormat", PayloadAndTerminator(len))
             [] len <= MaxItemSize /\ StoreFieldsOK(op, args) ->
                  PendingHeader([NoCommand EXCEPT !.op = op, !.keys = <<args[1]>>,
                             !.flags = Field(args[2], U32),
                             !.exptime = Field(args[3], I64),
                             !.cas = CasToken(op, args),
                             !.noreply = The(ParseNoreply(AfterStoreFields(op, args)))],
                          len)

ParseDelete(args) ==
  IF args = <<>> THEN Failed("Unknown")
  ELSE IF ~ ValidateKey(args[1]) THEN Failed("BadFormat")
  ELSE Ended([NoCommand EXCEPT !.op = "delete", !.keys = <<args[1]>>], Tail(args))

\* parse_arithmetic and parse_touch: a key and a number.
KeyAndNumber(cmd, type, error, args) ==
  IF Len(args) < 2 THEN Failed("Unknown")
  ELSE IF ~ ValidateKey(args[1]) THEN Failed("BadFormat")
  ELSE IF ~ IsField(args[2], type) THEN Failed(error)
  ELSE Ended(cmd, Drop(args, 2))

ParseArithmetic(op, args) ==
  KeyAndNumber([NoCommand EXCEPT !.op = op, !.keys = <<args[1]>>,
                                 !.delta = Field(args[2], U64)],
               U64, "NumericDelta", args)

ParseTouch(args) ==
  KeyAndNumber([NoCommand EXCEPT !.op = "touch", !.keys = <<args[1]>>,
                                 !.exptime = Field(args[2], I64)],
               I64, "BadFormat", args)

ParseFlushAll(args) ==
  LET flush == [NoCommand EXCEPT !.op = "flush_all"]
  IN  CASE args = <<>> \/ args[1] = "noreply" -> Ended(flush, args)
        [] args # <<>> /\ args[1] # "noreply" ->
             IF ~ IsField(args[1], U32) THEN Failed("NumericDelay")
             ELSE Ended([flush EXCEPT !.delay = ParseField(args[1], U32)], Tail(args))

\* parse_version and parse_stats.
ParseBare(op, args) ==
  IF args = <<>> THEN ImmediateHeader([NoCommand EXCEPT !.op = op]) ELSE Failed("BadFormat")

\* The level is read and then ignored by the handler.
ParseVerbosity(args) ==
  IF args = <<>> THEN Failed("Unknown")
  ELSE IF ~ IsField(args[1], U32) THEN Failed("BadFormat")
  ELSE Ended([NoCommand EXCEPT !.op = "verbosity"], Tail(args))

ParseCommandLine(line) ==
  IF line = <<>> THEN Failed("Unknown")
  ELSE LET op   == line[1]
           args == Tail(line)
       IN  CASE op \in {"get", "gets"}     -> ParseGet(op, args)
             [] op \in {"gat", "gats"}     -> ParseGetAndTouch(op, args)
             [] op \in StoreOps            -> ParseStore(op, args)
             [] op = "delete"              -> ParseDelete(args)
             [] op \in {"incr", "decr"}    -> ParseArithmetic(op, args)
             [] op = "touch"               -> ParseTouch(args)
             [] op = "flush_all"           -> ParseFlushAll(args)
             [] op \in {"version", "stats"} -> ParseBare(op, args)
             [] op = "verbosity"           -> ParseVerbosity(args)
             [] op = "quit"                -> QuitHeader
             [] OTHER                      -> Failed("Unknown")
=============================================================================
