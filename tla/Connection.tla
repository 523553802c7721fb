----------------------------- MODULE Connection -----------------------------
(***************************************************************************)
(* One session: connection.rs and the loop of session.rs, with the client  *)
(* on the other end of the socket.                                         *)
(*                                                                         *)
(* The byte stream is a sequence of units: a word stands for the text of a *)
(* command line (or for a byte of a payload), CR and LF are the bytes that *)
(* frame lines and payloads.                                               *)
(* The client pipelines requests, and a read returns any part of what has  *)
(* arrived, so a line, a payload or its terminator may come in pieces.     *)
(* A line is parsed by Parser.  The store is not part of this module: a    *)
(* command is run, and answered by a response named for the command.       *)
(***************************************************************************)
EXTENDS Parser

CONSTANTS
  Text,         \* for each word that is a line, its tokens
  Requests,     \* what the client may send
  MaxRequests,  \* bound on the requests of a behaviour
  Window,       \* answers the client leaves outstanding before it waits
  Endings,      \* how it may stop half-way: fall silent, or be gone
  MaxLine,      \* MAX_LINE_LEN
  WriterCap     \* responses the BufWriter holds before it writes them out

CR == "\r"
LF == "\n"

\* A request: its units, the command it runs if any, with the payload, and the
\* answers that may be given to it (none with noreply).
Command == [op: STRING, keys: Seq(Word), flags: U32, exptime: I64, delta: U64,
            cas: SUBSET U64, delay: SUBSET U32, with_cas: BOOLEAN, noreply: BOOLEAN]
Call    == [cmd: Command, data: Seq(STRING)]
Request == [bytes: Seq(STRING), run: SUBSET Call, answers: SUBSET STRING]

ASSUME SessionAssumption ==
  /\ Text \in [DOMAIN Text -> Seq(Word)]
  /\ MaxRequests \in Nat /\ Window \in Nat \ {0} /\ Endings \subseteq {"silent", "gone"}
  /\ MaxLine \in Nat \ {0} /\ WriterCap \in Nat \ {0}

-----------------------------------------------------------------------------
(* Lines and requests.                                                      *)

\* Trailing CR and LF are cut off, however many there are.
Trimmed(units) ==
  SubSeq(units, 1, Max({0} \cup {n \in DOMAIN units : units[n] \notin {CR, LF}}))

HeaderOfWord == [w \in DOMAIN Text |-> ParseCommandLine(Text[w])]

\* Units that are no line of a command are one token nobody knows.
HeaderOf(units) ==
  IF Len(units) = 1 /\ units[1] \in DOMAIN Text THEN HeaderOfWord[units[1]]
  ELSE ParseCommandLine(IF units = <<>> THEN <<>> ELSE <<"?">>)

HeaderOfLine(units) == HeaderOf(Trimmed(units))

\* Command::noreply, and handler::handle's response otherwise.
Response(cmd) == IF cmd.noreply THEN {} ELSE {cmd.op}

\* The first line of the units is n long, its LF included.
LineIn(units, n) ==
  /\ n \in DOMAIN units /\ units[n] = LF
  /\ \A i \in 1 .. n - 1 : units[i] # LF

\* A request by itself: a line of n units and what its header announces, to the
\* last unit.  A line beyond MaxLine is one that would be refused anyway: what
\* becomes of it depends on how it arrives.
Asks(r, n, header) ==
  \/ /\ header.kind = "immediate" /\ n <= MaxLine /\ Len(r.bytes) = n
     /\ r.run = {[cmd |-> header.cmd, data |-> <<>>]}
     /\ r.answers = Response(header.cmd)
  \/ /\ header.kind = "store" /\ n <= MaxLine /\ Len(r.bytes) = n + header.len + 2
     /\ IF SubSeq(r.bytes, n + header.len + 1, n + header.len + 2) = <<CR, LF>>
          THEN /\ r.run = {[cmd |-> header.cmd, data |-> SubSeq(r.bytes, n + 1, n + header.len)]}
               /\ r.answers = Response(header.cmd)
          ELSE r.run = {} /\ r.answers = {"BAD_CHUNK"}
  \/ /\ header.kind = "error" /\ n <= MaxLine /\ Len(r.bytes) = n + header.len
     /\ r.run = {} /\ r.answers = {header.error}
  \/ /\ header.kind = "error" /\ n > MaxLine /\ Len(r.bytes) = n /\ header.len = 0
     /\ r.run = {} /\ r.answers = {"TOO_LONG", header.error}
  \/ /\ header.kind = "quit" /\ n <= MaxLine /\ Len(r.bytes) = n
     /\ r.run = {} /\ r.answers = {}

ASSUME RequestsAssumption ==
  \A r \in Requests :
    /\ r \in Request
    /\ \E n \in DOMAIN r.bytes :
         LineIn(r.bytes, n) /\ Asks(r, n, HeaderOfLine(SubSeq(r.bytes, 1, n)))

-----------------------------------------------------------------------------
VARIABLES
  sent,       \* the requests the client has sent
  peer,       \* the client: open, silent for ever, or gone with its end closed
  wire,       \* what has arrived at the socket and is not read
  pc,         \* where read_command is
  waiting,    \* whether it has flushed and awaits input
  buffer,     \* Connection.buffer
  need,       \* bytes of a payload, or of a discard, still to come
  pending,    \* the header of the payload or of the discard under way
  payload,    \* what is read of the payload
  out,        \* the responses in Connection.writer
  delivered,  \* the responses that have reached the socket
  executed    \* the commands handled, in order

clientVars == <<sent, peer>>
body       == <<need, pending, payload>>
responses  == <<out, delivered>>
session    == <<pc, waiting, buffer, body, responses, executed>>
vars       == <<clientVars, wire, session>>

NoHeader == CommandHeader("none", NoCommand, 0)

Init ==
  /\ sent = <<>> /\ peer = "open" /\ wire = <<>>
  /\ pc = "line" /\ waiting = FALSE /\ buffer = <<>>
  /\ need = 0 /\ pending = NoHeader /\ payload = <<>>
  /\ out = <<>> /\ delivered = <<>> /\ executed = <<>>

-----------------------------------------------------------------------------
(* The client.                                                              *)

Runs    == [i \in DOMAIN sent |-> sent[i].run]
Answers == [i \in DOMAIN sent |-> sent[i].answers]

\* The requests with anything to choose from, and how many there are up to i.
Choosing(choices) == {i \in DOMAIN choices : choices[i] # {}}
Rank(i, indices) == Cardinality({j \in indices : j <= i})

Answerable == Cardinality(Choosing(Answers))

Send(r) ==
  /\ peer = "open" /\ Len(sent) < MaxRequests
  /\ Answerable - Len(delivered) < Window
  /\ sent' = Append(sent, r)
  /\ wire' = wire \o r.bytes
  /\ UNCHANGED <<peer, session>>

\* A request that is cut off is not run.
CutOff(r, ending) ==
  [bytes |-> r.bytes, run |-> {}, answers |-> IF ending = "silent" THEN {} ELSE r.answers]

\* The client stops, perhaps in the middle of a request: it sends nothing more,
\* or it closes its end.
Stop ==
  /\ peer = "open"
  /\ \E e \in Endings :
       /\ peer' = e
       /\ \/ UNCHANGED <<sent, wire>>
          \/ \E r \in Requests : \E n \in 1 .. Len(r.bytes) - 1 :
               /\ sent' = Append(sent, CutOff(r, e))
               /\ wire' = wire \o SubSeq(r.bytes, 1, n)
  /\ UNCHANGED session

-----------------------------------------------------------------------------
(* Reading and writing.                                                     *)

HasLine == LF \in Range(buffer)
Least(m, n) == IF m <= n THEN m ELSE n

WriteUnbounded(choice) == \* Mutant: the writer never writes out by itself.
  \E r \in choice : UNCHANGED delivered /\ out' = Append(out, r)

\* write_response into the BufWriter, which writes out what it holds when the
\* next response does not fit.
Write(choice) ==
  \E r \in choice :
    IF Len(out) = WriterCap
      THEN delivered' = delivered \o out /\ out' = <<r>>
      ELSE UNCHANGED delivered /\ out' = Append(out, r)

WriteIfAny(choice) ==
  IF choice = {} THEN UNCHANGED responses ELSE Write(choice)

\* The places where the session flushes the writer and then reads.
NeedsInput ==
  \/ pc = "line" /\ ~ HasLine /\ Len(buffer) < MaxLine
  \/ pc = "payload" /\ (need > 0 \/ Len(buffer) < 2)
  \/ pc = "discard" /\ need > 0

FlushNothing == \* Mutant: the writer is not flushed before a read.
  /\ NeedsInput /\ ~ waiting
  /\ waiting' = TRUE
  /\ UNCHANGED <<clientVars, wire, pc, buffer, body, responses, executed>>

Flush ==
  /\ NeedsInput /\ ~ waiting
  /\ waiting' = TRUE
  /\ delivered' = delivered \o out /\ out' = <<>>
  /\ UNCHANGED <<clientVars, wire, pc, buffer, body, executed>>

\* Input or output on a socket whose peer is gone may fail: process returns
\* the error and the connection is dropped.
Fail ==
  /\ peer = "gone" /\ pc # "closed"
  /\ NeedsInput \/ pc = "skipline" \/ Len(out) = WriterCap
  /\ pc' = "closed"
  /\ UNCHANGED <<clientVars, wire, waiting, buffer, body, responses, executed>>

\* fill_buffer's read, for a line or for the two bytes after a payload.
Fill ==
  /\ waiting /\ (pc = "line" \/ (pc = "payload" /\ need = 0))
  /\ \E n \in 1 .. Len(wire) :
       /\ buffer' = buffer \o SubSeq(wire, 1, n)
       /\ wire' = Drop(wire, n)
  /\ waiting' = FALSE
  /\ UNCHANGED <<clientVars, pc, body, responses, executed>>

\* read_payload and discard_exact read past the buffer, `need` bytes at most.
ReadDirect ==
  /\ waiting /\ pc \in {"payload", "discard"}
  /\ \E n \in 1 .. Least(need, Len(wire)) :
       /\ need' = need - n /\ wire' = Drop(wire, n)
       /\ payload' = IF pc = "payload" THEN payload \o SubSeq(wire, 1, n) ELSE payload
  /\ waiting' = FALSE
  /\ UNCHANGED <<clientVars, pc, buffer, pending, responses, executed>>

\* Mutant: the end of the input in the middle of a payload goes unnoticed.
EndOfLineOnly ==
  /\ waiting /\ peer = "gone" /\ wire = <<>>
  /\ waiting' = FALSE
  /\ IF pc = "line" THEN pc' = "closed" /\ UNCHANGED need
                    ELSE need' = 0 /\ UNCHANGED pc
  /\ UNCHANGED <<clientVars, wire, buffer, pending, payload, responses, executed>>

\* A read of 0 bytes: the end of the session, and of a discard.
EndOfInput ==
  /\ waiting /\ peer = "gone" /\ wire = <<>>
  /\ waiting' = FALSE
  /\ IF pc = "discard" THEN need' = 0 /\ UNCHANGED pc
                       ELSE pc' = "closed" /\ UNCHANGED need
  /\ UNCHANGED <<clientVars, wire, buffer, pending, payload, responses, executed>>

-----------------------------------------------------------------------------
(* read_command and the loop of session::process.                           *)

Line == SubSeq(buffer, 1, Min({n \in DOMAIN buffer : buffer[n] = LF}))
AfterLine == Drop(buffer, Len(Line))

\* The header of the line that read_line returns, if it has one.
NextHeader == IF pc = "line" /\ HasLine THEN {HeaderOfLine(Line)} ELSE {}

\* The task is between two reads: nothing it does here awaits the client.
Proceed == waiting' = FALSE /\ UNCHANGED <<clientVars, wire>>

Execute(cmd, data) ==
  /\ executed' = Append(executed, [cmd |-> cmd, data |-> data])
  /\ WriteIfAny(Response(cmd))

RunImmediate(header) ==
  /\ header.kind = "immediate"
  /\ buffer' = AfterLine
  /\ Execute(header.cmd, <<>>)
  /\ Proceed /\ UNCHANGED <<pc, body>>

\* Mutant: the part of the payload that was in the buffer stays there.
StoreHeaderPeek(header) ==
  /\ header.kind = "store"
  /\ buffer' = AfterLine
  /\ payload' = SubSeq(AfterLine, 1, Least(Len(AfterLine), header.len))
  /\ need' = header.len - Len(payload')
  /\ pc' = "payload" /\ pending' = header
  /\ Proceed /\ UNCHANGED <<responses, executed>>

\* read_payload first takes what the buffer holds of the payload.
StoreHeader(header) ==
  /\ header.kind = "store"
  /\ LET n == Least(Len(AfterLine), header.len)
     IN  /\ buffer' = Drop(AfterLine, n) /\ need' = header.len - n
         /\ payload' = SubSeq(AfterLine, 1, n)
  /\ pc' = "payload" /\ pending' = header
  /\ Proceed /\ UNCHANGED <<responses, executed>>

\* The two bytes after the payload are taken whatever they are.
Terminator ==
  /\ pc = "payload" /\ need = 0 /\ Len(buffer) >= 2
  /\ buffer' = Drop(buffer, 2)
  /\ IF SubSeq(buffer, 1, 2) = <<CR, LF>>
       THEN Execute(pending.cmd, payload)
       ELSE Write({"BAD_CHUNK"}) /\ UNCHANGED executed
  /\ pc' = "line" /\ pending' = NoHeader /\ payload' = <<>>
  /\ Proceed /\ UNCHANGED need

\* An error without a discard.
Erroneous(header) ==
  /\ header.kind = "error" /\ header.len = 0
  /\ buffer' = AfterLine
  /\ Write({header.error})
  /\ Proceed /\ UNCHANGED <<pc, body, executed>>

\* Mutant: what the buffer holds is not counted against the discard.
SkipHeaderAll(header) ==
  /\ header.kind = "error" /\ header.len > 0
  /\ buffer' = Drop(AfterLine, Least(Len(AfterLine), header.len))
  /\ need' = header.len
  /\ pc' = "discard" /\ pending' = header
  /\ Proceed /\ UNCHANGED <<payload, responses, executed>>

\* A store line refused for its key, a number or its size: discard_exact takes
\* the payload and its terminator off the stream before the error is written.
SkipHeader(header) ==
  /\ header.kind = "error" /\ header.len > 0
  /\ LET n == Least(Len(AfterLine), header.len)
     IN  buffer' = Drop(AfterLine, n) /\ need' = header.len - n
  /\ pc' = "discard" /\ pending' = header
  /\ Proceed /\ UNCHANGED <<payload, responses, executed>>

DiscardDone ==
  /\ pc = "discard" /\ need = 0
  /\ Write({pending.error})
  /\ pc' = "line" /\ pending' = NoHeader
  /\ Proceed /\ UNCHANGED <<buffer, need, payload, executed>>

\* read_command returns None and the Connection is dropped, its BufWriter with
\* whatever that still holds.
Quit(header) ==
  /\ header.kind = "quit"
  /\ buffer' = AfterLine
  /\ pc' = "closed"
  /\ Proceed /\ UNCHANGED <<body, responses, executed>>

TooLong ==
  /\ pc = "line" /\ ~ HasLine /\ Len(buffer) >= MaxLine
  /\ pc' = "skipline"
  /\ Proceed /\ UNCHANGED <<buffer, body, responses, executed>>

\* Mutant: the whole buffer is dropped with the line.
SkipLineAll ==
  /\ pc = "skipline"
  /\ \/ /\ HasLine
        /\ buffer' = <<>> /\ pc' = "line"
        /\ Write({"TOO_LONG"})
        /\ UNCHANGED wire
     \/ /\ ~ HasLine
        /\ \E n \in 1 .. Len(wire) : buffer' = SubSeq(wire, 1, n) /\ wire' = Drop(wire, n)
        /\ UNCHANGED <<pc, responses>>
  /\ UNCHANGED <<clientVars, waiting, body, executed>>

\* discard_until_newline: the line ends in the buffer, or the buffer is cleared
\* and read again, without a flush, until the line or the input ends.
SkipLine ==
  /\ pc = "skipline"
  /\ \/ /\ HasLine
        /\ buffer' = AfterLine /\ pc' = "line"
        /\ Write({"TOO_LONG"})
        /\ UNCHANGED wire
     \/ /\ ~ HasLine
        /\ \E n \in 1 .. Len(wire) : buffer' = SubSeq(wire, 1, n) /\ wire' = Drop(wire, n)
        /\ UNCHANGED <<pc, responses>>
     \/ /\ ~ HasLine /\ peer = "gone" /\ wire = <<>>
        /\ buffer' = <<>> /\ pc' = "line"
        /\ Write({"TOO_LONG"})
        /\ UNCHANGED wire
  /\ UNCHANGED <<clientVars, waiting, body, executed>>

Session ==
  \/ Flush \/ Fail \/ Fill \/ ReadDirect \/ EndOfInput
  \/ \E header \in NextHeader :
       \/ RunImmediate(header) \/ StoreHeader(header) \/ Erroneous(header)
       \/ SkipHeader(header) \/ Quit(header)
  \/ Terminator \/ DiscardDone \/ TooLong \/ SkipLine

\* discard_until_newline awaits the end of a line that never comes.
StuckInLine == pc = "skipline" /\ ~ HasLine /\ wire = <<>> /\ peer = "silent"

\* The session is over, or awaits a client that has sent all it may.
Rest ==
  /\ \/ pc = "closed"
     \/ waiting /\ wire = <<>> /\ peer = "open" /\ Len(sent) = MaxRequests
     \/ waiting /\ wire = <<>> /\ peer = "silent"
     \/ StuckInLine
  /\ UNCHANGED vars

Next == (\E r \in Requests : Send(r)) \/ Stop \/ Session \/ Rest

Spec == Init /\ [][Next]_vars

\* The session is a task of a runtime that polls what is ready.  The client is
\* under no obligation.
FairSpec == Spec /\ WF_vars(Session)

-----------------------------------------------------------------------------
(* Properties.                                                              *)

TypeOK ==
  /\ sent \in Seq(Request) /\ peer \in {"open", "silent", "gone"}
  /\ wire \in Seq(STRING) /\ buffer \in Seq(STRING)
  /\ pc \in {"line", "payload", "discard", "skipline", "closed"}
  /\ waiting \in BOOLEAN
  /\ need \in 0 .. pending.len /\ Len(payload) <= pending.len
  /\ payload \in Seq(STRING)
  /\ out \in Seq(STRING) /\ Len(out) <= WriterCap
  /\ delivered \in Seq(STRING) /\ executed \in Seq(Call)

\* The n-th of a sequence is a choice of the n-th request that has any.
InOrder(seq, choices) ==
  \A n \in DOMAIN seq : \E i \in DOMAIN choices :
    seq[n] \in choices[i] /\ n = Rank(i, Choosing(choices))

\* However the stream is cut into reads, and whatever was refused before, the
\* commands run are those of the requests, whole and in order: a payload is
\* never taken for a command, nor a request that was cut off for a whole one.
ExecutedInOrder == InOrder(executed, Runs)

\* Every response answers the request it is taken for: responses come in the
\* order of the requests, one for each that wants one.
AnsweredInOrder == InOrder(delivered \o out, Answers)

\* A request that wants an answer gets it although the client sends nothing
\* more until it has it: no response waits in the writer for the next request.
\* The exception is a client that falls silent within a line that is too long
\* (connection.rs:242 reads without a flush).
Answered ==
  \A n \in 1 .. MaxRequests :
    Answerable >= n ~> (Len(delivered) >= n \/ pc = "closed" \/ StuckInLine)

\* The session as its client may think of it: reads, buffers and flushes do not
\* show, and a payload is taken whole or not at all.
Framed == INSTANCE Frames
            WITH stream  <- IF pc = "closed" THEN <<>> ELSE payload \o buffer \o wire,
                 ended   <- peer = "gone",
                 mode    <- pc,
                 header  <- IF pc = "closed" THEN NoHeader ELSE pending,
                 left    <- IF pc = "discard" THEN need ELSE 0,
                 written <- delivered \o out

\* Wherever the reads cut the stream, what is run, answered and skipped is what
\* Frames makes of the stream as a whole.
HandlesFrames == Framed!Spec

\* When the client goes, the session ends.
SessionEnds == peer = "gone" ~> pc = "closed"

\* commands.rs:85, "Response written back to the client for a given `Command`":
\* a session the client has not cut short has written back every response.
\* The code refutes this (see README).
ResponsesWrittenBack == pc = "closed" /\ peer = "open" => out = <<>>
=============================================================================
