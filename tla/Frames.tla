------------------------------- MODULE Frames -------------------------------
(***************************************************************************)
(* What a session makes of its client's stream, as if all that has arrived *)
(* were at hand, and as if a response were out once it is written: a line  *)
(* after the other, each with the payload or the discard that belongs to   *)
(* it.  There is no buffer here, no read and no flush.                     *)
(***************************************************************************)
EXTENDS Naturals, Sequences, SequencesExt

CONSTANTS
  CR, LF,
  MaxLine,
  NoHeader,
  HeaderOfLine(_),  \* what the parser makes of a line
  Response(_)       \* the response to a command, if it wants one

VARIABLES
  stream,    \* what has arrived and is not handled
  ended,     \* whether the client has closed its end
  mode,      \* what the session takes next off the stream
  header,    \* of the payload or the discard
  left,      \* units of the discard still to come
  written, executed

vars == <<stream, ended, mode, header, left, written, executed>>

Init ==
  /\ stream = <<>> /\ ended = FALSE
  /\ mode = "line" /\ header = NoHeader /\ left = 0
  /\ written = <<>> /\ executed = <<>>

After(n) == SubSeq(stream, n + 1, Len(stream))
NoLineIn(n) == \A i \in 1 .. n : stream[i] # LF
EndsAt(n) == stream[n] = LF /\ NoLineIn(n - 1)

Answer(response) == written' = Append(written, response)

Run(cmd, data) ==
  /\ executed' = Append(executed, [cmd |-> cmd, data |-> data])
  /\ \/ Response(cmd) = {} /\ UNCHANGED written
     \/ \E r \in Response(cmd) : Answer(r)

\* The session is over, and what it has not handled is lost.
Over ==
  /\ mode' = "closed"
  /\ stream' = <<>> /\ header' = NoHeader /\ left' = 0
  /\ UNCHANGED <<ended, written, executed>>

-----------------------------------------------------------------------------
Arrive ==
  /\ ~ ended
  /\ IsPrefix(stream, stream') /\ ended' \in BOOLEAN
  /\ UNCHANGED <<mode, header, left, written, executed>>

Hangup == ended /\ mode # "closed" /\ Over

-----------------------------------------------------------------------------
(* A line of n units, its LF included.                                      *)

HeaderAt(n) == HeaderOfLine(SubSeq(stream, 1, n))

Immediate(n) ==
  /\ HeaderAt(n).kind = "immediate"
  /\ stream' = After(n)
  /\ Run(HeaderAt(n).cmd, <<>>)
  /\ UNCHANGED <<ended, mode, header, left>>

Store(n) ==
  /\ HeaderAt(n).kind = "store"
  /\ stream' = After(n)
  /\ mode' = "payload" /\ header' = HeaderAt(n)
  /\ UNCHANGED <<ended, left, written, executed>>

Refuse(n) ==
  /\ HeaderAt(n).kind = "error" /\ HeaderAt(n).len = 0
  /\ stream' = After(n)
  /\ Answer(HeaderAt(n).error)
  /\ UNCHANGED <<ended, mode, header, left, executed>>

\* The discard may begin at once with what is there of it.
RefuseAndDiscard(n) ==
  /\ HeaderAt(n).kind = "error" /\ HeaderAt(n).len > 0
  /\ \E k \in 0 .. Len(stream) - n :
       /\ k <= HeaderAt(n).len
       /\ stream' = After(n + k) /\ left' = HeaderAt(n).len - k
  /\ mode' = "discard" /\ header' = HeaderAt(n)
  /\ UNCHANGED <<ended, written, executed>>

Quit(n) == HeaderAt(n).kind = "quit" /\ Over

TakeLine ==
  /\ mode = "line"
  /\ \E n \in 1 .. Len(stream) :
       /\ EndsAt(n)
       /\ Immediate(n) \/ Store(n) \/ Refuse(n) \/ RefuseAndDiscard(n) \/ Quit(n)

-----------------------------------------------------------------------------
(* What belongs to a line.                                                  *)

Back == mode' = "line" /\ header' = NoHeader

\* A payload is taken whole, with its terminator, or not at all.
TakePayload ==
  /\ mode = "payload" /\ header.len + 2 <= Len(stream)
  /\ stream' = After(header.len + 2)
  /\ \/ /\ SubSeq(stream, header.len + 1, header.len + 2) = <<CR, LF>>
        /\ Run(header.cmd, SubSeq(stream, 1, header.len))
     \/ /\ SubSeq(stream, header.len + 1, header.len + 2) # <<CR, LF>>
        /\ Answer("BAD_CHUNK") /\ UNCHANGED executed
  /\ Back /\ UNCHANGED <<ended, left>>

Discard ==
  /\ mode = "discard"
  /\ \/ \E n \in 1 .. Len(stream) :
          n <= left /\ stream' = After(n) /\ left' = left - n
     \/ ended /\ stream = <<>> /\ left' = 0 /\ UNCHANGED stream
  /\ UNCHANGED <<ended, mode, header, written, executed>>

Discarded ==
  /\ mode = "discard" /\ left = 0
  /\ Answer(header.error)
  /\ Back /\ UNCHANGED <<stream, ended, left, executed>>

\* A line with no end within MaxLine units may be refused for that, and is then
\* skipped to its end.
TooLong ==
  /\ mode = "line" /\ MaxLine <= Len(stream) /\ NoLineIn(MaxLine)
  /\ mode' = "skipline"
  /\ UNCHANGED <<stream, ended, header, left, written, executed>>

Skip ==
  /\ mode = "skipline"
  /\ \E n \in 1 .. Len(stream) : NoLineIn(n) /\ stream' = After(n)
  /\ UNCHANGED <<ended, mode, header, left, written, executed>>

Skipped ==
  /\ mode = "skipline"
  /\ \/ \E n \in 1 .. Len(stream) : EndsAt(n) /\ stream' = After(n)
     \/ ended /\ NoLineIn(Len(stream)) /\ stream' = <<>>
  /\ Answer("TOO_LONG")
  /\ Back /\ UNCHANGED <<ended, left, executed>>

Handle ==
  \/ Hangup \/ TakeLine \/ TakePayload
  \/ Discard \/ Discarded \/ TooLong \/ Skip \/ Skipped

Next == Arrive \/ Handle

Spec == Init /\ [][Next]_vars
=============================================================================
