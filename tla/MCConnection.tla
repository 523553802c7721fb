---------------------------- MODULE MCConnection ----------------------------
(***************************************************************************)
(* Small instances of Connection: the requests a client may send, with     *)
(* lines of at most four units and payloads of at most two.                *)
(***************************************************************************)
EXTENDS Connection, TLC

\* The lines, by their tokens: key 1, flags 1, exptime 1, and a length.
MCText ==
     "get"        :> <<"get", "1">>
  @@ "delete_q"   :> <<"delete", "1", "noreply">>
  @@ "set"        :> <<"set", "1", "1", "1", "1">>
  @@ "set_q"      :> <<"set", "1", "1", "1", "1", "noreply">>
  @@ "set_empty"  :> <<"set", "1", "1", "1", "0">>
  @@ "set_large"  :> <<"set", "1", "1", "1", "2">>
  @@ "set_badkey" :> <<"set", "\t", "1", "1", "1">>
  @@ "frob"       :> <<"frob">>
  @@ "quit"       :> <<"quit">>

MCWord == UNION {Range(MCText[w]) : w \in DOMAIN MCText} \cup {"?"}
MCNumbers == 0 .. 2
MCKeyLen(w) == 1
MCHasControl(w) == w = "\t"
MCReads(w, n) == <<w, n>> \in {<<"0", 0>>, <<"1", 1>>, <<"2", 2>>}

Ask(bytes, run, answers) == [bytes |-> bytes, run |-> run, answers |-> answers]

GetOf    == [NoCommand EXCEPT !.op = "get", !.keys = <<"1">>]
DeleteOf == [NoCommand EXCEPT !.op = "delete", !.keys = <<"1">>, !.noreply = TRUE]
SetOf    == [NoCommand EXCEPT !.op = "set", !.keys = <<"1">>, !.flags = 1, !.exptime = 1]
Runs1(cmd, data) == {[cmd |-> cmd, data |-> data]}

Get     == Ask(<<"get", CR, LF>>, Runs1(GetOf, <<>>), {"get"})
Set     == Ask(<<"set", CR, LF, "x", CR, LF>>, Runs1(SetOf, <<"x">>), {"set"})
SetNone == Ask(<<"set_empty", LF, CR, LF>>, Runs1(SetOf, <<>>), {"set"})
SetLine == Ask(<<"set_q", CR, LF, LF, CR, LF>>,         \* its payload is a LF
               Runs1([SetOf EXCEPT !.noreply = TRUE], <<LF>>), {})
SetGet  == Ask(<<"set", LF, "get", CR, LF>>, Runs1(SetOf, <<"get">>), {"set"})
DeleteQ == Ask(<<"delete_q", LF>>, Runs1(DeleteOf, <<>>), {})
Large   == Ask(<<"set_large", LF, "get", LF, CR, LF>>, {}, {"TooLarge"})
BadKey  == Ask(<<"set_badkey", LF, LF, CR, LF>>, {}, {"BadFormat"})
Chunk   == Ask(<<"set", LF, "x", "x", LF>>, {}, {"BAD_CHUNK"})
Unknown == Ask(<<"frob", LF>>, {}, {"Unknown"})
\* Whether a line is too long or merely unknown depends on how it arrives.
Long    == Ask(<<"x", "x", "x", "x", "x", LF>>, {}, {"TOO_LONG", "Unknown"})
QuitNow == Ask(<<"quit", CR, LF>>, {}, {})

Framing  == {Get, Set, SetNone, SetLine, SetGet, DeleteQ, Large, BadKey, Chunk,
             Unknown, Long, QuitNow}
Leaving  == {Get, SetLine, SetGet, Large, Chunk, Long}
Quitting == {Get, Set, QuitNow}
NoEnding  == {}
AnyEnding == {"silent", "gone"}
=============================================================================
