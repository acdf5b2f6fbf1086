-------------------------- MODULE MCInboundParsing --------------------------
(***************************************************************************)
(* Sessions for InboundParsing: a line within white space, input longer    *)
(* than the buffer after a line, an escape sequence and a two-byte         *)
(* character, and two of telnet.                                           *)
(***************************************************************************)
EXTENDS InboundParsing

Session(stream, telnet, ansi, bound) ==
    [stream |-> stream, telnet |-> telnet, ansi |-> ansi, calls |-> bound]

\* Options around characters, and back.
NegotiationSession ==
    Session(<<"IAC", "WILL", "LINEMODE", "a", "IAC", "DO", "ECHO", "b">>, TRUE, FALSE, 2)

\* A subnegotiation in front of a line.
SubnegSession ==
    Session(<<"IAC", "SB", "x", "IAC", "SE", "a", "LF">>, TRUE, FALSE, 1)

AllSessions ==
    {Session(<<"sp", "a", "sp", "CR", "LF", "b", "LF">>, FALSE, FALSE, 1),
     Session(<<"LF", "a", "b", "a", "b", "a", "b", "a">>, FALSE, FALSE, 0),
     Session(<<"ESC", "[", "1", "A", "u1", "u2">>, FALSE, TRUE, 2),
     NegotiationSession, SubnegSession}
=============================================================================
