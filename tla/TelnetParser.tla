---------------------------- MODULE TelnetParser ----------------------------
(***************************************************************************)
(* comm_telnet_process_inbound and comm_process_telnet_options             *)
(* (src/lib/comm/telnet.cpp).  A byte is a string: the command bytes have  *)
(* the names of RFC 854, every other string is data or an option.          *)
(***************************************************************************)
EXTENDS Naturals, Sequences, SequencesExt

CONSTANT SubnegCap      \* sizeof(comm_telnet_negotiation_t::subopt_buf)

ASSUME SubnegAssumption == SubnegCap \in Nat \ {0}

\* S_TELNET_DATA, S_TELNET_IAC and so on.
TelnetStates ==
    {"DATA", "IAC", "WILL", "WONT", "DO", "DONT", "SUBNEG", "SUBNEG_IAC"}

\* One call: the parser state it was given, nothing consumed, an empty
\* comm_telnet_negotiation_t (each option holds its latest verb).
TelnetStart(state) ==
    [state |-> state, used |-> 0, dest |-> <<>>, sb |-> <<>>,
     LINEMODE |-> "none", ECHO |-> "none", done |-> FALSE]

\* A byte of a subnegotiation, dropped when subopt_buf is full.
Buffered(p, b) ==
    IF Len(p.sb) < SubnegCap THEN [p EXCEPT !.sb = Append(@, b)] ELSE p

\* WILL, WONT, DO or DONT with its option; only two options are looked at later.
Negotiated(p, option) ==
    CASE option = "LINEMODE" /\ p.state \in {"WILL", "WONT"} ->
            [p EXCEPT !.LINEMODE = p.state, !.state = "DATA"]
      [] option = "ECHO" /\ p.state \in {"DO", "DONT"} ->
            [p EXCEPT !.ECHO = p.state, !.state = "DATA"]
      [] OTHER -> [p EXCEPT !.state = "DATA"]

\* One iteration of the loop.  The call returns at the end of a subnegotiation.
TelnetByte(given, b) ==
    LET p == [given EXCEPT !.used = @ + 1] IN
    IF given.done THEN given ELSE
    CASE p.state = "DATA" ->
            IF b = "IAC" THEN [p EXCEPT !.state = "IAC"]
                         ELSE [p EXCEPT !.dest = Append(@, b)]
      [] p.state = "IAC" ->
            CASE b \in {"WILL", "WONT", "DO", "DONT"} -> [p EXCEPT !.state = b]
              [] b = "SB" -> [p EXCEPT !.state = "SUBNEG"]
              [] b = "IAC" -> [p EXCEPT !.state = "DATA", !.dest = Append(@, b)]
              [] OTHER -> [p EXCEPT !.state = "DATA"]
      [] p.state = "SUBNEG" ->
            IF b = "IAC" THEN [p EXCEPT !.state = "SUBNEG_IAC"] ELSE Buffered(p, b)
      [] p.state = "SUBNEG_IAC" ->
            CASE b = "SE" -> [p EXCEPT !.state = "DATA", !.done = TRUE]
              [] b = "IAC" -> Buffered([p EXCEPT !.state = "SUBNEG"], b)
              [] OTHER -> [p EXCEPT !.state = "SUBNEG"]
      [] OTHER -> Negotiated(p, b)

\* Mutant: the parser state of an earlier read is forgotten.
ForgetfulProcessInbound(state, src) ==
    FoldLeft(TelnetByte, TelnetStart("DATA"), src)

\* comm_telnet_process_inbound: the state of an earlier read, the bytes of this one.
ProcessInbound(state, src) == FoldLeft(TelnetByte, TelnetStart(state), src)

\* The bytes of a stream that is not telnet, or whose parsing is paused.
Copied(state, src) ==
    [TelnetStart(state) EXCEPT !.used = Len(src), !.dest = src]

-----------------------------------------------------------------------------
(* Reference: the payload of a stream that is decoded in one piece.        *)

PayloadByte(p, b) == [TelnetByte([p EXCEPT !.sb = <<>>], b) EXCEPT !.done = FALSE]

Parsed(state, src) == FoldLeft(PayloadByte, TelnetStart(state), src)

Payload(state, src) == Parsed(state, src).dest
=============================================================================
