------------------------- MODULE MCWebSocketSession -------------------------
EXTENDS WebSocketSession

Session(request, frames, tls) ==
    [request |-> request, frames |-> frames, tls |-> tls]

\* Two messages, one of them in fragments; a Close of the peer; a control frame
\* between fragments; a subnegotiation and a refused frame; a refused upgrade.
AllSessions ==
    { Session("good", <<"first", "last", "msg">>, FALSE),
      Session("good", <<"close">>, TRUE),
      Session("good", <<"first", "ping", "last">>, FALSE),
      Session("telnet", <<"subneg", "header">>, FALSE),
      Session("bad", <<>>, TRUE) }

\* The client's first message comes with its request.
EarlyMessage == {Session("good", <<"msg">>, FALSE)}
=============================================================================
