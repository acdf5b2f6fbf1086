------------------------ MODULE InboundParsingProofs ------------------------
(***************************************************************************)
(* Theorems about InboundParsing: the telnet parser and the two framing    *)
(* searches on input of any length, the types and bounds of the slot, what *)
(* the client was told about its input mode, one-shot character input, the *)
(* idle prompt, and that the messages are the payload, cut in order.       *)
(***************************************************************************)
EXTENDS InboundParsing, FoldTheorems, SequenceTheorems

-----------------------------------------------------------------------------
(* The telnet parser.                                                      *)

\* Any string is a byte; NUL is named because the model writes it itself and
\* the provers do not take a string constant for a member of STRING.
Bytes == STRING \cup {"NUL"}

\* What comm_telnet_process_inbound keeps between two bytes: it stores no more
\* than it has consumed, and no more of a subnegotiation than subopt_buf holds.
Parsers ==
    {p \in [state : TelnetStates, used : Nat, dest : Seq(Bytes), sb : Seq(Bytes),
            LINEMODE : {"none", "WILL", "WONT"}, ECHO : {"none", "DO", "DONT"},
            done : BOOLEAN] :
        Len(p.dest) <= p.used /\ Len(p.sb) <= SubnegCap}

\* The fields of a parser state one by one.
LEMMA ParserFields ==
    ASSUME NEW p
    PROVE  p \in Parsers <=>
              /\ p = [state |-> p.state, used |-> p.used, dest |-> p.dest, sb |-> p.sb,
                      LINEMODE |-> p.LINEMODE, ECHO |-> p.ECHO, done |-> p.done]
              /\ p.state \in TelnetStates /\ p.used \in Nat
              /\ p.dest \in Seq(Bytes) /\ Len(p.dest) <= p.used
              /\ p.sb \in Seq(Bytes) /\ Len(p.sb) <= SubnegCap
              /\ p.LINEMODE \in {"none", "WILL", "WONT"} /\ p.ECHO \in {"none", "DO", "DONT"}
              /\ p.done \in BOOLEAN
BY DEF Parsers

\* A byte moves the parser to one of its states and is counted at most once.
LEMMA TelnetByteType ==
    ASSUME NEW p \in Parsers, NEW b \in Bytes
    PROVE  TelnetByte(p, b) \in Parsers /\ TelnetByte(p, b).used <= p.used + 1
<1> DEFINE q == [p EXCEPT !.used = @ + 1]
<1>1. /\ q \in Parsers /\ q.used = p.used + 1 /\ q.state = p.state /\ q.dest = p.dest
      /\ Len(q.dest) + 1 <= q.used
  BY DEF Parsers
<1>2. p.used <= p.used + 1 /\ p.used \in Nat
  BY DEF Parsers
<1> HIDE DEF q
<1>3. ASSUME NEW s \in TelnetStates
      PROVE  [q EXCEPT !.state = s] \in Parsers /\ [q EXCEPT !.state = s].used = q.used
  BY <1>1 DEF Parsers
<1>4. Append(q.dest, b) \in Seq(Bytes) /\ Len(Append(q.dest, b)) <= q.used
  BY <1>1 DEF Parsers
<1>5. ASSUME NEW d \in Seq(Bytes), Len(d) <= q.used, NEW s \in TelnetStates
      PROVE  /\ [q EXCEPT !.dest = d] \in Parsers /\ [q EXCEPT !.dest = d].used = q.used
             /\ [q EXCEPT !.state = s, !.dest = d] \in Parsers
             /\ [q EXCEPT !.state = s, !.dest = d].used = q.used
  BY <1>1, <1>5 DEF Parsers
<1>6. ASSUME NEW r \in Parsers
      PROVE  Buffered(r, b) \in Parsers /\ Buffered(r, b).used = r.used
  <2>1. r.sb \in Seq(Bytes) /\ Len(r.sb) \in Nat
    BY DEF Parsers
  <2>2. Append(r.sb, b) \in Seq(Bytes) /\ Len(Append(r.sb, b)) = Len(r.sb) + 1
    BY <2>1
  <2>3. ASSUME NEW d \in Seq(Bytes), Len(d) <= SubnegCap
        PROVE  [r EXCEPT !.sb = d] \in Parsers /\ [r EXCEPT !.sb = d].used = r.used
    BY <2>3 DEF Parsers
  <2>4. Len(r.sb) < SubnegCap => Len(Append(r.sb, b)) <= SubnegCap
    BY <2>1, <2>2, SubnegAssumption
  <2>5. QED
    BY <2>2, <2>3, <2>4 DEF Buffered
<1>7. /\ [q EXCEPT !.state = "DATA", !.done = TRUE] \in Parsers
      /\ [q EXCEPT !.state = "DATA", !.done = TRUE].used = q.used
  BY <1>1 DEF Parsers, TelnetStates
<1>8. Negotiated(q, b) \in Parsers /\ Negotiated(q, b).used = q.used
  BY <1>1 DEF Parsers, TelnetStates, Negotiated
<1>9. {"DATA", "IAC", "WILL", "WONT", "DO", "DONT", "SUBNEG", "SUBNEG_IAC"} = TelnetStates
  BY DEF TelnetStates
<1>10. TelnetByte(p, b) \in Parsers /\ TelnetByte(p, b).used \in {p.used, q.used}
  <2>1. CASE p.done
    BY <2>1 DEF TelnetByte
  <2>2. CASE ~p.done /\ q.state = "DATA"
    BY <1>3, <1>4, <1>5, <1>9, <2>2 DEF TelnetByte, q
  <2>3. CASE ~p.done /\ q.state = "IAC"
    BY <1>3, <1>4, <1>5, <1>9, <2>3 DEF TelnetByte, q
  <2>4. CASE ~p.done /\ q.state = "SUBNEG"
    BY <1>1, <1>3, <1>6, <1>9, <2>4 DEF TelnetByte, q
  <2>5. CASE ~p.done /\ q.state = "SUBNEG_IAC"
    BY <1>3, <1>6, <1>7, <1>9, <2>5 DEF TelnetByte, q
  <2>6. CASE ~p.done /\ q.state \notin {"DATA", "IAC", "SUBNEG", "SUBNEG_IAC"}
    BY <1>8, <2>6 DEF TelnetByte, q
  <2>7. QED
    BY <2>1, <2>2, <2>3, <2>4, <2>5, <2>6
<1>11. QED
  BY <1>1, <1>2, <1>10

\* comm_telnet_process_inbound on input of any length is a run of the parser:
\* one state per byte, each from the one before.
LEMMA ParserRun ==
    ASSUME NEW state \in TelnetStates, NEW bytes \in Seq(Bytes)
    PROVE  \E F \in [0 .. Len(bytes) -> Parsers] :
              /\ F[0] = TelnetStart(state)
              /\ \A i \in 1 .. Len(bytes) : F[i] = TelnetByte(F[i - 1], bytes[i])
              /\ ProcessInbound(state, bytes) = F[Len(bytes)]
<1> DEFINE N == Len(bytes)
           start == TelnetStart(state)
           g == [x \in Parsers \X (1 .. N) |-> TelnetByte(x[1], bytes[x[2]])]
           Body(f) == [s \in SUBSET (1 .. N) |->
                         IF s = {} THEN start
                         ELSE TelnetByte(f[s \ {Max(s)}], bytes[Max(s)])]
<1>1. N \in Nat /\ DOMAIN bytes = 1 .. N /\ \A i \in 1 .. N : bytes[i] \in Bytes
  OBVIOUS
<1>2. start \in Parsers
  BY SubnegAssumption DEF TelnetStart, Parsers
<1>3. ProcessInbound(state, bytes) = (CHOOSE f : f = Body(f))[1 .. N]
  <2>1. ProcessInbound(state, bytes) =
          (CHOOSE iter : iter = [s \in SUBSET (DOMAIN bytes) |->
                 IF s = {} THEN TelnetStart(state)
                 ELSE TelnetByte(iter[s \ {Max(s)}], bytes[Max(s)])])[DOMAIN bytes]
    BY Zenon DEF ProcessInbound, FoldLeft, MapThenFoldSet
  <2>2. QED
    BY <1>1, <2>1, Zenon
<1> HIDE DEF N, start
<1>4. g \in [Parsers \X (1 .. N) -> Parsers]
  <2>1. \A x \in Parsers \X (1 .. N) : TelnetByte(x[1], bytes[x[2]]) \in Parsers
    BY <1>1, TelnetByteType
  <2>2. QED
    BY <2>1, Zenon
<1>5. \A p \in Parsers, i \in 1 .. N : g[<<p, i>>] = TelnetByte(p, bytes[i])
  OBVIOUS
<1> HIDE DEF g
<1>6. PICK f \in [SUBSET (1 .. N) -> Parsers] : FoldOf(f, N, start, g)
  <2>1. N \in Nat
    BY <1>1
  <2> HIDE DEF Body
  <2>2. QED
    BY <1>2, <1>4, <2>1, FoldExists
<1>7. \A s \in SUBSET (1 .. N) :
         f[s] = IF s = {} THEN start ELSE TelnetByte(f[s \ {Max(s)}], bytes[Max(s)])
  <2>1. ASSUME NEW s \in SUBSET (1 .. N), s # {}
        PROVE  f[s] = TelnetByte(f[s \ {Max(s)}], bytes[Max(s)])
    <3>1. Max(s) \in 1 .. N
      BY <1>1, <2>1, GreatestElement
    <3>2. f[s \ {Max(s)}] \in Parsers
      BY <1>6
    <3>3. QED
      BY <1>5, <1>6, <2>1, <3>1, <3>2 DEF FoldOf
  <2>2. QED
    BY <1>6, <2>1 DEF FoldOf
<1>8. f = Body(f)
  BY <1>7, Zenon
<1>9. PICK h : h = (CHOOSE d : d = Body(d))
  OBVIOUS
<1>10. h = Body(h)
  BY <1>8, <1>9, Zenon
<1>11. /\ h[{}] = start
       /\ \A n \in 1 .. N : h[1 .. n] = TelnetByte(h[1 .. n - 1], bytes[n])
  <2>1. \A s \in SUBSET (1 .. N) : h[s] =
           IF s = {} THEN start ELSE TelnetByte(h[s \ {Max(s)}], bytes[Max(s)])
    BY <1>10, Zenon
  <2>2. ASSUME NEW n \in 1 .. N
        PROVE  h[1 .. n] = TelnetByte(h[1 .. n - 1], bytes[n])
    <3>1. n \in Nat \ {0} /\ 1 .. n \in SUBSET (1 .. N) /\ 1 .. n # {}
      <4>1. n \in Nat \ {0} /\ N \in Nat /\ n <= N
        BY <1>1
      <4>2. 1 \in 1 .. n
        BY <4>1
      <4>3. \A i \in 1 .. n : i \in 1 .. N
        BY <4>1
      <4>4. QED
        BY <4>1, <4>2, <4>3
    <3>2. Max(1 .. n) = n /\ (1 .. n) \ {Max(1 .. n)} = 1 .. n - 1
      BY <3>1, IntervalMax
    <3>3. h[1 .. n] = TelnetByte(h[(1 .. n) \ {Max(1 .. n)}], bytes[Max(1 .. n)])
      BY <2>1, <3>1
    <3>4. QED
      BY <3>2, <3>3, Zenon
  <2>3. QED
    BY <2>1, <2>2
<1>12. 1 .. 0 = {}
  OBVIOUS
<1> DEFINE T == {n \in 0 .. N : h[1 .. n] \in Parsers}
<1>13. 0 \in T
  BY <1>1, <1>2, <1>11, <1>12
<1>14. ASSUME NEW n \in 0 .. N - 1, n \in T PROVE n + 1 \in T
  <2>1. n + 1 \in 1 .. N /\ (n + 1) - 1 = n /\ n + 1 \in 0 .. N
    BY <1>1
  <2>2. h[1 .. n + 1] = TelnetByte(h[1 .. n], bytes[n + 1])
    BY <1>11, <2>1
  <2>3. h[1 .. n] \in Parsers
    BY <1>14
  <2>4. TelnetByte(h[1 .. n], bytes[n + 1]) \in Parsers
    BY <1>1, <2>1, <2>3, TelnetByteType
  <2>5. QED
    BY <2>1, <2>2, <2>4
<1>15. \A n \in 0 .. N : n \in T
  <2> HIDE DEF T
  <2>1. QED
    BY <1>1, <1>13, <1>14, SetInduction
<1> DEFINE F == [n \in 0 .. N |-> h[1 .. n]]
<1>16. F \in [0 .. N -> Parsers]
  BY <1>15
<1>17. F[0] = start /\ F[N] = ProcessInbound(state, bytes)
  BY <1>1, <1>3, <1>9, <1>11, <1>12
<1>18. ASSUME NEW i \in 1 .. N PROVE F[i] = TelnetByte(F[i - 1], bytes[i])
  <2>1. i \in 0 .. N /\ i - 1 \in 0 .. N
    BY <1>1
  <2>2. QED
    BY <1>11, <2>1
<1> HIDE DEF F
<1>19. QED
  BY <1>16, <1>17, <1>18 DEF N, start

\* A read of any length leaves a parser state; no more is consumed than was
\* given, no more is passed on than was consumed, and subopt_buf is not overrun.
THEOREM ParserBounded ==
    ASSUME NEW state \in TelnetStates, NEW bytes \in Seq(Bytes)
    PROVE  /\ ProcessInbound(state, bytes) \in Parsers
           /\ ProcessInbound(state, bytes).used <= Len(bytes)
<1>1. PICK F \in [0 .. Len(bytes) -> Parsers] :
              /\ F[0] = TelnetStart(state)
              /\ \A i \in 1 .. Len(bytes) : F[i] = TelnetByte(F[i - 1], bytes[i])
              /\ ProcessInbound(state, bytes) = F[Len(bytes)]
  BY ParserRun
<1> DEFINE T == {n \in 0 .. Len(bytes) : F[n].used <= n}
<1>2. 0 \in T
  BY <1>1 DEF TelnetStart
<1>3. ASSUME NEW n \in 0 .. Len(bytes) - 1, n \in T PROVE n + 1 \in T
  <2>1. n + 1 \in 1 .. Len(bytes) /\ (n + 1) - 1 = n /\ n \in 0 .. Len(bytes)
    OBVIOUS
  <2>2. F[n + 1] = TelnetByte(F[n], bytes[n + 1]) /\ F[n] \in Parsers /\ F[n + 1] \in Parsers
    BY <1>1, <2>1
  <2>3. bytes[n + 1] \in Bytes
    BY <2>1
  <2>4. F[n + 1].used <= F[n].used + 1
    BY <2>2, <2>3, TelnetByteType
  <2>5. F[n].used \in Nat /\ F[n + 1].used \in Nat /\ F[n].used <= n
    BY <1>3, <2>2 DEF Parsers
  <2>6. F[n + 1].used <= n + 1
    BY <2>4, <2>5
  <2>7. QED
    BY <2>1, <2>6
<1>4. Len(bytes) \in T
  <2> HIDE DEF T
  <2>1. Len(bytes) \in Nat
    OBVIOUS
  <2>2. \A n \in 0 .. Len(bytes) : n \in T
    BY <1>2, <1>3, <2>1, SetInduction
  <2>3. QED
    BY <2>1, <2>2
<1>5. QED
  BY <1>1, <1>4

-----------------------------------------------------------------------------
(* Framing.                                                                *)

\* Stripping a line keeps a part of it, after the white space that is skipped.
LEMMA StripType ==
    ASSUME NEW line \in Seq(Bytes)
    PROVE  /\ Strip(line) \in Seq(Bytes) /\ Leading(line) \in Nat
           /\ Leading(line) + Len(Strip(line)) <= Len(line)
<1> DEFINE kept == {i \in DOMAIN line : line[i] # "sp"}
<1>1. CASE kept = {}
  BY <1>1 DEF Strip, Leading
<1>2. CASE kept # {}
  <2>1. kept \in SUBSET (1 .. Len(line)) /\ Len(line) \in Nat
    OBVIOUS
  <2>2. Strip(line) = SubSeq(line, Min(kept), Max(kept)) /\ Leading(line) = Min(kept) - 1
    BY <1>2 DEF Strip, Leading
  <2> HIDE DEF kept
  <2>3. Min(kept) \in kept /\ (\A y \in kept : Min(kept) <= y) /\ Max(kept) \in kept
    BY <1>2, <2>1, LeastElement, GreatestElement
  <2>4. PICK m \in 1 .. Len(line) : m = Min(kept)
    BY <2>1, <2>3
  <2>5. PICK n \in 1 .. Len(line) : n = Max(kept) /\ m <= n
    BY <2>1, <2>3, <2>4
  <2>6. SubSeq(line, m, n) \in Seq(Bytes) /\ Len(SubSeq(line, m, n)) = n - m + 1
    BY <2>4, <2>5
  <2>7. QED
    BY <2>1, <2>2, <2>4, <2>5, <2>6
<1>3. QED
  BY <1>1, <1>2

\* _find_newline_and_strip cuts within the buffer: what it skips and what it
\* leaves make up the bytes it was given, and a line it leaves is not empty.
LEMMA NewlineType ==
    ASSUME NEW data \in Seq(Bytes), HasLine(data)
    PROVE  LET f == FindNewlineAndStrip(data) IN
           /\ f.body \in Seq(Bytes) /\ f.edited \in Seq(Bytes) /\ f.skip \in Nat
           /\ f.next \in 2 .. Len(data) + 1
           /\ Len(f.edited) + f.skip = Len(data) /\ Len(f.edited) # 0
<1> DEFINE ends == {k \in DOMAIN data : data[k] \in EndOfLine}
<1>1. Min(ends) \in 1 .. Len(data)
  <2>1. ends \in SUBSET (1 .. Len(data)) /\ Len(data) \in Nat
    OBVIOUS
  <2>2. ends # {}
    BY DEF HasLine
  <2> HIDE DEF ends
  <2>3. QED
    BY <2>1, <2>2, LeastElement
<1>2. PICK i \in 1 .. Len(data) : i = Min(ends)
  BY <1>1
<1> DEFINE next == IF data[i] = "CR" /\ i < Len(data) /\ data[i + 1] \in {"LF", "NUL"}
                   THEN i + 2 ELSE i + 1
<1>3. next \in i + 1 .. Len(data) + 1
  OBVIOUS
<1> DEFINE line == SubSeq(data, 1, i - 1)
<1>4. line \in Seq(Bytes) /\ Len(line) = i - 1
  OBVIOUS
<1> HIDE DEF line, next
<1>5. PICK body \in Seq(Bytes) : body = Strip(line) /\ Leading(line) + Len(body) <= i - 1
  BY <1>4, StripType
<1>6. PICK skip \in Nat : skip = Leading(line)
  BY <1>4, StripType
<1>7. PICK cut \in Nat \ {0} : cut = (next - 1) - skip - Len(body)
  <2>1. Len(body) \in Nat
    OBVIOUS
  <2>2. QED
    BY <1>2, <1>3, <1>5, <1>6, <2>1
<1> DEFINE zeros == [k \in 1 .. cut |-> "NUL"]
           rest == SubSeq(data, next, Len(data))
<1>8. zeros \in Seq(Bytes) /\ Len(zeros) = cut
  <2>1. zeros \in [1 .. cut -> Bytes] /\ DOMAIN zeros = 1 .. cut /\ cut \in Nat
    <3>1. "NUL" \in Bytes
      BY DEF Bytes
    <3>2. QED
      BY <3>1
  <2> HIDE DEF zeros
  <2>2. zeros \in Seq(Bytes)
    BY <2>1, SeqDef
  <2>3. DOMAIN zeros = 1 .. Len(zeros) /\ Len(zeros) \in Nat
    BY <2>2, LenProperties
  <2>4. QED
    BY <2>1, <2>2, <2>3
<1>9. rest \in Seq(Bytes) /\ Len(rest) = Len(data) - next + 1
  BY <1>2, <1>3
<1>10. FindNewlineAndStrip(data) =
         [body |-> body, skip |-> skip, next |-> next, edited |-> body \o zeros \o rest]
  BY <1>2, <1>5, <1>6, <1>7 DEF FindNewlineAndStrip, line, next
<1> HIDE DEF zeros, rest
<1>11. /\ body \o zeros \in Seq(Bytes) /\ Len(body \o zeros) = Len(body) + cut
       /\ (body \o zeros) \o rest \in Seq(Bytes)
       /\ Len((body \o zeros) \o rest) = Len(body) + cut + Len(rest)
  <2>1. body \o zeros \in Seq(Bytes) /\ Len(body \o zeros) = Len(body) + cut
    BY <1>8, ConcatProperties
  <2>2. PICK d \in Seq(Bytes) : d = body \o zeros /\ Len(d) = Len(body) + cut
    BY <2>1
  <2>3. d \o rest \in Seq(Bytes) /\ Len(d \o rest) = Len(d) + Len(rest)
    BY <1>9, ConcatProperties
  <2>4. QED
    BY <2>2, <2>3
<1>12. PICK edited \in Seq(Bytes) :
         edited = body \o zeros \o rest /\ Len(edited) = Len(body) + cut + Len(rest)
  BY <1>11
<1>13. Len(edited) + skip = Len(data) /\ Len(edited) # 0 /\ next \in 2 .. Len(data) + 1
  <2>1. PICK b \in Nat : b = Len(body)
    OBVIOUS
  <2>2. PICK d \in Nat : d = Len(data)
    OBVIOUS
  <2>3. PICK r, e, n : r = Len(rest) /\ e = Len(edited) /\ n = next
    OBVIOUS
  <2>4. n \in i + 1 .. d + 1 /\ r = d - n + 1 /\ e = b + cut + r /\ cut = (n - 1) - skip - b
    BY <1>3, <1>7, <1>9, <1>12, <2>1, <2>2, <2>3
  <2>5. e + skip = d /\ e # 0 /\ n \in 2 .. d + 1
    BY <2>4
  <2>6. QED
    BY <2>1, <2>2, <2>3, <2>5
<1>14. QED
  BY <1>6, <1>10, <1>12, <1>13

\* _find_char_input_sequence never asks for more than there is.
LEMMA SequenceType ==
    ASSUME NEW data \in Seq(Bytes), NEW ansi \in BOOLEAN
    PROVE  /\ FindCharInputSequence(data, ansi).len \in 0 .. Len(data)
           /\ FindCharInputSequence(data, ansi).found => Len(data) # 0
<1> DEFINE stop == {k \in 3 .. Len(data) : data[k] \notin Digits}
           escape == ansi /\ data # <<>> /\ data[1] = "ESC"
           control == escape /\ Len(data) > 1 /\ data[2] = "["
           none == [found |-> FALSE, len |-> 0]
           s == FindCharInputSequence(data, ansi)
<1> SUFFICES s.len \in 0 .. Len(data) /\ (s.found => Len(data) # 0)
  OBVIOUS
<1> HIDE DEF s
<1>1. Len(data) \in Nat /\ (data = <<>> <=> Len(data) = 0)
  OBVIOUS
<1>2. ASSUME s = none PROVE s.len \in 0 .. Len(data) /\ (s.found => Len(data) # 0)
  <2>1. QED
    BY <1>1, <1>2
<1>3. ASSUME NEW n \in 0 .. Len(data), Len(data) # 0, s = [found |-> TRUE, len |-> n]
      PROVE  s.len \in 0 .. Len(data) /\ (s.found => Len(data) # 0)
  <2>1. QED
    BY <1>3
<1>4. CASE data = <<>> \/ (escape /\ Len(data) = 1) \/ (control /\ stop = {})
  <2>1. s = none
    BY <1>1, <1>4 DEF FindCharInputSequence, s
  <2> HIDE DEF none
  <2>2. QED
    BY <1>2, <2>1
<1>5. CASE control /\ stop # {}
  <2>1. stop \in SUBSET (1 .. Len(data))
    OBVIOUS
  <2>2. Min(stop) \in 1 .. Len(data)
    <3> HIDE DEF stop
    <3>1. QED
      BY <1>1, <1>5, <2>1, LeastElement
  <2>3. PICK n \in 0 .. Len(data) :
           n = IF data[Min(stop)] \in Finals THEN Min(stop) ELSE 1
    <3> HIDE DEF stop
    <3>1. 1 \in 0 .. Len(data)
      BY <1>1, <1>5
    <3>2. Min(stop) \in 0 .. Len(data)
      BY <1>1, <2>2
    <3>3. QED
      BY <3>1, <3>2
  <2>4. s = [found |-> TRUE, len |-> n]
    BY <1>1, <1>5, <2>3 DEF FindCharInputSequence, s
  <2>5. QED
    BY <1>1, <1>3, <1>5, <2>4
<1>6. CASE /\ data # <<>> /\ ~(escape /\ Len(data) = 1) /\ ~control
  <2>1. CASE MbIncomplete(data)
    <3>1. s = none
      BY <1>6, <2>1 DEF FindCharInputSequence, s
    <3> HIDE DEF none
    <3>2. QED
      BY <1>2, <3>1
  <2>2. CASE ~MbIncomplete(data)
    <3>1. MbLength(data) \in 0 .. Len(data)
      <4>1. Len(data) # 0
        BY <1>1, <1>6
      <4>2. QED
        BY <1>1, <4>1 DEF MbLength
    <3>2. s = [found |-> TRUE, len |-> MbLength(data)]
      BY <1>6, <2>2 DEF FindCharInputSequence, s
    <3>3. QED
      BY <1>1, <1>3, <1>6, <3>1, <3>2
  <2>3. QED
    BY <2>1, <2>2
<1>7. QED
  BY <1>4, <1>5, <1>6

-----------------------------------------------------------------------------
(* The slot and its input mode.                                            *)

Comms == [flags : SUBSET Flags, caps : SUBSET Caps, told : Told]

\* What a client that speaks LINEMODE was told is the mode of the slot; only a
\* TELNET slot whose client answered WILL LINEMODE told it anything.
ModeTold(c) ==
    c.told.mode # "none" =>
        /\ session.telnet /\ "telnet_linemode" \in c.caps
        /\ (c.told.mode = "edit") = Line(c)

\* The flags that no choice of an input mode touches.
Keeps(c, d) ==
    \A f \in {"INVOKED_PROMPT", "DEFERRED_INBOUND"} : f \in d.flags <=> f \in c.flags

\* comm_set_echo is about the echo only.
LEMMA SetEchoType ==
    ASSUME NEW c \in Comms, NEW e \in BOOLEAN
    PROVE  /\ SetEcho(c, e) \in Comms
           /\ SetEcho(c, e).caps = c.caps /\ SetEcho(c, e).told.mode = c.told.mode
           /\ Keeps(c, SetEcho(c, e)) /\ (Line(SetEcho(c, e)) <=> Line(c))
<1> DEFINE s == IF e THEN Raise(c, {"CLIENT_ECHO"}) ELSE Clear(c, {"CLIENT_ECHO"})
<1>1. /\ s \in Comms /\ s.caps = c.caps /\ s.told = c.told
      /\ Keeps(c, s) /\ (Line(s) <=> Line(c))
  BY DEF Comms, Raise, Clear, Flags, Keeps, Line
<1>2. SetEcho(c, e) \in {s, [s EXCEPT !.told.echo = "wont"], [s EXCEPT !.told.echo = "will"]}
  BY DEF SetEcho
<1> HIDE DEF s
<1>3. ASSUME NEW x \in {"wont", "will"}
      PROVE  LET t == [s EXCEPT !.told.echo = x] IN
             /\ t \in Comms /\ t.caps = s.caps /\ t.told.mode = s.told.mode /\ t.flags = s.flags
  BY <1>1 DEF Comms, Told
<1>4. QED
  BY <1>1, <1>2, <1>3 DEF Keeps, Line

\* _negotiate_telnet_line_input tells a LINEMODE client the mode.
LEMMA NegotiateType ==
    ASSUME NEW c \in Comms, NEW e \in BOOLEAN
    PROVE  LET n == NegotiateLineInput(c, e) IN
           /\ n \in Comms /\ n.caps = c.caps /\ n.flags = c.flags
           /\ n.told.mode = IF "telnet_linemode" \in c.caps
                            THEN (IF e THEN "edit" ELSE "char") ELSE c.told.mode
<1> DEFINE m == IF "telnet_linemode" \in c.caps
                THEN [c EXCEPT !.told.mode = IF e THEN "edit" ELSE "char"] ELSE c
<1>1. /\ m \in Comms /\ m.caps = c.caps /\ m.flags = c.flags
      /\ m.told.mode = IF "telnet_linemode" \in c.caps
                       THEN (IF e THEN "edit" ELSE "char") ELSE c.told.mode
  BY DEF Comms, Told
<1>2. NegotiateLineInput(c, e) \in {m, [m EXCEPT !.told.echo = "will"]}
  BY DEF NegotiateLineInput
<1> HIDE DEF m
<1>3. LET t == [m EXCEPT !.told.echo = "will"] IN
      /\ t \in Comms /\ t.caps = m.caps /\ t.told.mode = m.told.mode /\ t.flags = m.flags
  BY <1>1 DEF Comms, Told
<1>4. QED
  BY <1>1, <1>2, <1>3

\* comm_set_line_input and comm_set_char_input leave the client told.
LEMMA SetModeType ==
    ASSUME NEW c \in Comms, NEW e \in BOOLEAN, ModeTold(c)
    PROVE  /\ SetLineInput(c, e) \in Comms /\ ModeTold(SetLineInput(c, e))
           /\ Keeps(c, SetLineInput(c, e)) /\ Line(SetLineInput(c, e))
           /\ SetCharInput(c) \in Comms /\ ModeTold(SetCharInput(c))
           /\ Keeps(c, SetCharInput(c)) /\ ~Line(SetCharInput(c))
<1>1. /\ SetLineInput(c, e) \in Comms /\ ModeTold(SetLineInput(c, e))
      /\ Keeps(c, SetLineInput(c, e)) /\ Line(SetLineInput(c, e))
  <2> DEFINE n == IF session.telnet /\ ~Line(c) THEN NegotiateLineInput(c, TRUE) ELSE c
             r == Raise(n, {"LINE_INPUT"})
  <2>1. /\ n \in Comms /\ n.flags = c.flags
        /\ n.told.mode # "none" =>
              session.telnet /\ "telnet_linemode" \in n.caps /\ n.told.mode = "edit"
    BY NegotiateType DEF ModeTold
  <2> HIDE DEF n
  <2>2. r \in Comms /\ r.caps = n.caps /\ r.told = n.told /\ Keeps(c, r) /\ Line(r)
    BY <2>1 DEF Comms, Raise, Flags, Keeps, Line
  <2>3. SetLineInput(c, e) = SetEcho(r, e)
    BY DEF SetLineInput, n
  <2> HIDE DEF r
  <2>4. /\ SetEcho(r, e) \in Comms /\ SetEcho(r, e).caps = r.caps
        /\ SetEcho(r, e).told.mode = r.told.mode
        /\ Keeps(r, SetEcho(r, e)) /\ Line(SetEcho(r, e))
    BY <2>2, SetEchoType
  <2>5. QED
    BY <2>1, <2>2, <2>3, <2>4 DEF ModeTold, Keeps
<1>2. /\ SetCharInput(c) \in Comms /\ ModeTold(SetCharInput(c))
      /\ Keeps(c, SetCharInput(c)) /\ ~Line(SetCharInput(c))
  <2>1. CASE ~Line(c)
    <3>1. SetCharInput(c) = SetEcho(c, FALSE)
      BY <2>1 DEF SetCharInput
    <3> DEFINE r == SetEcho(c, FALSE)
    <3>2. r \in Comms /\ r.caps = c.caps /\ r.told.mode = c.told.mode /\ Keeps(c, r) /\ ~Line(r)
      BY <2>1, SetEchoType
    <3> HIDE DEF r
    <3>3. ModeTold(r)
      BY <2>1, <3>2 DEF ModeTold, Line
    <3>4. QED
      BY <3>1, <3>2, <3>3 DEF r
  <2>2. CASE Line(c) /\ session.telnet
    <3> DEFINE n == NegotiateLineInput(c, FALSE)
               r == Clear(n, {"LINE_INPUT", "CLIENT_ECHO"})
    <3>1. /\ n \in Comms /\ n.flags = c.flags
          /\ n.told.mode # "none" => "telnet_linemode" \in n.caps /\ n.told.mode = "char"
      BY NegotiateType DEF ModeTold
    <3> HIDE DEF n
    <3>2. r \in Comms /\ r.caps = n.caps /\ r.told = n.told /\ Keeps(c, r) /\ ~Line(r)
      BY <3>1 DEF Comms, Clear, Flags, Keeps, Line
    <3>3. SetCharInput(c) = r
      BY <2>2 DEF SetCharInput, n
    <3> HIDE DEF r
    <3>4. QED
      BY <2>2, <3>1, <3>2, <3>3 DEF ModeTold, Line
  <2>3. CASE Line(c) /\ ~session.telnet
    <3> DEFINE r == Clear(c, {"LINE_INPUT"})
    <3>1. r \in Comms /\ r.caps = c.caps /\ r.told = c.told /\ Keeps(c, r) /\ ~Line(r)
      BY DEF Comms, Clear, Flags, Keeps, Line
    <3>2. SetCharInput(c) = SetEcho(r, FALSE)
      BY <2>3 DEF SetCharInput
    <3> HIDE DEF r
    <3>3. /\ SetEcho(r, FALSE) \in Comms /\ SetEcho(r, FALSE).caps = r.caps
          /\ SetEcho(r, FALSE).told.mode = r.told.mode
          /\ Keeps(r, SetEcho(r, FALSE)) /\ ~Line(SetEcho(r, FALSE))
      BY <3>1, SetEchoType
    <3>4. QED
      BY <2>3, <3>1, <3>2, <3>3 DEF ModeTold, Keeps
  <2>4. QED
    BY <2>1, <2>2, <2>3
<1>3. QED
  BY <1>1, <1>2

\* comm_process_telnet_options: the answers of the client.
LEMMA OptionsType ==
    ASSUME NEW c \in Comms, ModeTold(c), NEW p,
           p.LINEMODE # "none" => session.telnet
    PROVE  /\ TelnetOptions(c, p) \in Comms /\ ModeTold(TelnetOptions(c, p))
           /\ TelnetOptions(c, p).flags = c.flags
<1> DEFINE lm == CASE p.LINEMODE = "WILL" ->
                         [c EXCEPT !.caps = @ \cup {"telnet_linemode"},
                                   !.told.mode = IF Line(c) THEN "edit" ELSE @]
                   [] p.LINEMODE = "WONT" ->
                         [c EXCEPT !.caps = @ \ {"telnet_linemode"}, !.told.mode = "none"]
                   [] OTHER -> c
<1>1. lm \in Comms /\ ModeTold(lm) /\ lm.flags = c.flags
  <2>1. CASE p.LINEMODE = "WILL"
    <3> DEFINE w == [c EXCEPT !.caps = @ \cup {"telnet_linemode"},
                              !.told.mode = IF Line(c) THEN "edit" ELSE @]
    <3>1. /\ w \in Comms /\ w.flags = c.flags /\ "telnet_linemode" \in w.caps
          /\ w.told.mode = IF Line(c) THEN "edit" ELSE c.told.mode
      BY DEF Comms, Told, Caps
    <3>2. lm = w
      BY <2>1
    <3> HIDE DEF w, lm
    <3>3. QED
      BY <2>1, <3>1, <3>2 DEF ModeTold, Line
  <2>2. CASE p.LINEMODE = "WONT"
    <3> DEFINE w == [c EXCEPT !.caps = @ \ {"telnet_linemode"}, !.told.mode = "none"]
    <3>1. w \in Comms /\ w.flags = c.flags /\ w.told.mode = "none"
      BY DEF Comms, Told, Caps
    <3>2. lm = w
      BY <2>2
    <3> HIDE DEF w, lm
    <3>3. QED
      BY <3>1, <3>2 DEF ModeTold
  <2>3. CASE p.LINEMODE \notin {"WILL", "WONT"}
    BY <2>3
  <2>4. QED
    BY <2>1, <2>2, <2>3
<1>2. TelnetOptions(c, p) \in {lm, [lm EXCEPT !.caps = @ \cup {"telnet_echo"}],
                               [lm EXCEPT !.caps = @ \ {"telnet_echo"}]}
  BY DEF TelnetOptions
<1> HIDE DEF lm
<1>3. ASSUME NEW k \in SUBSET Caps, k \ {"telnet_echo"} = lm.caps \ {"telnet_echo"}
      PROVE  LET t == [lm EXCEPT !.caps = k] IN
             t \in Comms /\ ModeTold(t) /\ t.flags = lm.flags
  BY <1>1, <1>3 DEF Comms, ModeTold, Line
<1>4. lm.caps \cup {"telnet_echo"} \in SUBSET Caps /\ lm.caps \ {"telnet_echo"} \in SUBSET Caps
  BY <1>1 DEF Comms, Caps
<1>5. QED
  BY <1>1, <1>2, <1>3, <1>4

-----------------------------------------------------------------------------
(* The inductive invariant.                                                *)

Buffers == [start : Nat, data : Seq(Bytes)]
GateKinds == {"ready", "inbound", "subneg", "prompt", "outbound", "done"}
Entries == [kind : {"line", "char", "prompt", "output"}, at : Nat, body : Seq(Bytes)]

\* The types of the state, the buffer and the gate within their capacities.
InboundType ==
    /\ session \in Sessions /\ strict \in BOOLEAN
    /\ unread \in Seq(Bytes) /\ src \in Seq(Bytes)
    /\ buf \in Buffers /\ buf.start + Len(buf.data) <= BufCap
    /\ tstate \in TelnetStates /\ comm \in Comms
    /\ gate \in Seq(GateKinds) /\ Len(gate) <= Backlog + 1 /\ (strict => gate = <<>>)
    /\ loop \in LoopStates
    /\ calls \in 0..session.calls /\ sends \in 0..MaxSends
    /\ taken \in Nat /\ log \in Seq(Entries)

Prompted == Len(log) # 0 /\ log[Len(log)].kind = "prompt"

\* The prompt of an idle slot stands until input, which stays in the buffer
\* when its slot refuses it, or output is logged.
PromptInvariant ==
    /\ loop = "prompting" => "INVOKED_PROMPT" \notin comm.flags /\ Len(buf.data) = 0
    /\ Prompted => "INVOKED_PROMPT" \in comm.flags \/ Len(buf.data) # 0
    /\ \A i \in 1 .. Len(log) - 1 : log[i].kind = "prompt" => log[i + 1].kind # "prompt"

Chars == {i \in DOMAIN log : log[i].kind = "char"}
Arms(c) == IF Line(c) THEN 0 ELSE 1

\* Each character message and an armed character mode is a call of a hook.
OneShotInvariant ==
    /\ loop \in {"char", "rechar"} => ~Line(comm)
    /\ Cardinality(Chars) + Arms(comm) <= session.calls - calls

\* C_DEFERRED_INBOUND is published to the loop from the moment it is set.
DeferredKnown == Deferred => has_deferred \/ overwritten

InboundInvariant ==
    /\ InboundType /\ ModeTold(comm)
    /\ PromptInvariant /\ OneShotInvariant /\ DeferredKnown

\* The options of a session.
LEMMA SessionType ==
    ASSUME session \in Sessions
    PROVE  /\ session.stream \in Seq(Bytes) /\ session.telnet \in BOOLEAN
           /\ session.ansi \in BOOLEAN /\ session.calls \in Nat
<1>1. session.stream \in Seq(STRING) /\ STRING \subseteq Bytes
  BY InboundAssumption DEF Bytes
<1>2. session.stream \in Seq(Bytes)
  BY <1>1, SeqMonotonic
<1>3. QED
  BY <1>2, InboundAssumption

\* The gate with one execution in it.
LEMMA OneExecution ==
    ASSUME NEW k \in GateKinds
    PROVE  <<k>> \in Seq(GateKinds) /\ Len(<<k>>) = 1 /\ <<k>> # <<>>
OBVIOUS

\* One execution more in a queue that has room for it.
LEMMA AppendedExecution ==
    ASSUME gate \in Seq(GateKinds), Len(gate) <= Backlog, NEW k \in GateKinds,
           gate' = Append(gate, k)
    PROVE  gate' \in Seq(GateKinds) /\ Len(gate') <= Backlog + 1
<1>1. PICK n \in Nat : n = Len(gate)
  OBVIOUS
<1>2. gate' \in Seq(GateKinds) /\ Len(gate') = n + 1
  BY <1>1, AppendProperties
<1>3. QED
  BY <1>1, <1>2, InboundAssumption

\* The slot after HOOK_CONNECT.
LEMMA InboundInit == Init => InboundInvariant
<1> SUFFICES ASSUME Init PROVE InboundInvariant
  OBVIOUS
<1>1. session \in Sessions /\ strict \in BOOLEAN
  BY DEF Init
<1>2. PICK s \in Nat : s = session.calls
  BY <1>1, SessionType
<1>3. /\ comm \in Comms /\ Line(comm) /\ ~Deferred
      /\ comm.told.mode = "none" /\ "INVOKED_PROMPT" \notin comm.flags
  BY <1>1 DEF Init, Comms, Flags, Caps, Told, Line, Deferred
<1>4. gate \in Seq(GateKinds) /\ Len(gate) <= Backlog + 1 /\ (strict => gate = <<>>)
  <2>1. CASE strict
    BY <2>1, InboundAssumption DEF Init
  <2>2. CASE ~strict
    BY <2>2, InboundAssumption, OneExecution DEF Init, GateKinds
  <2>3. QED
    BY <2>1, <2>2
<1>5. InboundType
  <2>1. unread \in Seq(Bytes) /\ src \in Seq(Bytes)
    BY <1>1, SessionType DEF Init
  <2>2. buf \in Buffers /\ buf.start + Len(buf.data) <= BufCap
    BY InboundAssumption DEF Init, Buffers
  <2>3. log \in Seq(Entries) /\ taken \in Nat /\ loop \in LoopStates /\ tstate \in TelnetStates
    BY DEF Init, LoopStates, TelnetStates
  <2>4. calls \in 0..session.calls /\ sends \in 0..MaxSends
    BY <1>2, InboundAssumption DEF Init
  <2>5. QED
    BY <1>1, <1>3, <1>4, <2>1, <2>2, <2>3, <2>4 DEF InboundType
<1>6. PromptInvariant
  BY DEF Init, PromptInvariant, Prompted
<1>7. OneShotInvariant
  <2>1. Chars = {}
    BY DEF Init, Chars
  <2>2. Cardinality(Chars) = 0
    BY <2>1, FS_EmptySet
  <2>3. loop = "wait" /\ session.calls = s /\ calls = s /\ Arms(comm) = 0
    BY <1>2, <1>3 DEF Init, Arms
  <2>4. QED
    BY <2>2, <2>3 DEF OneShotInvariant
<1>8. QED
  BY <1>3, <1>5, <1>6, <1>7 DEF InboundInvariant, ModeTold, DeferredKnown

\* The character messages of a log of any length can be counted.
LEMMA CharsFinite ==
    ASSUME log \in Seq(Entries)
    PROVE  IsFiniteSet(Chars) /\ Cardinality(Chars) \in Nat /\ Len(log) + 1 \notin Chars
<1>1. Chars \subseteq 1 .. Len(log) /\ Len(log) \in Nat
  BY DEF Chars
<1>2. IsFiniteSet(1 .. Len(log))
  BY <1>1, FS_Interval
<1>3. IsFiniteSet(Chars)
  BY <1>1, <1>2, FS_Subset
<1>4. QED
  BY <1>1, <1>3, FS_CardinalityType

\* A new entry of the log is its last; it counts if it is a character message.
LEMMA LogAppended ==
    ASSUME log \in Seq(Entries), NEW m \in Entries, log' = Append(log, m)
    PROVE  /\ log' \in Seq(Entries) /\ (Prompted' <=> m.kind = "prompt")
           /\ Cardinality(Chars)' = Cardinality(Chars) + (IF m.kind = "char" THEN 1 ELSE 0)
           /\ Len(log') = Len(log) + 1 /\ log'[Len(log) + 1] = m
           /\ \A i \in 1 .. Len(log) : log'[i] = log[i]
<1>1. PICK n \in Nat : n = Len(log)
  OBVIOUS
<1>2. PICK l : l = log'
  OBVIOUS
<1>3. /\ l \in Seq(Entries) /\ Len(l) = n + 1 /\ l[n + 1] = m
      /\ \A i \in 1 .. n : l[i] = log[i]
  BY <1>1, <1>2, AppendProperties
<1>4. DOMAIN l = 1 .. n + 1 /\ DOMAIN log = 1 .. n
  BY <1>1, <1>3
<1>5. Chars' = IF m.kind = "char" THEN Chars \cup {n + 1} ELSE Chars
  <2>1. Chars' = {i \in 1 .. n + 1 : l[i].kind = "char"} /\ Chars = {i \in 1 .. n : log[i].kind = "char"}
    BY <1>2, <1>4 DEF Chars
  <2>2. QED
    BY <1>1, <1>3, <2>1
<1>6. IsFiniteSet(Chars) /\ Cardinality(Chars) \in Nat /\ n + 1 \notin Chars
  BY <1>1, CharsFinite
<1>7. Cardinality(Chars \cup {n + 1}) = Cardinality(Chars) + 1
  BY <1>6, FS_AddElement
<1>8. Cardinality(Chars)' = Cardinality(Chars) + (IF m.kind = "char" THEN 1 ELSE 0)
  BY <1>5, <1>6, <1>7
<1>9. Prompted' <=> m.kind = "prompt"
  BY <1>1, <1>2, <1>3 DEF Prompted
<1>10. QED
  BY <1>1, <1>2, <1>3, <1>8, <1>9

\* A hook that chooses a mode keeps the client told and pays with a call.
LEMMA ChoiceType ==
    ASSUME session \in Sessions, calls \in 0 .. session.calls,
           NEW c \in Comms, ModeTold(c), NEW d \in ModeChoices(c)
    PROVE  /\ d \in Comms /\ ModeTold(d) /\ Keeps(c, d)
           /\ CallsAfter(c, d) \in 0 .. session.calls
           /\ \A n \in Nat : n + Arms(c) <= session.calls - calls
                                => n + Arms(d) <= session.calls - CallsAfter(c, d)
<1>1. d \in Comms /\ ModeTold(d) /\ Keeps(c, d)
  <2>1. d = c \/ d = SetCharInput(c) \/ \E e \in BOOLEAN : d = SetLineInput(c, e)
    BY DEF ModeChoices
  <2>2. CASE d = c
    BY <2>2 DEF Keeps
  <2>3. CASE d = SetCharInput(c)
    BY <2>3, SetModeType
  <2>4. ASSUME NEW e \in BOOLEAN, d = SetLineInput(c, e)
        PROVE  d \in Comms /\ ModeTold(d) /\ Keeps(c, d)
    BY <2>4, SetModeType
  <2>5. QED
    BY <2>1, <2>2, <2>3, <2>4
<1>2. session.calls \in Nat /\ (d # c => calls # 0)
  BY SessionType DEF ModeChoices
<1>3. Arms(c) \in {0, 1} /\ Arms(d) \in {0, 1} /\ (c = d => Arms(c) = Arms(d))
  BY DEF Arms
<1>4. CallsAfter(c, d) = IF c = d THEN calls ELSE calls - 1
  BY DEF CallsAfter
<1>5. QED
  BY <1>1, <1>2, <1>3, <1>4

\* A step that logs nothing.
LEMMA NothingLogged ==
    ASSUME InboundInvariant, UNCHANGED <<session, log>>,
           "INVOKED_PROMPT" \in comm.flags =>
              "INVOKED_PROMPT" \in comm'.flags \/ Len(buf'.data) # 0,
           Len(buf.data) # 0 => Len(buf'.data) # 0,
           loop' = "prompting" => "INVOKED_PROMPT" \notin comm'.flags /\ Len(buf'.data) = 0,
           loop' \in {"char", "rechar"} => ~Line(comm)',
           \A n \in Nat : n + Arms(comm) <= session.calls - calls
                            => n + Arms(comm)' <= session.calls - calls'
    PROVE  PromptInvariant' /\ OneShotInvariant'
<1>1. PromptInvariant'
  BY DEF InboundInvariant, PromptInvariant, Prompted
<1>2. Cardinality(Chars) \in Nat /\ Cardinality(Chars)' = Cardinality(Chars)
  BY CharsFinite DEF InboundInvariant, InboundType, Chars
<1>3. OneShotInvariant'
  BY <1>2 DEF InboundInvariant, OneShotInvariant
<1>4. QED
  BY <1>1, <1>3

\* A step that leaves the slot alone.
LEMMA SlotKept ==
    ASSUME InboundInvariant, UNCHANGED <<session, log, comm, buf, calls>>,
           loop' \in {"char", "rechar", "prompting"} => loop' = loop,
           has_deferred \/ overwritten => has_deferred' \/ overwritten'
    PROVE  ModeTold(comm)' /\ PromptInvariant' /\ OneShotInvariant' /\ DeferredKnown'
<1>1. ModeTold(comm)' /\ DeferredKnown'
  BY DEF InboundInvariant, ModeTold, Line, DeferredKnown, Deferred
<1>2. Line(comm)' = Line(comm) /\ Arms(comm)' = Arms(comm)
  BY DEF Line, Arms
<1>3. loop' = "prompting" => "INVOKED_PROMPT" \notin comm'.flags /\ Len(buf'.data) = 0
  BY DEF InboundInvariant, PromptInvariant
<1>4. loop' \in {"char", "rechar"} => ~Line(comm)'
  BY <1>2 DEF InboundInvariant, OneShotInvariant
<1>5. \A n \in Nat : n + Arms(comm) <= session.calls - calls
                       => n + Arms(comm)' <= session.calls - calls'
  BY <1>2
<1>6. PromptInvariant' /\ OneShotInvariant'
  BY <1>3, <1>4, <1>5, NothingLogged
<1>7. QED
  BY <1>1, <1>6

\* A step that calls a hook, or logs that output displaced the prompt.
LEMMA EntryLogged ==
    ASSUME InboundInvariant, session' = session,
           NEW m \in Entries, log' = Append(log, m), loop' # "prompting",
           m.kind = "prompt" => ~Prompted /\ "INVOKED_PROMPT" \in comm'.flags,
           loop' \in {"char", "rechar"} => ~Line(comm)',
           \A n \in Nat : n + Arms(comm) <= session.calls - calls
                            => n + (IF m.kind = "char" THEN 1 ELSE 0) + Arms(comm)'
                                  <= session.calls - calls'
    PROVE  log' \in Seq(Entries) /\ PromptInvariant' /\ OneShotInvariant'
<1>1. log \in Seq(Entries)
  BY DEF InboundInvariant, InboundType
<1>2. /\ log' \in Seq(Entries) /\ (Prompted' <=> m.kind = "prompt")
      /\ Cardinality(Chars)' = Cardinality(Chars) + (IF m.kind = "char" THEN 1 ELSE 0)
  BY <1>1, LogAppended
<1>3. PICK k \in Nat : k = Len(log)
  BY <1>1
<1>4. PICK l : l = log'
  OBVIOUS
<1>5. Len(l) = k + 1 /\ l[k + 1] = m /\ \A i \in 1 .. k : l[i] = log[i]
  BY <1>1, <1>3, <1>4, LogAppended
<1>6. ASSUME NEW i \in 1 .. Len(l) - 1, l[i].kind = "prompt" PROVE l[i + 1].kind # "prompt"
  <2>1. i \in 1 .. k /\ log[i].kind = "prompt"
    BY <1>5, <1>6
  <2>2. CASE i = k
    BY <1>3, <1>5, <2>1, <2>2 DEF Prompted
  <2>3. CASE i # k
    <3>1. i \in 1 .. k - 1 /\ i + 1 \in 1 .. k
      BY <2>1, <2>3
    <3>2. log[i + 1].kind # "prompt"
      BY <1>3, <2>1, <3>1 DEF InboundInvariant, PromptInvariant
    <3>3. QED
      BY <1>5, <3>1, <3>2
  <2>4. QED
    BY <2>2, <2>3
<1>7. PromptInvariant'
  BY <1>2, <1>4, <1>6 DEF PromptInvariant
<1>8. Cardinality(Chars) \in Nat
  BY <1>1, CharsFinite
<1>9. OneShotInvariant'
  BY <1>2, <1>8 DEF InboundInvariant, OneShotInvariant
<1>10. QED
  BY <1>2, <1>7, <1>9

-----------------------------------------------------------------------------
(* The steps.                                                              *)

\* Where comm_process_input leaves the loop.
LEMMA ReturnedType == Returned \in {"store", "closed", "resume"}
BY DEF Returned

\* Steps of the loop that touch neither the slot nor its gate.
LEMMA QuietStep ==
    ASSUME InboundInvariant,
           NoRead \/ ProcessKeptBack \/ FrameNothing \/ NothingDeferred \/ NoPrompt \/ OtherDefers
    PROVE  InboundInvariant'
<1>1. /\ UNCHANGED <<session, strict, unread, src, buf, tstate, comm, gate, calls, taken, log>>
      /\ has_deferred \/ overwritten => has_deferred' \/ overwritten'
      /\ loop' \in LoopStates /\ (loop' \in {"char", "rechar", "prompting"} => loop' = loop)
      /\ sends' \in 0 .. MaxSends
  <2>1. loop \in LoopStates /\ sends \in 0 .. MaxSends /\ MaxSends \in Nat
    BY InboundAssumption DEF InboundInvariant, InboundType
  <2>2. CASE NoRead
    BY <2>1, <2>2 DEF NoRead, readVars, histVars, LoopStates
  <2>3. CASE ProcessKeptBack
    BY <2>1, <2>3, ReturnedType DEF ProcessKeptBack, readVars, LoopStates
  <2>4. CASE FrameNothing
    BY <2>1, <2>4, ReturnedType DEF FrameNothing, readVars, histVars, LoopStates
  <2>5. CASE NothingDeferred
    BY <2>1, <2>5 DEF NothingDeferred, readVars, histVars, LoopStates
  <2>6. CASE NoPrompt
    BY <2>1, <2>6 DEF NoPrompt, readVars, histVars, LoopStates
  <2>7. CASE OtherDefers
    BY <2>1, <2>7 DEF OtherDefers, readVars, histVars
  <2>8. QED
    BY <2>2, <2>3, <2>4, <2>5, <2>6, <2>7
<1>2. ModeTold(comm)' /\ PromptInvariant' /\ OneShotInvariant' /\ DeferredKnown'
  BY <1>1, SlotKept
<1>3. InboundType'
  BY <1>1 DEF InboundInvariant, InboundType
<1>4. QED
  BY <1>2, <1>3 DEF InboundInvariant

\* A read takes a prefix of what the peer has sent.
LEMMA ReadStep ==
    ASSUME InboundInvariant, ReadEvent
    PROVE  InboundInvariant'
<1>1. unread \in Seq(Bytes) /\ BufCap \in Nat
  BY InboundAssumption DEF InboundInvariant, InboundType
<1>2. PICK u \in Seq(Bytes) : u = unread
  BY <1>1
<1>3. PICK n \in 1 .. Min({BufCap, Len(u)}) :
         src' = SubSeq(u, 1, n) /\ unread' = SubSeq(u, n + 1, Len(u))
  BY <1>2 DEF ReadEvent
<1>4. Min({BufCap, Len(u)}) \in Nat /\ Min({BufCap, Len(u)}) <= Len(u)
  BY <1>1, MinPair
<1>5. n \in 1 .. Len(u)
  BY <1>3, <1>4
<1>6. src' \in Seq(Bytes) /\ unread' \in Seq(Bytes)
  BY <1>3, <1>5
<1>7. /\ UNCHANGED <<session, strict, buf, tstate, comm, has_deferred, gate, calls, sends,
                     taken, log, overwritten>>
      /\ loop' = "refill"
  BY DEF ReadEvent, histVars
<1>8. ModeTold(comm)' /\ PromptInvariant' /\ OneShotInvariant' /\ DeferredKnown'
  BY <1>7, SlotKept
<1>9. InboundType'
  BY <1>6, <1>7 DEF InboundInvariant, InboundType, LoopStates
<1>10. QED
  BY <1>8, <1>9 DEF InboundInvariant

\* The end of a scan, which may store over a newer value.
LEMMA StoreStep ==
    ASSUME InboundInvariant, ResumeStore
    PROVE  InboundInvariant'
<1>1. /\ UNCHANGED <<session, strict, unread, src, buf, tstate, comm, gate, calls, sends,
                     taken, log>>
      /\ loop' = "prompt"
  BY DEF ResumeStore, readVars
<1>2. Deferred => has_deferred' \/ overwritten'
  BY DEF ResumeStore
<1>3. DeferredKnown'
  BY <1>1, <1>2 DEF DeferredKnown, Deferred
<1>4. ModeTold(comm)' /\ Line(comm)' = Line(comm) /\ Arms(comm)' = Arms(comm)
  BY <1>1 DEF InboundInvariant, ModeTold, Line, Arms
<1>5. PromptInvariant' /\ OneShotInvariant'
  BY <1>1, <1>4, NothingLogged
<1>6. InboundType'
  BY <1>1 DEF InboundInvariant, InboundType, LoopStates
<1>7. QED
  BY <1>3, <1>4, <1>5, <1>6 DEF InboundInvariant

\* comm_invoke_prompt finds the slot idle.
LEMMA PromptCheckedStep ==
    ASSUME InboundInvariant, PromptChecked
    PROVE  InboundInvariant'
<1>1. /\ UNCHANGED <<session, strict, unread, src, buf, tstate, comm, gate, calls, sends,
                     taken, log, has_deferred, overwritten>>
      /\ loop' = "prompting" /\ "INVOKED_PROMPT" \notin comm.flags /\ buf.data = <<>>
  BY DEF PromptChecked, PromptDue, readVars, histVars
<1>2. ModeTold(comm)' /\ DeferredKnown' /\ Line(comm)' = Line(comm) /\ Arms(comm)' = Arms(comm)
  BY <1>1 DEF InboundInvariant, ModeTold, Line, Arms, DeferredKnown, Deferred
<1>3. Len(buf.data) = 0
  BY <1>1
<1>4. PromptInvariant' /\ OneShotInvariant'
  BY <1>1, <1>2, <1>3, NothingLogged
<1>5. InboundType'
  BY <1>1 DEF InboundInvariant, InboundType, LoopStates
<1>6. QED
  BY <1>2, <1>4, <1>5 DEF InboundInvariant

\* A worker leaves the gate.
LEMMA LeaveStep ==
    ASSUME InboundInvariant, HookLeaves
    PROVE  InboundInvariant'
<1>1. /\ UNCHANGED <<session, strict, unread, src, buf, tstate, comm, loop, calls, sends,
                     taken, log, has_deferred, overwritten>>
      /\ gate # <<>> /\ gate' = Tail(gate)
  BY DEF HookLeaves, HookRunning, readVars, histVars
<1>2. ModeTold(comm)' /\ PromptInvariant' /\ OneShotInvariant' /\ DeferredKnown'
  BY <1>1, SlotKept
<1>3. gate' \in Seq(GateKinds) /\ Len(gate') <= Backlog + 1 /\ ~strict'
  <2>1. gate \in Seq(GateKinds) /\ Len(gate) <= Backlog + 1 /\ (strict => gate = <<>>)
    BY DEF InboundInvariant, InboundType
  <2>2. PICK g \in Seq(GateKinds) : g = gate
    BY <2>1
  <2>3. Tail(g) \in Seq(GateKinds) /\ Len(Tail(g)) = Len(g) - 1 /\ Len(g) \in Nat
    BY <1>1, <2>2, HeadTailProperties
  <2>4. QED
    BY <1>1, <2>1, <2>2, <2>3, InboundAssumption
<1>4. InboundType'
  BY <1>1, <1>3 DEF InboundInvariant, InboundType
<1>5. QED
  BY <1>2, <1>4 DEF InboundInvariant

\* Raising or clearing flags of the slot.
LEMMA FlagsType ==
    ASSUME NEW c \in Comms, NEW f \in SUBSET Flags
    PROVE  /\ Raise(c, f) \in Comms /\ Raise(c, f).flags = c.flags \cup f
           /\ Raise(c, f).caps = c.caps /\ Raise(c, f).told = c.told
           /\ Clear(c, f) \in Comms /\ Clear(c, f).flags = c.flags \ f
           /\ Clear(c, f).caps = c.caps /\ Clear(c, f).told = c.told
BY DEF Comms, Raise, Clear

\* Any flag but the mode itself leaves the client told and the mode as it is.
LEMMA FlagsKeepMode ==
    ASSUME NEW c \in Comms, ModeTold(c), NEW f \in SUBSET (Flags \ {"LINE_INPUT"})
    PROVE  /\ ModeTold(Raise(c, f)) /\ ModeTold(Clear(c, f))
           /\ Line(Raise(c, f)) = Line(c) /\ Line(Clear(c, f)) = Line(c)
           /\ Arms(Raise(c, f)) = Arms(c) /\ Arms(Clear(c, f)) = Arms(c)
<1>1. f \in SUBSET Flags
  OBVIOUS
<1>2. Line(Raise(c, f)) = Line(c) /\ Line(Clear(c, f)) = Line(c)
  BY <1>1, FlagsType DEF Line
<1>3. QED
  BY <1>1, <1>2, FlagsType DEF Arms, ModeTold

\* Bytes that are copied have the shape of what the parser returns.
LEMMA CopiedType ==
    ASSUME NEW state \in TelnetStates, NEW bytes \in Seq(Bytes)
    PROVE  /\ Copied(state, bytes) \in Parsers /\ Copied(state, bytes).used = Len(bytes)
           /\ Copied(state, bytes).LINEMODE = "none"
<1>1. Len(bytes) \in Nat /\ <<>> \in Seq(Bytes) /\ Len(<<>>) = 0
  OBVIOUS
<1>2. PICK t \in Parsers : t = TelnetStart(state) /\ t.LINEMODE = "none"
  <2>1. TelnetStart(state) \in Parsers
    BY SubnegAssumption DEF TelnetStart, Parsers
  <2>2. TelnetStart(state).LINEMODE = "none"
    BY DEF TelnetStart
  <2>3. QED
    BY <2>1, <2>2
<1>3. ASSUME NEW n \in Nat, NEW d \in Seq(Bytes), Len(d) <= n
      PROVE  LET c == [t EXCEPT !.used = n, !.dest = d] IN
             c \in Parsers /\ c.used = n /\ c.LINEMODE = "none"
  BY <1>2, <1>3 DEF Parsers
<1>4. Copied(state, bytes) = [t EXCEPT !.used = Len(bytes), !.dest = bytes]
  BY <1>2 DEF Copied
<1>5. PICK n \in Nat : n = Len(bytes) /\ Len(bytes) <= n
  BY <1>1
<1>6. PICK c : c = [t EXCEPT !.used = n, !.dest = bytes]
  OBVIOUS
<1>7. c \in Parsers /\ c.used = n /\ c.LINEMODE = "none"
  BY <1>3, <1>5, <1>6
<1>8. QED
  BY <1>4, <1>5, <1>6, <1>7

\* A chunk goes through the parser into the room that is left for it.
LEMMA RefillStep ==
    ASSUME InboundInvariant, RefillChunk
    PROVE  InboundInvariant'
<1>1. /\ session \in Sessions /\ strict \in BOOLEAN /\ tstate \in TelnetStates /\ comm \in Comms
      /\ src \in Seq(Bytes) /\ buf \in Buffers /\ buf.start + Len(buf.data) <= BufCap
      /\ gate \in Seq(GateKinds) /\ Len(gate) <= Backlog + 1 /\ (strict => gate = <<>>)
      /\ BufCap \in Nat /\ Backlog \in Nat /\ ModeTold(comm)
  BY InboundAssumption DEF InboundInvariant, InboundType
<1>2. PICK b \in Buffers : /\ b = MadeRoom(buf) /\ b.data = buf.data
                           /\ b.start + Len(b.data) <= BufCap
  <2>1. buf.start \in Nat /\ buf.data \in Seq(Bytes) /\ Len(buf.data) \in Nat
    BY <1>1 DEF Buffers
  <2>2. /\ [buf EXCEPT !.start = 0] \in Buffers /\ [buf EXCEPT !.start = 0].data = buf.data
        /\ [buf EXCEPT !.start = 0].start = 0
    BY <1>1 DEF Buffers
  <2>3. PICK c : c = MadeRoom(buf)
    OBVIOUS
  <2>4. c = buf \/ c = [buf EXCEPT !.start = 0]
    BY <2>3 DEF MadeRoom
  <2>5. c \in Buffers /\ c.data = buf.data
    BY <1>1, <2>2, <2>4
  <2>6. c.start + Len(buf.data) <= BufCap
    <3>1. PICK k \in Nat, f \in Nat : k = Len(buf.data) /\ f = buf.start /\ f + k <= BufCap
      BY <1>1, <2>1
    <3>2. c.start \in {0, f}
      BY <2>2, <2>4, <3>1
    <3>3. QED
      BY <1>1, <3>1, <3>2
  <2>7. QED
    BY <2>3, <2>5, <2>6
<1>3. PICK data \in Seq(Bytes) : data = b.data
  BY DEF Buffers
<1>4. PICK start \in Nat : start = b.start /\ start + Len(data) <= BufCap
  BY <1>2, <1>3 DEF Buffers
<1>5. PICK room \in Nat : room = Room(b) /\ start + Len(data) + room = BufCap
  <2>1. PICK k \in Nat : k = Len(data)
    OBVIOUS
  <2>2. BufCap - (start + k) \in Nat /\ start + k + (BufCap - (start + k)) = BufCap
    <3>1. BufCap \in Nat /\ start + k <= BufCap
      BY <1>4, <2>1, InboundAssumption
    <3>2. QED
      BY <3>1
  <2>3. Room(b) = BufCap - (start + k)
    BY <1>3, <1>4, <2>1 DEF Room
  <2>4. QED
    BY <2>1, <2>2, <2>3
<1>6. PICK s \in Seq(Bytes) : s = src
  BY <1>1
<1>7. PICK n \in 0 .. Len(s) : n = Min({Len(s), room}) /\ n <= room
  <2>1. Len(s) \in Nat
    OBVIOUS
  <2>2. Min({Len(s), room}) \in {Len(s), room} /\ Min({Len(s), room}) <= Len(s)
                                            /\ Min({Len(s), room}) <= room
    BY <2>1, MinPair
  <2>3. QED
    BY <2>1, <2>2
<1>8. PICK chunk \in Seq(Bytes) : chunk = SubSeq(s, 1, n) /\ Len(chunk) = n
  <2>1. n \in Nat /\ (\A i \in 1 .. n : s[i] \in Bytes) /\ 1 \in Int /\ n \in Int
    <3>1. Len(s) \in Nat /\ \A i \in 1 .. Len(s) : s[i] \in Bytes
      BY LenProperties, ElementOfSeq
    <3>2. n \in Nat /\ n <= Len(s)
      BY <3>1
    <3>3. QED
      BY <3>1, <3>2
  <2>2. /\ SubSeq(s, 1, n) \in Seq(Bytes)
        /\ Len(SubSeq(s, 1, n)) = IF 1 <= n THEN n - 1 + 1 ELSE 0
    BY <2>1, SubSeqProperties
  <2>3. QED
    <3>1. Len(SubSeq(s, 1, n)) = n
      <4>1. PICK k : k = Len(SubSeq(s, 1, n))
        OBVIOUS
      <4>2. k = IF 1 <= n THEN n - 1 + 1 ELSE 0
        BY <2>2, <4>1
      <4>3. k = n
        BY <2>1, <4>2
      <4>4. QED
        BY <4>1, <4>3
    <3>2. QED
      BY <2>2, <3>1
<1>9. PICK p \in {IF session.telnet /\ ~paused THEN ProcessInbound(tstate, chunk)
                                               ELSE Copied(tstate, chunk)} :
        LET subneg == p.sb # <<>>
            full == subneg /\ ~strict /\ Busy IN
        /\ buf' = [b EXCEPT !.data = @ \o p.dest]
        /\ src' = SubSeq(s, p.used + 1, Len(s))
        /\ tstate' = p.state
        /\ comm' = IF full THEN Defer(TelnetOptions(comm, p)) ELSE TelnetOptions(comm, p)
        /\ has_deferred' = (has_deferred \/ full)
        /\ gate' = IF subneg /\ ~strict /\ ~Busy THEN <<"subneg">> ELSE gate
  BY <1>2, <1>5, <1>6, <1>7, <1>8 DEF RefillChunk
<1>10. /\ UNCHANGED <<session, strict, unread, loop, calls, sends, taken, log, overwritten>>
       /\ loop = "refill"
  BY DEF RefillChunk
<1>11. p \in Parsers /\ p.used <= n /\ (p.LINEMODE # "none" => session.telnet)
  <2>1. CASE session.telnet /\ ~paused
    <3>1. p = ProcessInbound(tstate, chunk)
      BY <1>9, <2>1
    <3>2. p \in Parsers /\ p.used <= Len(chunk)
      BY <1>1, <3>1, ParserBounded
    <3>3. QED
      BY <1>8, <2>1, <3>2, Zenon
  <2>2. CASE ~(session.telnet /\ ~paused)
    <3>1. p = Copied(tstate, chunk)
      BY <1>9, <2>2
    <3>2. n \in Nat
      BY <1>7
    <3>3. p \in Parsers /\ p.used = Len(chunk) /\ p.LINEMODE = "none"
      BY <1>1, <3>1, CopiedType
    <3>4. p.used = n
      BY <1>8, <3>3, Zenon
    <3>5. QED
      BY <3>2, <3>3, <3>4
  <2>3. QED
    BY <2>1, <2>2
<1>12. PICK dest \in Seq(Bytes), used \in Nat :
         dest = p.dest /\ used = p.used /\ Len(dest) <= used /\ used <= n
  BY <1>11 DEF Parsers
<1>13. src' \in Seq(Bytes)
  <2>1. src' = SubSeq(s, used + 1, Len(s)) /\ Len(s) \in Nat
    BY <1>9, <1>12
  <2>2. \A i \in used + 1 .. Len(s) : s[i] \in Bytes
    BY <2>1
  <2>3. QED
    BY <2>1, <2>2, SubSeqProperties
<1>14. /\ buf' \in Buffers /\ buf'.start + Len(buf'.data) <= BufCap
       /\ Len(buf.data) # 0 => Len(buf'.data) # 0
  <2>1. data \o dest \in Seq(Bytes) /\ Len(data \o dest) = Len(data) + Len(dest)
    BY ConcatProperties
  <2>2. PICK all \in Seq(Bytes) : all = data \o dest /\ Len(all) = Len(data) + Len(dest)
    BY <2>1
  <2>3. buf' = [b EXCEPT !.data = all]
    BY <1>3, <1>9, <1>12, <2>2
  <2>4. buf' \in Buffers /\ buf'.start = start /\ buf'.data = all
    BY <1>4, <2>3 DEF Buffers
  <2>5. PICK k \in Nat, e \in Nat : k = Len(data) /\ e = Len(dest)
    OBVIOUS
  <2>6. e <= n /\ n <= room /\ start + k + room = BufCap
    BY <1>5, <1>7, <1>12, <2>5
  <2>7. start + (k + e) <= BufCap /\ (k # 0 => k + e # 0)
    BY <1>1, <1>7, <2>6
  <2>8. QED
    BY <1>2, <1>3, <2>2, <2>4, <2>5, <2>7
<1>15. gate' \in Seq(GateKinds) /\ Len(gate') <= Backlog + 1 /\ (strict' => gate' = <<>>)
  <2>1. gate' = gate \/ (gate' = <<"subneg">> /\ ~strict)
    BY <1>9
  <2>2. CASE gate' = gate
    BY <1>1, <1>10, <2>2
  <2>3. CASE gate' = <<"subneg">> /\ ~strict
    <3>1. <<"subneg">> \in Seq(GateKinds) /\ Len(<<"subneg">>) = 1
      BY OneExecution DEF GateKinds
    <3>2. QED
      BY <1>1, <1>10, <2>3, <3>1
  <2>4. QED
    BY <2>1, <2>2, <2>3
<1> DEFINE o == TelnetOptions(comm, p)
<1>16. o \in Comms /\ ModeTold(o) /\ o.flags = comm.flags /\ Line(o) = Line(comm) /\ Arms(o) = Arms(comm)
  BY <1>1, <1>11, OptionsType DEF Line, Arms
<1>17. comm' \in {o, Defer(o)} /\ (comm' = o \/ has_deferred')
  BY <1>9
<1> HIDE DEF o
<1>18. {"DEFERRED_INBOUND"} \in SUBSET (Flags \ {"LINE_INPUT"}) /\ {"DEFERRED_INBOUND"} \in SUBSET Flags
  BY DEF Flags
<1>19. /\ Defer(o) \in Comms /\ ModeTold(Defer(o)) /\ Line(Defer(o)) = Line(o) /\ Arms(Defer(o)) = Arms(o)
       /\ Defer(o).flags = o.flags \cup {"DEFERRED_INBOUND"}
  BY <1>16, <1>18, FlagsType, FlagsKeepMode DEF Defer
<1>20. PICK d \in Comms : /\ d = comm' /\ ModeTold(d) /\ Line(d) = Line(comm) /\ Arms(d) = Arms(comm)
                          /\ comm.flags \subseteq d.flags
  BY <1>16, <1>17, <1>19
<1>21. ModeTold(comm)' /\ Line(comm)' = Line(comm) /\ Arms(comm)' = Arms(comm)
  BY <1>10, <1>20 DEF ModeTold, Line, Arms
<1>22. DeferredKnown'
  <2>1. CASE comm' = o
    BY <1>9, <1>10, <1>16, <2>1 DEF InboundInvariant, DeferredKnown, Deferred
  <2>2. CASE has_deferred'
    BY <2>2 DEF DeferredKnown
  <2>3. QED
    BY <1>17, <2>1, <2>2
<1>23. PromptInvariant' /\ OneShotInvariant'
  <2>1. "INVOKED_PROMPT" \in comm.flags => "INVOKED_PROMPT" \in comm'.flags
    BY <1>20
  <2>2. loop' # "prompting" /\ loop' \notin {"char", "rechar"}
    BY <1>10
  <2>3. QED
    BY <1>10, <1>14, <1>21, <2>1, <2>2, NothingLogged
<1>24. InboundType'
  <2>1. tstate' \in TelnetStates
    BY <1>9, <1>11 DEF Parsers
  <2>2. QED
    BY <1>10, <1>13, <1>14, <1>15, <1>20, <2>1 DEF InboundInvariant, InboundType
<1>25. QED
  BY <1>21, <1>22, <1>23, <1>24 DEF InboundInvariant

\* Every flag that the steps below raise or clear leaves the mode alone.
LEMMA StepFlags ==
    /\ {"DEFERRED_INBOUND"} \in SUBSET (Flags \ {"LINE_INPUT"})
    /\ {"AWAITING_HOOK"} \in SUBSET (Flags \ {"LINE_INPUT"})
    /\ {"INVOKED_PROMPT"} \in SUBSET (Flags \ {"LINE_INPUT"})
    /\ {"DEFERRED_INBOUND"} \in SUBSET Flags
    /\ {"AWAITING_HOOK"} \in SUBSET Flags
    /\ {"INVOKED_PROMPT"} \in SUBSET Flags
BY DEF Flags

\* comm_defer_input, and the end of a wait for a hook.
LEMMA DeferType ==
    ASSUME NEW c \in Comms, ModeTold(c)
    PROVE  /\ Defer(c) \in Comms /\ ModeTold(Defer(c)) /\ Line(Defer(c)) = Line(c)
           /\ Arms(Defer(c)) = Arms(c) /\ Defer(c).flags = c.flags \cup {"DEFERRED_INBOUND"}
BY StepFlags, FlagsType, FlagsKeepMode DEF Defer

\* comm_process_input takes the slot, or the scan does.
LEMMA ResumedStep ==
    ASSUME InboundInvariant, ProcessBegins \/ ResumeScan
    PROVE  InboundInvariant'
<1>1. comm \in Comms /\ ModeTold(comm) /\ loop \in LoopStates
  BY DEF InboundInvariant, InboundType
<1> DEFINE c == Clear(comm, {"DEFERRED_INBOUND"})
<1>2. /\ c \in Comms /\ ModeTold(c) /\ Line(c) = Line(comm) /\ Arms(c) = Arms(comm)
      /\ c.flags = comm.flags \ {"DEFERRED_INBOUND"}
  BY <1>1, StepFlags, FlagsType, FlagsKeepMode
<1>3. /\ UNCHANGED <<session, strict, unread, src, buf, tstate, gate, calls, sends,
                     taken, log, has_deferred, overwritten>>
      /\ comm' = c \/ comm' = comm
      /\ loop' \in LoopStates \ {"prompting"}
      /\ loop' \in {"char", "rechar"} => ~Line(comm)
  <2>1. CASE ProcessBegins
    BY <2>1 DEF ProcessBegins, readVars, histVars, LoopStates, Line
  <2>2. CASE ResumeScan
    BY <2>2 DEF ResumeScan, readVars, histVars, LoopStates
  <2>3. QED
    BY <2>1, <2>2
<1> HIDE DEF c
<1>4. PICK d \in Comms : /\ d = comm' /\ ModeTold(d) /\ Line(d) = Line(comm) /\ Arms(d) = Arms(comm)
                         /\ comm.flags \ {"DEFERRED_INBOUND"} \subseteq d.flags
                         /\ d.flags \subseteq comm.flags
  BY <1>1, <1>2, <1>3
<1>5. ModeTold(comm)' /\ Line(comm)' = Line(comm) /\ Arms(comm)' = Arms(comm)
  BY <1>3, <1>4 DEF ModeTold, Line, Arms
<1>6. DeferredKnown'
  BY <1>3, <1>4 DEF InboundInvariant, DeferredKnown, Deferred
<1>7. PromptInvariant' /\ OneShotInvariant'
  <2>1. "INVOKED_PROMPT" \in comm.flags => "INVOKED_PROMPT" \in comm'.flags
    BY <1>4
  <2>2. QED
    BY <1>3, <1>5, <2>1, NothingLogged
<1>8. InboundType'
  BY <1>3, <1>4 DEF InboundInvariant, InboundType
<1>9. QED
  BY <1>5, <1>6, <1>7, <1>8 DEF InboundInvariant

\* A hook on a worker chooses an input mode while the loop is elsewhere.
LEMMA ChoosesStep ==
    ASSUME InboundInvariant, HookChoosesMode
    PROVE  InboundInvariant'
<1>1. comm \in Comms /\ ModeTold(comm) /\ session \in Sessions /\ calls \in 0 .. session.calls
  BY DEF InboundInvariant, InboundType
<1>2. PICK d \in ModeChoices(comm) : comm' = d /\ calls' = CallsAfter(comm, d)
  BY DEF HookChoosesMode
<1>3. /\ UNCHANGED <<session, strict, unread, src, buf, tstate, gate, loop, sends,
                     taken, log, has_deferred, overwritten>>
      /\ loop' \notin {"char", "rechar", "prompting"}
  BY DEF HookChoosesMode, MutexFree, readVars, histVars
<1>4. /\ d \in Comms /\ ModeTold(d) /\ Keeps(comm, d)
      /\ CallsAfter(comm, d) \in 0 .. session.calls
      /\ \A n \in Nat : n + Arms(comm) <= session.calls - calls
                           => n + Arms(d) <= session.calls - CallsAfter(comm, d)
  BY <1>1, ChoiceType
<1>5. ModeTold(comm)' /\ Arms(comm)' = Arms(d)
  BY <1>2, <1>3, <1>4 DEF ModeTold, Line, Arms
<1>6. DeferredKnown'
  BY <1>2, <1>3, <1>4 DEF InboundInvariant, DeferredKnown, Deferred, Keeps
<1>7. PromptInvariant' /\ OneShotInvariant'
  <2>1. "INVOKED_PROMPT" \in comm.flags => "INVOKED_PROMPT" \in comm'.flags
    BY <1>2, <1>4 DEF Keeps
  <2>2. \A n \in Nat : n + Arms(comm) <= session.calls - calls
                          => n + Arms(comm)' <= session.calls - calls'
    BY <1>2, <1>4, <1>5
  <2>3. QED
    BY <1>3, <2>1, <2>2, NothingLogged
<1>8. InboundType'
  BY <1>2, <1>3, <1>4 DEF InboundInvariant, InboundType
<1>9. QED
  BY <1>5, <1>6, <1>7, <1>8 DEF InboundInvariant

\* The completion callbacks publish what they defer.
LEMMA CompletesStep ==
    ASSUME InboundInvariant, HookCompletes
    PROVE  InboundInvariant'
<1>1. comm \in Comms /\ ModeTold(comm)
  BY DEF InboundInvariant, InboundType
<1> DEFINE c == Clear(comm, {"AWAITING_HOOK"})
<1>2. /\ c \in Comms /\ ModeTold(c) /\ Line(c) = Line(comm) /\ Arms(c) = Arms(comm)
      /\ c.flags = comm.flags \ {"AWAITING_HOOK"}
  BY <1>1, StepFlags, FlagsType, FlagsKeepMode
<1>3. comm' = comm \/ (comm' \in {Defer(comm), Defer(c)} /\ has_deferred')
  BY DEF HookCompletes, Completed
<1>4. /\ UNCHANGED <<session, strict, unread, src, buf, tstate, loop, calls, sends,
                     taken, log, overwritten>>
      /\ loop' \notin {"char", "rechar", "prompting"}
      /\ has_deferred => has_deferred'
      /\ gate # <<>> /\ gate' = <<"done">> \o Tail(gate)
  BY DEF HookCompletes, HookRunning, Completed, MutexFree, readVars, histVars
<1> HIDE DEF c
<1>5. PICK d \in Comms : /\ d = comm' /\ ModeTold(d) /\ Line(d) = Line(comm) /\ Arms(d) = Arms(comm)
                         /\ comm.flags \ {"AWAITING_HOOK"} \subseteq d.flags
  <2>1. CASE comm' = comm
    BY <1>1, <2>1
  <2>2. CASE comm' = Defer(comm)
    BY <1>1, <2>2, DeferType
  <2>3. CASE comm' = Defer(c)
    BY <1>2, <2>3, DeferType
  <2>4. QED
    BY <1>3, <2>1, <2>2, <2>3
<1>6. ModeTold(comm)' /\ Line(comm)' = Line(comm) /\ Arms(comm)' = Arms(comm)
  BY <1>4, <1>5 DEF ModeTold, Line, Arms
<1>7. DeferredKnown'
  BY <1>3, <1>4 DEF InboundInvariant, DeferredKnown, Deferred
<1>8. PromptInvariant' /\ OneShotInvariant'
  <2>1. "INVOKED_PROMPT" \in comm.flags => "INVOKED_PROMPT" \in comm'.flags
    BY <1>5
  <2>2. QED
    BY <1>4, <1>6, <2>1, NothingLogged
<1>9. gate' \in Seq(GateKinds) /\ Len(gate') <= Backlog + 1 /\ ~strict
  <2>1. gate \in Seq(GateKinds) /\ Len(gate) <= Backlog + 1 /\ (strict => gate = <<>>)
    BY DEF InboundInvariant, InboundType
  <2>2. PICK g \in Seq(GateKinds) : g = gate
    BY <2>1
  <2>3. PICK t \in Seq(GateKinds) : t = Tail(g) /\ Len(t) = Len(g) - 1 /\ Len(g) \in Nat
    <3>1. g # <<>>
      BY <1>4, <2>2
    <3>2. Tail(g) \in Seq(GateKinds) /\ Len(Tail(g)) = Len(g) - 1 /\ Len(g) \in Nat
      BY <3>1, HeadTailProperties
    <3>3. QED
      BY <3>2
  <2>4. PICK h \in Seq(GateKinds) : h = <<"done">> /\ Len(h) = 1
    BY OneExecution DEF GateKinds
  <2>5. h \o t \in Seq(GateKinds) /\ Len(h \o t) = Len(h) + Len(t)
    BY ConcatProperties
  <2>6. PICK u \in Seq(GateKinds) : u = h \o t /\ Len(u) = Len(h) + Len(t)
    BY <2>5
  <2>7. gate' = u
    BY <1>4, <2>2, <2>3, <2>4, <2>6
  <2>8. Len(u) = Len(g)
    BY <2>3, <2>4, <2>6
  <2>9. QED
    BY <1>4, <2>1, <2>2, <2>7, <2>8
<1>10. InboundType'
  BY <1>4, <1>5, <1>9 DEF InboundInvariant, InboundType
<1>11. QED
  BY <1>6, <1>7, <1>8, <1>10 DEF InboundInvariant

\* comm_invoke_inbound_message accepted: the hook runs inline and may choose a
\* mode, or it goes to a worker and the input behind it is deferred.
LEMMA AcceptedType ==
    ASSUME InboundType, NEW c \in Comms, ModeTold(c), NEW again \in BOOLEAN, NEW m,
           "DEFERRED_INBOUND" \in c.flags => has_deferred \/ overwritten,
           Accepted(c, again, m), overwritten' = overwritten, strict' = strict,
           session' = session
    PROVE  /\ comm' \in Comms /\ ModeTold(comm)' /\ DeferredKnown' /\ log' = Append(log, m)
           /\ gate' \in Seq(GateKinds) /\ Len(gate') <= Backlog + 1 /\ (strict' => gate' = <<>>)
           /\ calls' \in 0 .. session.calls
           /\ \A n \in Nat : n + Arms(c) <= session.calls - calls
                                => n + Arms(comm)' <= session.calls - calls'
<1>1. /\ session \in Sessions /\ calls \in 0 .. session.calls
      /\ gate \in Seq(GateKinds) /\ Len(gate) <= Backlog + 1 /\ (strict => gate = <<>>)
      /\ Backlog \in Nat
  BY InboundAssumption DEF InboundType
<1>2. log' = Append(log, m)
  BY DEF Accepted
<1>3. CASE strict
  <2>1. PICK d \in ModeChoices(c) :
           /\ comm' = IF again THEN Defer(d) ELSE d
           /\ calls' = CallsAfter(c, d)
           /\ has_deferred' = (has_deferred \/ again) /\ gate' = gate
    BY <1>3 DEF Accepted
  <2>2. /\ d \in Comms /\ ModeTold(d) /\ Keeps(c, d)
        /\ CallsAfter(c, d) \in 0 .. session.calls
        /\ \A n \in Nat : n + Arms(c) <= session.calls - calls
                             => n + Arms(d) <= session.calls - CallsAfter(c, d)
    BY <1>1, ChoiceType
  <2>3. /\ Defer(d) \in Comms /\ ModeTold(Defer(d)) /\ Arms(Defer(d)) = Arms(d)
    BY <2>2, DeferType
  <2>4. PICK e \in Comms : e = comm' /\ ModeTold(e) /\ Arms(e) = Arms(d) /\ (e = d \/ again)
    BY <2>1, <2>2, <2>3
  <2>5. ModeTold(comm)' /\ Arms(comm)' = Arms(d)
    BY <2>4 DEF ModeTold, Line, Arms
  <2>6. DeferredKnown'
    BY <2>1, <2>2, <2>4 DEF DeferredKnown, Deferred, Keeps
  <2>7. QED
    BY <1>1, <1>2, <2>1, <2>2, <2>4, <2>5, <2>6
<1>4. CASE ~strict
  <2>1. comm' = Defer(c) /\ has_deferred' = TRUE /\ gate' = <<"inbound">> /\ calls' = calls
    BY <1>4 DEF Accepted
  <2>2. PICK e \in Comms : e = comm' /\ ModeTold(e) /\ Arms(e) = Arms(c)
    BY <2>1, DeferType
  <2>3. ModeTold(comm)' /\ Arms(comm)' = Arms(c)
    BY <2>2 DEF ModeTold, Line, Arms
  <2>4. DeferredKnown'
    BY <2>1 DEF DeferredKnown
  <2>5. gate' \in Seq(GateKinds) /\ Len(gate') = 1
    BY <2>1, OneExecution DEF GateKinds
  <2>6. Len(gate') <= Backlog + 1
    BY <1>1, <2>5
  <2>7. QED
    BY <1>1, <1>2, <1>4, <2>1, <2>2, <2>3, <2>4, <2>5, <2>6
<1>5. QED
  BY <1>3, <1>4 DEF InboundType

\* The slot refuses a message: it is parsed again later.
LEMMA QueueFullType ==
    ASSUME NEW c \in Comms, ModeTold(c), QueueFull(c), session' = session
    PROVE  /\ comm' \in Comms /\ ModeTold(comm)' /\ DeferredKnown' /\ Arms(comm)' = Arms(c)
           /\ Line(comm)' = Line(c) /\ UNCHANGED <<log, gate, calls>>
<1>1. comm' = Defer(c) /\ has_deferred' = TRUE /\ UNCHANGED <<log, gate, calls>>
  BY DEF QueueFull
<1>2. PICK e \in Comms : e = comm' /\ ModeTold(e) /\ Arms(e) = Arms(c) /\ Line(e) = Line(c)
  BY <1>1, DeferType
<1>3. QED
  BY <1>1, <1>2 DEF ModeTold, Line, Arms, DeferredKnown

\* A line is dispatched or, when the slot became busy, left stripped.
LEMMA LineStep ==
    ASSUME InboundInvariant, FrameLine
    PROVE  InboundInvariant'
<1>1. /\ comm \in Comms /\ ModeTold(comm) /\ InboundType
      /\ buf \in Buffers /\ buf.start + Len(buf.data) <= BufCap /\ taken \in Nat
      /\ BufCap \in Nat /\ (Deferred => has_deferred \/ overwritten)
  BY InboundAssumption DEF InboundInvariant, InboundType, DeferredKnown
<1>2. /\ UNCHANGED <<session, strict, unread, src, tstate, sends, overwritten>>
      /\ loop' \in LoopStates \ {"prompting", "char", "rechar"}
      /\ HasLine(buf.data) /\ TakeLine
  BY ReturnedType DEF FrameLine, readVars, LoopStates
<1> DEFINE c == Clear(comm, {"INVOKED_PROMPT"})
<1>3. /\ c \in Comms /\ ModeTold(c) /\ Line(c) = Line(comm) /\ Arms(c) = Arms(comm)
      /\ c.flags = comm.flags \ {"INVOKED_PROMPT"}
  BY <1>1, StepFlags, FlagsType, FlagsKeepMode
<1>4. PICK data \in Seq(Bytes), start \in Nat : data = buf.data /\ start = buf.start
  BY <1>1 DEF Buffers
<1>5. PICK len \in Nat : len = Len(data) /\ start + len <= BufCap
  BY <1>1, <1>4
<1>6. PICK f : f = FindNewlineAndStrip(data)
  OBVIOUS
<1>7. /\ f.body \in Seq(Bytes) /\ f.edited \in Seq(Bytes) /\ f.skip \in Nat
      /\ f.next \in 2 .. Len(data) + 1
      /\ Len(f.edited) + f.skip = Len(data) /\ Len(f.edited) # 0
  BY <1>2, <1>4, <1>6, NewlineType
<1>8. PICK body \in Seq(Bytes), edited \in Seq(Bytes), skip \in Nat, next \in 2 .. len + 1 :
         body = f.body /\ edited = f.edited /\ skip = f.skip /\ next = f.next
  BY <1>5, <1>7
<1>9. PICK e \in Nat : e = Len(edited) /\ e + skip = len /\ e # 0
  BY <1>5, <1>7, <1>8
<1> HIDE DEF c
<1>10. CASE ~strict /\ Busy
  <2>1. buf' = [start |-> start + skip, data |-> edited] /\ taken' = taken + skip /\ QueueFull(c)
    BY <1>2, <1>4, <1>6, <1>8, <1>10 DEF TakeLine, c
  <2>2. buf' \in Buffers /\ buf'.start = start + skip /\ buf'.data = edited
    BY <2>1 DEF Buffers
  <2>3. start + skip + e <= BufCap
    BY <1>1, <1>5, <1>9
  <2>4. buf'.start + Len(buf'.data) <= BufCap /\ Len(buf'.data) # 0
    BY <1>9, <2>2, <2>3
  <2>5. /\ comm' \in Comms /\ ModeTold(comm)' /\ DeferredKnown' /\ Arms(comm)' = Arms(c)
        /\ UNCHANGED <<log, gate, calls>>
    BY <1>2, <1>3, <2>1, QueueFullType
  <2>6. PromptInvariant' /\ OneShotInvariant'
    BY <1>2, <1>3, <2>4, <2>5, NothingLogged
  <2>7. taken' \in Nat
    BY <1>1, <2>1
  <2>8. InboundType'
    BY <1>2, <2>2, <2>4, <2>5, <2>7 DEF InboundInvariant, InboundType
  <2>9. QED
    BY <2>5, <2>6, <2>8 DEF InboundInvariant
<1>11. CASE ~(~strict /\ Busy)
  <2> DEFINE m == Message("line", taken + skip, body)
             rest == SubSeq(data, next, len)
  <2>1. /\ buf' = [start |-> start + next - 1, data |-> rest]
        /\ taken' = taken + (next - 1) /\ Accepted(c, FALSE, m)
    BY <1>2, <1>4, <1>5, <1>6, <1>8, <1>11 DEF TakeLine, c
  <2>2. m \in Entries /\ m.kind = "line"
    BY <1>1 DEF Entries, Message
  <2>3. rest \in Seq(Bytes) /\ Len(rest) = len - next + 1
    <3>1. next \in Int /\ len \in Int /\ \A i \in next .. len : data[i] \in Bytes
      BY <1>5
    <3>2. rest \in Seq(Bytes) /\ Len(rest) = IF next <= len THEN len - next + 1 ELSE 0
      BY <3>1, SubSeqProperties
    <3>3. PICK k : k = Len(rest)
      OBVIOUS
    <3>4. k = IF next <= len THEN len - next + 1 ELSE 0
      BY <3>2, <3>3
    <3>5. k = len - next + 1
      BY <3>4
    <3>6. QED
      BY <3>2, <3>3, <3>5
  <2> HIDE DEF m, rest
  <2>4. start + next - 1 \in Nat /\ taken' \in Nat
    BY <1>1, <2>1
  <2>5. buf' \in Buffers /\ buf'.start = start + next - 1 /\ buf'.data = rest
    BY <2>1, <2>3, <2>4 DEF Buffers
  <2>6. start + next - 1 + (len - next + 1) <= BufCap
    BY <1>1, <1>5
  <2>7. buf'.start + Len(buf'.data) <= BufCap
    BY <2>3, <2>5, <2>6
  <2>8. "DEFERRED_INBOUND" \in c.flags => has_deferred \/ overwritten
    BY <1>1, <1>3 DEF Deferred
  <2>9. /\ comm' \in Comms /\ ModeTold(comm)' /\ DeferredKnown' /\ log' = Append(log, m)
        /\ gate' \in Seq(GateKinds) /\ Len(gate') <= Backlog + 1 /\ (strict' => gate' = <<>>)
        /\ calls' \in 0 .. session.calls
        /\ \A n \in Nat : n + Arms(c) <= session.calls - calls
                             => n + Arms(comm)' <= session.calls - calls'
    BY <1>1, <1>2, <1>3, <2>1, <2>8, AcceptedType
  <2>10. log' \in Seq(Entries) /\ PromptInvariant' /\ OneShotInvariant'
    BY <1>2, <1>3, <2>2, <2>9, EntryLogged
  <2>11. InboundType'
    BY <1>2, <2>4, <2>5, <2>7, <2>9, <2>10 DEF InboundInvariant, InboundType
  <2>12. QED
    BY <2>9, <2>10, <2>11 DEF InboundInvariant
<1>12. QED
  BY <1>10, <1>11

\* A character sequence is dispatched and character input disarmed.
LEMMA CharStep ==
    ASSUME InboundInvariant, FrameChar
    PROVE  InboundInvariant'
<1>1. /\ comm \in Comms /\ ModeTold(comm) /\ InboundType /\ strict \in BOOLEAN
      /\ buf \in Buffers /\ buf.start + Len(buf.data) <= BufCap /\ taken \in Nat
      /\ BufCap \in Nat /\ (Deferred => has_deferred \/ overwritten)
      /\ session \in Sessions /\ calls \in 0 .. session.calls
  BY InboundAssumption DEF InboundInvariant, InboundType, DeferredKnown
<1>2. /\ UNCHANGED <<session, strict, unread, src, tstate, sends, overwritten>>
      /\ loop' \in LoopStates \ {"prompting", "char", "rechar"}
      /\ loop \in {"char", "rechar"} /\ TakeChar
      /\ FindCharInputSequence(buf.data, session.ansi).found
  BY ReturnedType DEF FrameChar, readVars, LoopStates
<1> DEFINE b == Clear(comm, {"INVOKED_PROMPT"})
           c == SetLineInput(b, TRUE)
<1>3. b \in Comms /\ ModeTold(b) /\ b.flags = comm.flags \ {"INVOKED_PROMPT"}
  BY <1>1, StepFlags, FlagsType, FlagsKeepMode
<1> HIDE DEF b
<1>4. c \in Comms /\ ModeTold(c) /\ Keeps(b, c) /\ Line(c)
  BY <1>3, SetModeType
<1>5. Arms(c) = 0 /\ Arms(comm) = 1
  BY <1>2, <1>4 DEF Arms, InboundInvariant, OneShotInvariant
<1>6. "DEFERRED_INBOUND" \in c.flags => has_deferred \/ overwritten
  BY <1>1, <1>3, <1>4 DEF Deferred, Keeps
<1> HIDE DEF c
<1>7. PICK data \in Seq(Bytes), start \in Nat : data = buf.data /\ start = buf.start
  BY <1>1 DEF Buffers
<1>8. PICK len \in Nat : len = Len(data) /\ start + len <= BufCap /\ len # 0
  <2>1. session.ansi \in BOOLEAN
    BY <1>1, SessionType
  <2>2. Len(data) # 0
    BY <1>2, <1>7, <2>1, SequenceType
  <2>3. QED
    BY <1>1, <1>7, <2>2
<1>9. PICK used \in 0 .. len : used = FindCharInputSequence(data, session.ansi).len
  <2>1. session.ansi \in BOOLEAN
    BY <1>1, SessionType
  <2>2. QED
    BY <1>8, <2>1, SequenceType
<1>10. ASSUME NEW left \in 0 .. len
       PROVE  /\ SubSeq(data, left + 1, len) \in Seq(Bytes)
              /\ Len(SubSeq(data, left + 1, len)) = len - left
  <2>1. left + 1 \in Int /\ len \in Int /\ \A i \in left + 1 .. len : data[i] \in Bytes
    BY <1>8
  <2>2. /\ SubSeq(data, left + 1, len) \in Seq(Bytes)
        /\ Len(SubSeq(data, left + 1, len)) = IF left + 1 <= len THEN len - (left + 1) + 1 ELSE 0
    BY <2>1, SubSeqProperties
  <2>3. PICK k : k = Len(SubSeq(data, left + 1, len))
    OBVIOUS
  <2>4. k = IF left + 1 <= len THEN len - (left + 1) + 1 ELSE 0
    BY <2>2, <2>3
  <2>5. k = len - left
    BY <2>4
  <2>6. QED
    BY <2>2, <2>3, <2>5
<1>11. ASSUME NEW left \in 0 .. len, taken' = taken + left,
              buf' = [start |-> start + left, data |-> SubSeq(data, left + 1, len)]
       PROVE  /\ buf' \in Buffers /\ buf'.start + Len(buf'.data) <= BufCap /\ taken' \in Nat
              /\ Len(buf'.data) = len - left
  <2>1. PICK rest \in Seq(Bytes) : rest = SubSeq(data, left + 1, len) /\ Len(rest) = len - left
    BY <1>10
  <2>2. buf' = [start |-> start + left, data |-> rest] /\ start + left \in Nat
    BY <1>11, <2>1
  <2>3. buf' \in Buffers /\ buf'.start = start + left /\ buf'.data = rest
    BY <2>2 DEF Buffers
  <2>4. start + left + (len - left) <= BufCap /\ taken' \in Nat
    BY <1>1, <1>8, <1>11
  <2>5. QED
    BY <2>1, <2>3, <2>4
<1>12. CASE ~strict /\ Busy
  <2>1. /\ buf' = [start |-> start + 0, data |-> SubSeq(data, 0 + 1, len)]
        /\ taken' = taken + 0 /\ QueueFull(c)
    BY <1>2, <1>7, <1>8, <1>12 DEF TakeChar, b, c
  <2>2. /\ buf' \in Buffers /\ buf'.start + Len(buf'.data) <= BufCap /\ taken' \in Nat
        /\ Len(buf'.data) # 0
    <3>1. 0 \in 0 .. len /\ len - 0 # 0
      BY <1>8
    <3>2. QED
      BY <1>11, <2>1, <3>1
  <2>3. /\ comm' \in Comms /\ ModeTold(comm)' /\ DeferredKnown' /\ Arms(comm)' = Arms(c)
        /\ UNCHANGED <<log, gate, calls>>
    BY <1>2, <1>4, <2>1, QueueFullType
  <2>4. \A n \in Nat : n + Arms(comm) <= session.calls - calls
                          => n + Arms(comm)' <= session.calls - calls'
    <3>1. session.calls \in Nat
      BY <1>1, SessionType
    <3>2. Arms(comm)' = 0 /\ calls' = calls
      BY <1>5, <2>3
    <3>3. QED
      BY <1>1, <1>5, <3>1, <3>2
  <2>5. PromptInvariant' /\ OneShotInvariant'
    BY <1>2, <2>2, <2>3, <2>4, NothingLogged
  <2>6. InboundType'
    BY <1>2, <2>2, <2>3 DEF InboundInvariant, InboundType
  <2>7. QED
    BY <2>3, <2>5, <2>6 DEF InboundInvariant
<1>13. CASE ~(~strict /\ Busy)
  <2> DEFINE m == Message("char", taken, SubSeq(data, 1, used))
  <2>1. /\ buf' = [start |-> start + used, data |-> SubSeq(data, used + 1, len)]
        /\ taken' = taken + used /\ Accepted(c, strict, m)
    BY <1>2, <1>7, <1>8, <1>9, <1>13 DEF TakeChar, b, c
  <2>2. SubSeq(data, 1, used) \in Seq(Bytes)
    <3>1. 1 \in Int /\ used \in Int /\ \A i \in 1 .. used : data[i] \in Bytes
      BY <1>8, <1>9
    <3>2. QED
      BY <3>1, SubSeqProperties
  <2>3. m \in Entries /\ m.kind = "char"
    BY <1>1, <2>2 DEF Entries, Message
  <2> HIDE DEF m
  <2>4. buf' \in Buffers /\ buf'.start + Len(buf'.data) <= BufCap /\ taken' \in Nat
    BY <1>9, <1>11, <2>1
  <2>5. /\ comm' \in Comms /\ ModeTold(comm)' /\ DeferredKnown' /\ log' = Append(log, m)
        /\ gate' \in Seq(GateKinds) /\ Len(gate') <= Backlog + 1 /\ (strict' => gate' = <<>>)
        /\ calls' \in 0 .. session.calls
        /\ \A n \in Nat : n + Arms(c) <= session.calls - calls
                             => n + Arms(comm)' <= session.calls - calls'
    BY <1>1, <1>2, <1>4, <1>6, <2>1, AcceptedType
  <2>6. \A n \in Nat : n + Arms(comm) <= session.calls - calls
                          => n + 1 + Arms(comm)' <= session.calls - calls'
    <3>1. \A n \in Nat : n + 1 \in Nat /\ n + 1 + 0 = n + 1
      OBVIOUS
    <3>2. QED
      BY <1>5, <2>5, <3>1
  <2>7. log' \in Seq(Entries) /\ PromptInvariant' /\ OneShotInvariant'
    BY <1>2, <2>3, <2>5, <2>6, EntryLogged
  <2>8. InboundType'
    BY <1>2, <2>4, <2>5, <2>7 DEF InboundInvariant, InboundType
  <2>9. QED
    BY <2>5, <2>7, <2>8 DEF InboundInvariant
<1>14. QED
  BY <1>12, <1>13

\* HOOK_PROMPT is called, or the queue of the slot has no room for it.
LEMMA PromptStep ==
    ASSUME InboundInvariant, Prompt
    PROVE  InboundInvariant'
<1>1. /\ comm \in Comms /\ ModeTold(comm) /\ session \in Sessions /\ calls \in 0 .. session.calls
      /\ gate \in Seq(GateKinds) /\ Len(gate) <= Backlog + 1 /\ (strict => gate = <<>>)
      /\ Backlog \in Nat
  BY InboundAssumption DEF InboundInvariant, InboundType
<1>2. /\ UNCHANGED <<session, strict, unread, src, buf, tstate, sends, taken, has_deferred,
                     overwritten>>
      /\ loop' = "wait" /\ loop = "prompting"
  BY DEF Prompt, readVars
<1>3. "INVOKED_PROMPT" \notin comm.flags /\ ~Prompted
  BY <1>2 DEF InboundInvariant, PromptInvariant
<1> DEFINE m == Message("prompt", 0, <<>>)
<1>4. m \in Entries /\ m.kind = "prompt"
  BY DEF Entries, Message
<1> HIDE DEF m
<1>5. ASSUME NEW d \in Comms, ModeTold(d)
      PROVE  LET e == Raise(d, {"INVOKED_PROMPT"}) IN
             /\ e \in Comms /\ ModeTold(e) /\ Arms(e) = Arms(d)
             /\ e.flags = d.flags \cup {"INVOKED_PROMPT"}
  BY <1>5, StepFlags, FlagsType, FlagsKeepMode
<1>6. CASE strict
  <2>1. PICK d \in ModeChoices(comm) :
           /\ comm' = Raise(d, {"INVOKED_PROMPT"}) /\ calls' = CallsAfter(comm, d)
           /\ log' = Append(log, m) /\ gate' = gate
    BY <1>6 DEF Prompt, m
  <2>2. /\ d \in Comms /\ ModeTold(d) /\ Keeps(comm, d)
        /\ CallsAfter(comm, d) \in 0 .. session.calls
        /\ \A n \in Nat : n + Arms(comm) <= session.calls - calls
                             => n + Arms(d) <= session.calls - CallsAfter(comm, d)
    BY <1>1, ChoiceType
  <2>3. PICK e \in Comms : /\ e = comm' /\ ModeTold(e) /\ Arms(e) = Arms(d)
                           /\ e.flags = d.flags \cup {"INVOKED_PROMPT"}
    BY <1>5, <2>1, <2>2
  <2>4. ModeTold(comm)' /\ Arms(comm)' = Arms(d)
    BY <1>2, <2>3 DEF ModeTold, Line, Arms
  <2>5. DeferredKnown'
    BY <1>2, <2>2, <2>3 DEF InboundInvariant, DeferredKnown, Deferred, Keeps
  <2>6. log' \in Seq(Entries) /\ PromptInvariant' /\ OneShotInvariant'
    <3>1. \A n \in Nat : n + 0 + Arms(comm)' = n + Arms(d)
      BY <2>4 DEF Arms
    <3>2. \A n \in Nat : n + Arms(comm) <= session.calls - calls
                            => n + 0 + Arms(comm)' <= session.calls - calls'
      BY <2>1, <2>2, <3>1
    <3>3. "INVOKED_PROMPT" \in comm'.flags
      BY <2>3
    <3>4. QED
      BY <1>2, <1>3, <1>4, <2>1, <3>2, <3>3, EntryLogged
  <2>7. InboundType'
    BY <1>1, <1>2, <2>1, <2>2, <2>3, <2>6 DEF InboundInvariant, InboundType, LoopStates
  <2>8. QED
    BY <2>4, <2>5, <2>6, <2>7 DEF InboundInvariant
<1>7. CASE ~strict /\ Len(gate) <= Backlog
  <2>1. /\ comm' = Raise(comm, {"INVOKED_PROMPT"}) /\ calls' = calls
        /\ log' = Append(log, m) /\ gate' = Append(gate, "prompt")
    BY <1>7 DEF Prompt, m
  <2>2. PICK e \in Comms : /\ e = comm' /\ ModeTold(e) /\ Arms(e) = Arms(comm)
                           /\ e.flags = comm.flags \cup {"INVOKED_PROMPT"}
    BY <1>1, <1>5, <2>1
  <2>3. ModeTold(comm)' /\ Arms(comm)' = Arms(comm)
    BY <1>2, <2>2 DEF ModeTold, Line, Arms
  <2>4. DeferredKnown'
    BY <1>2, <2>2 DEF InboundInvariant, DeferredKnown, Deferred
  <2>5. log' \in Seq(Entries) /\ PromptInvariant' /\ OneShotInvariant'
    <3>1. \A n \in Nat : n + 0 + Arms(comm)' = n + Arms(comm)
      BY <2>3 DEF Arms
    <3>2. \A n \in Nat : n + Arms(comm) <= session.calls - calls
                            => n + 0 + Arms(comm)' <= session.calls - calls'
      BY <2>1, <3>1
    <3>3. "INVOKED_PROMPT" \in comm'.flags
      BY <2>2
    <3>4. QED
      BY <1>2, <1>3, <1>4, <2>1, <3>2, <3>3, EntryLogged
  <2>6. gate' \in Seq(GateKinds) /\ Len(gate') <= Backlog + 1
    BY <1>1, <1>7, <2>1, AppendedExecution DEF GateKinds
  <2>7. InboundType'
    BY <1>1, <1>2, <1>7, <2>1, <2>2, <2>5, <2>6 DEF InboundInvariant, InboundType, LoopStates
  <2>8. QED
    BY <2>3, <2>4, <2>5, <2>7 DEF InboundInvariant
<1>8. CASE ~strict /\ ~(Len(gate) <= Backlog)
  <2>1. UNCHANGED <<comm, calls, log, gate>>
    BY <1>8 DEF Prompt
  <2>2. ModeTold(comm)' /\ PromptInvariant' /\ OneShotInvariant' /\ DeferredKnown'
    BY <1>2, <2>1, SlotKept
  <2>3. InboundType'
    BY <1>2, <2>1 DEF InboundInvariant, InboundType, LoopStates
  <2>4. QED
    BY <2>2, <2>3 DEF InboundInvariant
<1>9. QED
  BY <1>6, <1>7, <1>8

\* Output of a hook displaces the prompt of a slot in character mode.
LEMMA OutputStep ==
    ASSUME InboundInvariant, OutboundWrites \/ Send
    PROVE  InboundInvariant'
<1>1. /\ comm \in Comms /\ ModeTold(comm) /\ sends \in 0 .. MaxSends /\ MaxSends \in Nat
      /\ gate \in Seq(GateKinds) /\ Len(gate) <= Backlog + 1 /\ (strict => gate = <<>>)
  BY InboundAssumption DEF InboundInvariant, InboundType
<1>2. /\ UNCHANGED <<session, strict, unread, src, buf, tstate, loop, calls, taken,
                     has_deferred, overwritten>>
      /\ sends' \in 0 .. MaxSends
  BY <1>1 DEF OutboundWrites, Send, readVars
<1> DEFINE c == Clear(comm, {"INVOKED_PROMPT"})
           m == Message("output", 0, <<>>)
<1>3. /\ c \in Comms /\ ModeTold(c) /\ Line(c) = Line(comm) /\ Arms(c) = Arms(comm)
      /\ c.flags = comm.flags \ {"INVOKED_PROMPT"}
  BY <1>1, StepFlags, FlagsType, FlagsKeepMode
<1>4. m \in Entries /\ m.kind = "output"
  BY DEF Entries, Message
<1>5. \/ UNCHANGED <<comm, log>>
      \/ comm' = c /\ log' = Append(log, m) /\ loop \notin {"char", "rechar", "prompting"}
  <2>1. CASE OutboundWrites
    BY <2>1 DEF OutboundWrites, MutexFree, Displaced, OutputLogged
  <2>2. CASE Send
    BY <2>2 DEF Send, Displaced, OutputLogged
  <2>3. QED
    BY <2>1, <2>2
<1>6. gate' \in Seq(GateKinds) /\ Len(gate') <= Backlog + 1 /\ (strict' => gate' = <<>>)
  <2>1. gate' = gate \/ (~strict /\ Len(gate) <= Backlog /\ gate' = Append(gate, "outbound"))
    BY DEF OutboundWrites, Send
  <2>2. CASE gate' = gate
    BY <1>1, <1>2, <2>2
  <2>3. CASE ~strict /\ Len(gate) <= Backlog /\ gate' = Append(gate, "outbound")
    BY <1>1, <1>2, <2>3, AppendedExecution DEF GateKinds
  <2>4. QED
    BY <2>1, <2>2, <2>3
<1> HIDE DEF c, m
<1>7. CASE UNCHANGED <<comm, log>>
  <2>1. ModeTold(comm)' /\ PromptInvariant' /\ OneShotInvariant' /\ DeferredKnown'
    BY <1>2, <1>7, SlotKept
  <2>2. InboundType'
    BY <1>2, <1>6, <1>7 DEF InboundInvariant, InboundType
  <2>3. QED
    BY <2>1, <2>2 DEF InboundInvariant
<1>8. CASE comm' = c /\ log' = Append(log, m) /\ loop \notin {"char", "rechar", "prompting"}
  <2>1. ModeTold(comm)' /\ Arms(comm)' = Arms(comm)
    BY <1>2, <1>3, <1>8 DEF ModeTold, Line, Arms
  <2>2. DeferredKnown'
    BY <1>2, <1>3, <1>8 DEF InboundInvariant, DeferredKnown, Deferred
  <2>3. \A n \in Nat : n + Arms(comm) <= session.calls - calls
                          => n + 0 + Arms(comm)' <= session.calls - calls'
    <3>1. \A n \in Nat : n + 0 + Arms(comm)' = n + Arms(comm)
      BY <2>1 DEF Arms
    <3>2. QED
      BY <1>2, <3>1
  <2>4. log' \in Seq(Entries) /\ PromptInvariant' /\ OneShotInvariant'
    BY <1>2, <1>4, <1>8, <2>3, EntryLogged
  <2>5. InboundType'
    BY <1>2, <1>3, <1>6, <1>8, <2>4 DEF InboundInvariant, InboundType
  <2>6. QED
    BY <2>1, <2>2, <2>4, <2>5 DEF InboundInvariant
<1>9. QED
  BY <1>5, <1>7, <1>8

-----------------------------------------------------------------------------
(* The telnet parser against its reference, chunk by chunk.                *)

\* What a byte does to the state of the parser and to the payload depends on
\* that state only, not on what the call has done before.
LEMMA ByteEffect ==
    ASSUME NEW p \in Parsers, NEW q \in Parsers, NEW b \in Bytes,
           ~p.done, ~q.done, p.state = q.state
    PROVE  /\ TelnetByte(p, b).used = p.used + 1
           /\ TelnetByte(p, b).state = TelnetByte(q, b).state
           /\ \E e \in Seq(Bytes) :
                 TelnetByte(p, b).dest = p.dest \o e /\ TelnetByte(q, b).dest = q.dest \o e
<1>1. ASSUME NEW r \in Parsers, ~r.done
      PROVE  /\ TelnetByte(r, b).used = r.used + 1
             /\ TelnetByte(r, b).state =
                   CASE r.state = "DATA" -> IF b = "IAC" THEN "IAC" ELSE "DATA"
                     [] r.state = "IAC" ->
                          IF b \in {"WILL", "WONT", "DO", "DONT"} THEN b
                          ELSE IF b = "SB" THEN "SUBNEG" ELSE "DATA"
                     [] r.state = "SUBNEG" -> IF b = "IAC" THEN "SUBNEG_IAC" ELSE "SUBNEG"
                     [] r.state = "SUBNEG_IAC" -> IF b = "SE" THEN "DATA" ELSE "SUBNEG"
                     [] OTHER -> "DATA"
             /\ TelnetByte(r, b).dest =
                   IF \/ r.state = "DATA" /\ b # "IAC"
                      \/ r.state = "IAC" /\ b = "IAC"
                   THEN Append(r.dest, b) ELSE r.dest
  <2> DEFINE s == [r EXCEPT !.used = @ + 1]
  <2>1. s \in Parsers /\ s.used = r.used + 1 /\ s.state = r.state /\ s.dest = r.dest
    <3>1. r.used \in Nat /\ Len(r.dest) \in Nat /\ Len(r.dest) <= r.used
      BY DEF Parsers
    <3>2. PICK n \in Nat : n = r.used + 1 /\ Len(r.dest) <= n
      BY <3>1
    <3>3. s = [r EXCEPT !.used = n]
      BY <3>2
    <3> HIDE DEF s
    <3>4. QED
      BY <3>2, <3>3 DEF Parsers
  <2> HIDE DEF s
  <2>2. CASE s.state = "DATA"
    BY <1>1, <2>1, <2>2 DEF TelnetByte, s, Parsers
  <2>3. CASE s.state = "IAC"
    BY <1>1, <2>1, <2>3 DEF TelnetByte, s, Parsers
  <2>4. ASSUME NEW t \in Parsers
        PROVE  /\ Buffered(t, b).used = t.used /\ Buffered(t, b).state = t.state
               /\ Buffered(t, b).dest = t.dest
    BY DEF Buffered, Parsers
  <2>5. CASE s.state = "SUBNEG"
    BY <1>1, <2>1, <2>4, <2>5 DEF TelnetByte, s, Parsers
  <2>6. CASE s.state = "SUBNEG_IAC"
    <3>1. [s EXCEPT !.state = "SUBNEG"] \in Parsers
      BY <2>1 DEF Parsers, TelnetStates
    <3>2. /\ [s EXCEPT !.state = "SUBNEG"].used = s.used
          /\ [s EXCEPT !.state = "SUBNEG"].state = "SUBNEG"
          /\ [s EXCEPT !.state = "SUBNEG"].dest = s.dest
      BY <2>1 DEF Parsers
    <3>3. CASE b = "SE"
      BY <1>1, <2>1, <2>6, <3>3 DEF TelnetByte, s, Parsers
    <3>4. CASE b = "IAC"
      <4>1. TelnetByte(r, b) = Buffered([s EXCEPT !.state = "SUBNEG"], b)
        BY <1>1, <2>6, <3>4 DEF TelnetByte, s
      <4>2. QED
        BY <2>1, <2>4, <2>6, <3>1, <3>2, <3>4, <4>1
    <3>5. CASE b \notin {"SE", "IAC"}
      <4>1. TelnetByte(r, b) = [s EXCEPT !.state = "SUBNEG"]
        BY <1>1, <2>6, <3>5 DEF TelnetByte, s
      <4>2. QED
        BY <2>1, <2>6, <3>2, <3>5, <4>1
    <3>6. QED
      BY <3>3, <3>4, <3>5
  <2>7. CASE s.state \notin {"DATA", "IAC", "SUBNEG", "SUBNEG_IAC"}
    <3>1. TelnetByte(r, b) = Negotiated(s, b)
      BY <1>1, <2>7 DEF TelnetByte, s
    <3>2. /\ Negotiated(s, b).used = s.used /\ Negotiated(s, b).state = "DATA"
          /\ Negotiated(s, b).dest = s.dest
      BY <2>1 DEF Negotiated, Parsers
    <3>3. QED
      BY <2>1, <2>7, <3>1, <3>2
  <2>8. QED
    BY <2>2, <2>3, <2>5, <2>6, <2>7
<1>2. p.dest \in Seq(Bytes) /\ q.dest \in Seq(Bytes)
  BY DEF Parsers
<1>3. \A d \in Seq(Bytes) : Append(d, b) = d \o <<b>> /\ d = d \o <<>>
  OBVIOUS
<1>a. <<>> \in Seq(Bytes) /\ <<b>> \in Seq(Bytes)
  OBVIOUS
<1>4. CASE \/ p.state = "DATA" /\ b # "IAC"
           \/ p.state = "IAC" /\ b = "IAC"
  <2>1. TelnetByte(p, b).dest = p.dest \o <<b>> /\ TelnetByte(q, b).dest = q.dest \o <<b>>
    BY <1>1, <1>2, <1>3, <1>4
  <2>2. QED
    BY <1>1, <1>a, <2>1
<1>5. CASE ~ \/ p.state = "DATA" /\ b # "IAC"
             \/ p.state = "IAC" /\ b = "IAC"
  <2>1. TelnetByte(p, b).dest = p.dest \o <<>> /\ TelnetByte(q, b).dest = q.dest \o <<>>
    BY <1>1, <1>2, <1>3, <1>5
  <2>2. QED
    BY <1>1, <1>a, <2>1
<1>6. QED
  BY <1>4, <1>5

\* The reference parser, which never stops.
Unending == {p \in Parsers : p.done = FALSE}

\* The reference and the parser of the code agree on every byte.
LEMMA PayloadEffect ==
    ASSUME NEW p \in Unending, NEW q \in Unending, NEW b \in Bytes, p.state = q.state
    PROVE  /\ PayloadByte(q, b) \in Unending
           /\ TelnetByte(p, b).used = p.used + 1
           /\ TelnetByte(p, b).state = PayloadByte(q, b).state
           /\ \E e \in Seq(Bytes) :
                 TelnetByte(p, b).dest = p.dest \o e /\ PayloadByte(q, b).dest = q.dest \o e
<1> DEFINE r == [q EXCEPT !.sb = <<>>]
<1>1. r \in Parsers /\ r.done = FALSE /\ r.state = q.state /\ r.dest = q.dest
  <2>1. <<>> \in Seq(Bytes) /\ Len(<<>>) = 0
    OBVIOUS
  <2>2. q \in Parsers /\ q.done = FALSE
    BY DEF Unending
  <2>a. Len(<<>>) <= SubnegCap
    BY <2>1, SubnegAssumption
  <2>3. PICK z \in Seq(Bytes) : z = <<>> /\ Len(z) <= SubnegCap
    BY <2>1, <2>a, Zenon
  <2>4. r = [q EXCEPT !.sb = z]
    BY <2>3
  <2> HIDE DEF r
  <2>5. QED
    BY <2>2, <2>3, <2>4 DEF Parsers
<1>2. p \in Parsers /\ p.done = FALSE
  BY DEF Unending
<1> DEFINE t == TelnetByte(r, b)
<1>3. PayloadByte(q, b) = [t EXCEPT !.done = FALSE]
  BY DEF PayloadByte
<1> HIDE DEF r
<1>4. t \in Parsers
  BY <1>1, TelnetByteType
<1>5. /\ TelnetByte(p, b).used = p.used + 1
      /\ TelnetByte(p, b).state = t.state
      /\ \E e \in Seq(Bytes) :
            TelnetByte(p, b).dest = p.dest \o e /\ t.dest = r.dest \o e
  BY <1>1, <1>2, ByteEffect
<1> HIDE DEF t
<1>6. PICK u : u = [t EXCEPT !.done = FALSE]
  OBVIOUS
<1>7. u \in Parsers /\ u.done = FALSE /\ u.state = t.state /\ u.dest = t.dest
  BY <1>4, <1>6 DEF Parsers
<1>8. u \in Unending /\ PayloadByte(q, b) = u
  BY <1>3, <1>6, <1>7 DEF Unending
<1>9. QED
  BY <1>1, <1>5, <1>7, <1>8

\* A parser that has consumed nothing.
LEMMA StartType ==
    ASSUME NEW state \in TelnetStates
    PROVE  /\ TelnetStart(state) \in Unending /\ TelnetStart(state).state = state
           /\ TelnetStart(state).used = 0 /\ TelnetStart(state).dest = <<>>
<1>1. /\ TelnetStart(state).state = state /\ TelnetStart(state).used = 0
      /\ TelnetStart(state).dest = <<>> /\ TelnetStart(state).done = FALSE
  BY DEF TelnetStart
<1>2. TelnetStart(state) \in Parsers
  BY SubnegAssumption DEF TelnetStart, Parsers
<1>3. QED
  BY <1>1, <1>2 DEF Unending

\* P holds what the reference parser is after each byte.
PayloadRun(P, state, bytes, n) ==
    /\ P[0] = TelnetStart(state)
    /\ \A i \in 1 .. n : P[i] = PayloadByte(P[i - 1], bytes[i])

\* The reference decoding, byte by byte.
LEMMA ParsedRun ==
    ASSUME NEW state \in TelnetStates, NEW bytes \in Seq(Bytes), NEW N \in Nat, N = Len(bytes)
    PROVE  \E P \in [0 .. N -> Unending] :
              PayloadRun(P, state, bytes, N) /\ Parsed(state, bytes) = P[N]
<1> DEFINE start == TelnetStart(state)
           g == [x \in Unending \X (1 .. N) |-> PayloadByte(x[1], bytes[x[2]])]
           Body(f) == [s \in SUBSET (1 .. N) |->
                         IF s = {} THEN start
                         ELSE PayloadByte(f[s \ {Max(s)}], bytes[Max(s)])]
<1>1. DOMAIN bytes = 1 .. N /\ \A i \in 1 .. N : bytes[i] \in Bytes
  OBVIOUS
<1>2. start \in Unending
  BY StartType
<1>3. Parsed(state, bytes) = (CHOOSE f : f = Body(f))[1 .. N]
  <2>1. Parsed(state, bytes) =
          (CHOOSE iter : iter = [s \in SUBSET (DOMAIN bytes) |->
                 IF s = {} THEN TelnetStart(state)
                 ELSE PayloadByte(iter[s \ {Max(s)}], bytes[Max(s)])])[DOMAIN bytes]
    BY Zenon DEF Parsed, FoldLeft, MapThenFoldSet
  <2>2. QED
    BY <1>1, <2>1, Zenon
<1> HIDE DEF start
<1>4. g \in [Unending \X (1 .. N) -> Unending]
  <2>1. \A x \in Unending \X (1 .. N) : PayloadByte(x[1], bytes[x[2]]) \in Unending
    BY <1>1, PayloadEffect
  <2>2. QED
    BY <2>1, Zenon
<1>5. \A p \in Unending, i \in 1 .. N : g[<<p, i>>] = PayloadByte(p, bytes[i])
  OBVIOUS
<1> HIDE DEF g
<1>6. PICK f \in [SUBSET (1 .. N) -> Unending] : FoldOf(f, N, start, g)
  <2> HIDE DEF Body
  <2>1. QED
    BY <1>2, <1>4, FoldExists
<1>7. \A s \in SUBSET (1 .. N) :
         f[s] = IF s = {} THEN start ELSE PayloadByte(f[s \ {Max(s)}], bytes[Max(s)])
  <2>1. ASSUME NEW s \in SUBSET (1 .. N), s # {}
        PROVE  f[s] = PayloadByte(f[s \ {Max(s)}], bytes[Max(s)])
    <3>1. Max(s) \in 1 .. N
      BY <1>1, <2>1, GreatestElement
    <3>2. f[s \ {Max(s)}] \in Unending
      BY <1>6
    <3>3. QED
      BY <1>5, <1>6, <2>1, <3>1, <3>2 DEF FoldOf
  <2>2. QED
    BY <1>6, <2>1 DEF FoldOf
<1>8. f = Body(f)
  BY <1>7, Zenon
<1>9. PICK h : h = (CHOOSE d : d = Body(d))
  OBVIOUS
<1>10. h = Body(h)
  BY <1>8, <1>9, Zenon
<1>11. \A s \in SUBSET (1 .. N) : h[s] =
           IF s = {} THEN start ELSE PayloadByte(h[s \ {Max(s)}], bytes[Max(s)])
  BY <1>10, Zenon
<1>12. Parsed(state, bytes) = h[1 .. N]
  BY <1>3, <1>9
<1> HIDE DEF Body
<1>13. h[{}] = start
  BY <1>11
<1>14. ASSUME NEW s \in SUBSET (1 .. N), s # {}, h[s \ {Max(s)}] \in Unending
       PROVE  h[s] = g[<<h[s \ {Max(s)}], Max(s)>>]
  <2>1. Max(s) \in 1 .. N
    BY <1>14, GreatestElement
  <2>2. QED
    BY <1>5, <1>11, <1>14, <2>1
<1>15. FoldIn(h, N, Unending, start, g)
  BY <1>13, <1>14 DEF FoldIn
<1>16. PICK P \in [0 .. N -> Unending] : RunOf(P, N, start, g, h)
  BY <1>2, <1>4, <1>15, FoldRun
<1>17. ASSUME NEW i \in 1 .. N PROVE P[i] = PayloadByte(P[i - 1], bytes[i])
  <2>1. P[i] = g[<<P[i - 1], i>>] /\ i - 1 \in 0 .. N
    BY <1>16 DEF RunOf
  <2>2. P[i - 1] \in Unending
    BY <1>16, <2>1
  <2>3. QED
    BY <1>5, <2>1, <2>2
<1>18. P[0] = start /\ P[N] = h[1 .. N]
  BY <1>16 DEF RunOf
<1>19. PayloadRun(P, state, bytes, N)
  BY <1>17, <1>18 DEF PayloadRun, start
<1>20. QED
  BY <1>12, <1>18, <1>19

\* A run of the reference holds the decoding of every prefix.
LEMMA ParsedPrefix ==
    ASSUME NEW state \in TelnetStates, NEW bytes \in Seq(Bytes), NEW N \in Nat, N = Len(bytes),
           NEW P \in [0 .. N -> Unending], PayloadRun(P, state, bytes, N), NEW c \in 0 .. N
    PROVE  Parsed(state, SubSeq(bytes, 1, c)) = P[c]
<1>1. PICK s \in Seq(Bytes) : s = SubSeq(bytes, 1, c)
  OBVIOUS
<1>2. c \in Nat /\ c = Len(s) /\ \A i \in 1 .. c : s[i] = bytes[i]
  BY <1>1
<1>3. PICK Q \in [0 .. c -> Unending] : PayloadRun(Q, state, s, c) /\ Parsed(state, s) = Q[c]
  BY <1>2, ParsedRun
<1> DEFINE T == {n \in 0 .. c : Q[n] = P[n]}
<1>4. 0 \in T
  BY <1>2, <1>3 DEF PayloadRun
<1>5. ASSUME NEW n \in 0 .. c - 1, n \in T PROVE n + 1 \in T
  <2>1. n + 1 \in 1 .. c /\ n + 1 \in 1 .. N /\ (n + 1) - 1 = n
    OBVIOUS
  <2>2. Q[n + 1] = PayloadByte(Q[n], s[n + 1])
    BY <1>3, <2>1 DEF PayloadRun
  <2>3. P[n + 1] = PayloadByte(P[n], bytes[n + 1])
    BY <2>1 DEF PayloadRun
  <2>4. Q[n] = P[n] /\ s[n + 1] = bytes[n + 1]
    BY <1>2, <1>5, <2>1
  <2>5. n + 1 \in 0 .. c
    BY <2>1
  <2>6. QED
    BY <2>2, <2>3, <2>4, <2>5
<1>6. c \in T
  <2>1. c \in Nat
    BY <1>2
  <2> HIDE DEF T
  <2>2. \A n \in 0 .. c : n \in T
    BY <1>4, <1>5, <2>1, SetInduction
  <2>3. QED
    BY <2>1, <2>2
<1>7. QED
  BY <1>1, <1>3, <1>6

\* s begins with r.
Begins(r, s) == Len(r) <= Len(s) /\ \A k \in 1 .. Len(r) : s[k] = r[k]

\* Payload is put together in any order.
LEMMA BytesAssociative == \A s, t, u \in Seq(Bytes) : (s \o t) \o u = s \o (t \o u)
BY ConcatAssociative

\* A concatenation begins with its first part.
LEMMA BeginsConcat ==
    ASSUME NEW r \in Seq(Bytes), NEW d \in Seq(Bytes), NEW e \in Seq(Bytes), Begins(r, d)
    PROVE  Begins(r, d \o e)
<1>1. d \o e \in Seq(Bytes) /\ Len(d \o e) = Len(d) + Len(e)
      /\ \A k \in 1 .. Len(d) : (d \o e)[k] = d[k]
  BY ConcatProperties
<1>2. PICK f \in Seq(Bytes) : f = d \o e
  BY <1>1
<1>3. PICK a, b, n \in Nat : a = Len(r) /\ b = Len(d) /\ n = Len(e)
  OBVIOUS
<1>4. Len(f) = b + n /\ \A k \in 1 .. b : f[k] = d[k]
  BY <1>1, <1>2, <1>3
<1>5. a <= b /\ \A k \in 1 .. a : d[k] = r[k]
  BY <1>3 DEF Begins
<1>6. a <= b + n /\ \A k \in 1 .. a : f[k] = r[k]
  BY <1>3, <1>4, <1>5
<1>7. QED
  BY <1>2, <1>3, <1>4, <1>6 DEF Begins

\* The payload of a prefix is a prefix of the payload.
LEMMA PayloadGrows ==
    ASSUME NEW state \in TelnetStates, NEW bytes \in Seq(Bytes), NEW N \in Nat, N = Len(bytes),
           NEW P \in [0 .. N -> Unending], PayloadRun(P, state, bytes, N), NEW c \in 0 .. N
    PROVE  Begins(P[c].dest, P[N].dest)
<1> DEFINE T == {n \in 0 .. N - c : Begins(P[c].dest, P[c + n].dest)}
<1>0. \A n \in 0 .. N : P[n] \in Unending /\ P[n].dest \in Seq(Bytes)
  BY DEF Unending, Parsers
<1>1. 0 \in T
  <2>1. c + 0 = c /\ 0 \in 0 .. N - c
    OBVIOUS
  <2>2. P[c].dest \in Seq(Bytes) /\ Len(P[c].dest) \in Nat
    BY <1>0
  <2>3. Begins(P[c].dest, P[c].dest)
    BY <2>2 DEF Begins
  <2>4. QED
    BY <2>1, <2>3
<1>2. ASSUME NEW n \in 0 .. N - c - 1, n \in T PROVE n + 1 \in T
  <2>1. PICK m \in 1 .. N : m = c + (n + 1) /\ m - 1 = c + n
    OBVIOUS
  <2>2. P[m] = PayloadByte(P[m - 1], bytes[m]) /\ P[m - 1] \in Unending
    BY <1>0, <2>1 DEF PayloadRun
  <2>3. bytes[m] \in Bytes
    BY <2>1
  <2>a. PICK r \in Unending, b \in Bytes : r = P[m - 1] /\ b = bytes[m]
    BY <2>2, <2>3
  <2>b. \E e \in Seq(Bytes) : PayloadByte(r, b).dest = r.dest \o e
    BY PayloadEffect
  <2>4. PICK e \in Seq(Bytes) : P[m].dest = P[m - 1].dest \o e
    BY <2>2, <2>a, <2>b
  <2>6. Begins(P[c].dest, P[m - 1].dest)
    BY <1>2, <2>1
  <2>7. P[c].dest \in Seq(Bytes) /\ P[m - 1].dest \in Seq(Bytes)
    BY <1>0, <2>1
  <2>8. Begins(P[c].dest, P[m].dest)
    BY <2>4, <2>6, <2>7, BeginsConcat
  <2>9. n + 1 \in 0 .. N - c
    OBVIOUS
  <2>10. QED
    BY <2>1, <2>8, <2>9
<1>3. N - c \in T
  <2>1. PICK m \in Nat : m = N - c
    OBVIOUS
  <2>2. \A n \in 0 .. m - 1 : n \in T => n + 1 \in T
    BY <1>2, <2>1
  <2> HIDE DEF T
  <2>3. \A n \in 0 .. m : n \in T
    BY <1>1, <2>1, <2>2, SetInduction
  <2>4. QED
    BY <2>1, <2>3
<1>4. c + (N - c) = N
  OBVIOUS
<1>5. QED
  BY <1>3, <1>4

\* The chunk is what comes after the first c bytes.
Follows(chunk, bytes, c) ==
    /\ c + Len(chunk) <= Len(bytes)
    /\ \A k \in 1 .. Len(chunk) : chunk[k] = bytes[c + k]

\* The call p on the chunk takes the run P on from c.
TakesTo(P, c, chunk, p) ==
    /\ p.used \in 0 .. Len(chunk)
    /\ P[c + p.used].state = p.state
    /\ P[c + p.used].dest = P[c].dest \o p.dest

\* A chunk of the stream that goes through comm_telnet_process_inbound takes the
\* reference as far as the call has consumed it: the same state, and the payload
\* grows by what the call passes on.  The call may stop before its end.
LEMMA ChunkParsed ==
    ASSUME NEW state \in TelnetStates, NEW bytes \in Seq(Bytes), NEW N \in Nat, N = Len(bytes),
           NEW P \in [0 .. N -> Unending], PayloadRun(P, state, bytes, N), NEW c \in 0 .. N,
           NEW chunk \in Seq(Bytes), Follows(chunk, bytes, c)
    PROVE  TakesTo(P, c, chunk, ProcessInbound(P[c].state, chunk))
<1>m. PICK m \in Nat : m = Len(chunk)
  OBVIOUS
<1>f. c + m <= N /\ \A k \in 1 .. m : chunk[k] = bytes[c + k]
  BY <1>m DEF Follows
<1> USE <1>m, <1>f
<1>0. \A n \in 0 .. N : /\ P[n] \in Unending /\ P[n].dest \in Seq(Bytes)
                        /\ P[n].state \in TelnetStates
  BY DEF Unending, Parsers
<1>1. PICK q \in Unending : q = P[c]
  BY <1>0
<1>2. q.state \in TelnetStates /\ q.dest \in Seq(Bytes)
  BY <1>0, <1>1
<1>3. PICK F \in [0 .. m -> Parsers] :
              /\ F[0] = TelnetStart(q.state)
              /\ \A i \in 1 .. m : F[i] = TelnetByte(F[i - 1], chunk[i])
              /\ ProcessInbound(q.state, chunk) = F[m]
  BY <1>2, ParserRun
<1> DEFINE Agrees(f, n) ==
             /\ f.used \in 0 .. n /\ (f.done = FALSE => f.used = n)
             /\ P[c + f.used].state = f.state
             /\ P[c + f.used].dest = q.dest \o f.dest
           T == {n \in 0 .. m : Agrees(F[n], n)}
<1>4. 0 \in T
  <2>1. PICK f : f = F[0]
    OBVIOUS
  <2>2. f.used = 0 /\ f.state = q.state /\ f.dest = <<>>
    BY <1>2, <1>3, <2>1, StartType
  <2>3. q.dest \o <<>> = q.dest /\ c + 0 = c /\ 0 \in 0 .. 0 /\ 0 \in 0 .. m
    BY <1>2
  <2>4. Agrees(f, 0)
    BY <1>1, <2>2, <2>3
  <2> HIDE DEF Agrees
  <2>5. QED
    BY <2>1, <2>3, <2>4
<1>5. ASSUME NEW n \in 0 .. m - 1, n \in T PROVE n + 1 \in T
  <2>1. n + 1 \in 1 .. m /\ n + 1 \in 0 .. m /\ (n + 1) - 1 = n /\ n \in 0 .. m
    OBVIOUS
  <2>2. PICK f \in Parsers : f = F[n]
    BY <2>1
  <2>3. PICK t \in Parsers : t = F[n + 1]
    BY <2>1
  <2>4. PICK b \in Bytes : b = chunk[n + 1]
    BY <2>1
  <2>5. t = TelnetByte(f, b)
    BY <1>3, <2>1, <2>2, <2>3, <2>4
  <2>6. Agrees(f, n)
    BY <1>5, <2>2
  <2>7. Agrees(t, n + 1)
    <3>1. CASE f.done
      <4>1. t = f
        BY <2>5, <3>1 DEF TelnetByte
      <4>2. f.used \in 0 .. n + 1 /\ f.done # FALSE
        BY <2>6, <3>1
      <4>3. QED
        BY <2>6, <4>1, <4>2
    <3>2. CASE ~f.done
      <4>1. f.done = FALSE
        BY <3>2 DEF Parsers
      <4>2. f \in Unending
        BY <4>1 DEF Unending
      <4>3. f.used = n /\ P[c + n].state = f.state /\ P[c + n].dest = q.dest \o f.dest
        BY <2>6, <4>1
      <4>4. PICK i \in 1 .. N : i = c + (n + 1) /\ i - 1 = c + n
        BY <2>1
      <4>5. P[i] = PayloadByte(P[i - 1], bytes[i])
        BY DEF PayloadRun
      <4>6. bytes[i] = b
        BY <2>1, <2>4, <4>4
      <4>7. PICK r \in Unending : r = P[i - 1]
        BY <1>0
      <4>8. r.state = f.state /\ r.dest = q.dest \o f.dest
        BY <4>3, <4>4, <4>7
      <4>9. PICK u \in Unending : u = P[i] /\ u = PayloadByte(r, b)
        BY <1>0, <4>5, <4>6, <4>7
      <4>a. /\ TelnetByte(f, b).used = f.used + 1
            /\ TelnetByte(f, b).state = PayloadByte(r, b).state
            /\ \E e \in Seq(Bytes) :
                  TelnetByte(f, b).dest = f.dest \o e /\ PayloadByte(r, b).dest = r.dest \o e
        BY <4>2, <4>8, PayloadEffect
      <4>10. /\ t.used = f.used + 1 /\ t.state = u.state
             /\ \E e \in Seq(Bytes) : t.dest = f.dest \o e /\ u.dest = r.dest \o e
        BY <2>5, <4>9, <4>a, Zenon
      <4>11. PICK e \in Seq(Bytes) : t.dest = f.dest \o e /\ u.dest = r.dest \o e
        BY <4>10
      <4>12. f.dest \in Seq(Bytes)
        BY DEF Parsers
      <4>13. u.dest = q.dest \o t.dest
        <5>1. PICK x, y \in Seq(Bytes) : x = q.dest /\ y = f.dest
          BY <1>2, <4>12
        <5>2. (x \o y) \o e = x \o (y \o e)
          BY BytesAssociative, Zenon
        <5>3. QED
          BY <4>8, <4>11, <5>1, <5>2
      <4>14. t.used = n + 1 /\ c + t.used = i
        BY <4>3, <4>4, <4>10
      <4>15. n + 1 \in 0 .. n + 1
        BY <2>1
      <4>16. QED
        BY <4>9, <4>10, <4>13, <4>14, <4>15
    <3>3. QED
      BY <3>1, <3>2
  <2> HIDE DEF Agrees
  <2>8. QED
    BY <2>1, <2>3, <2>7
<1>6. m \in T
  <2> HIDE DEF T
  <2>1. \A n \in 0 .. m : n \in T
    BY <1>4, <1>5, SetInduction
  <2>2. QED
    BY <2>1
<1>7. Agrees(F[m], m)
  BY <1>6
<1>8. PICK p : p = F[m]
  OBVIOUS
<1>9. TakesTo(P, c, chunk, p)
  BY <1>1, <1>7, <1>8 DEF TakesTo
<1>10. QED
  BY <1>1, <1>3, <1>8, <1>9

-----------------------------------------------------------------------------
(* The line search against the payload.                                    *)

\* a: the white space before the n bytes that Strip keeps of a line.
Stripped(line, a, n) ==
    /\ \A k \in 1 .. a : line[k] = "sp"
    /\ \A k \in a + n + 1 .. Len(line) : line[k] = "sp"
    /\ n # 0 => line[a + 1] # "sp" /\ line[a + n] # "sp"

\* Only white space is stripped.
LEMMA StripParts ==
    ASSUME NEW line \in Seq(Bytes)
    PROVE  \E a, n \in Nat :
              /\ a = Leading(line) /\ n = Len(Strip(line)) /\ a + n <= Len(line)
              /\ Strip(line) = SubSeq(line, a + 1, a + n) /\ Stripped(line, a, n)
<1> DEFINE kept == {i \in DOMAIN line : line[i] # "sp"}
<1>1. CASE kept = {}
  <2>1. PICK a \in Nat : a = Len(line)
    OBVIOUS
  <2>2. Strip(line) = <<>> /\ Leading(line) = a
    BY <1>1, <2>1 DEF Strip, Leading
  <2>3. Len(<<>>) = 0 /\ SubSeq(line, a + 1, a + 0) = <<>>
    BY <2>1
  <2>4. \A k \in 1 .. a : line[k] = "sp"
    BY <1>1, <2>1
  <2>5. Stripped(line, a, 0) /\ a + 0 <= Len(line)
    BY <2>1, <2>4 DEF Stripped
  <2>6. QED
    BY <2>1, <2>2, <2>3, <2>5
<1>2. CASE kept # {}
  <2>1. kept \in SUBSET (1 .. Len(line)) /\ Len(line) \in Nat
    OBVIOUS
  <2>2. Strip(line) = SubSeq(line, Min(kept), Max(kept)) /\ Leading(line) = Min(kept) - 1
    BY <1>2 DEF Strip, Leading
  <2>3. \A k \in 1 .. Len(line) : line[k] # "sp" => k \in kept
    OBVIOUS
  <2>3a. \A k \in kept : line[k] # "sp"
    OBVIOUS
  <2> HIDE DEF kept
  <2>4. /\ Min(kept) \in kept /\ (\A y \in kept : Min(kept) <= y)
        /\ Max(kept) \in kept /\ (\A y \in kept : y <= Max(kept))
    BY <1>2, <2>1, LeastElement, GreatestElement
  <2>5. PICK m, x \in 1 .. Len(line) : m = Min(kept) /\ x = Max(kept) /\ m <= x
    BY <2>1, <2>4
  <2>6. PICK a, n \in Nat : a = m - 1 /\ n = x - m + 1
    BY <2>5
  <2>7. Len(SubSeq(line, m, x)) = n /\ m = a + 1 /\ x = a + n /\ n # 0 /\ a + n <= Len(line)
    <3>1. Len(SubSeq(line, m, x)) = x - m + 1
      BY <2>5
    <3>a. PICK l \in Nat : l = Len(line)
      BY <2>1
    <3>b. m \in 1 .. l /\ x \in 1 .. l /\ m <= x
      BY <2>5, <3>a
    <3>c. m = a + 1 /\ x = a + n /\ n # 0 /\ a + n <= l
      BY <2>6, <3>b
    <3>2. m = a + 1 /\ x = a + n /\ n # 0 /\ a + n <= Len(line)
      BY <3>a, <3>c
    <3>3. QED
      BY <2>6, <3>1, <3>2
  <2>8. line[m] # "sp" /\ line[x] # "sp"
    BY <2>3a, <2>4, <2>5
  <2>9. \A k \in 1 .. Len(line) : k < m \/ x < k => line[k] = "sp"
    BY <2>3, <2>4, <2>5
  <2>10. Stripped(line, a, n)
    <3>1. \A k \in 1 .. a : k \in 1 .. Len(line) /\ k < m
      BY <2>1, <2>6, <2>7
    <3>2. \A k \in a + n + 1 .. Len(line) : k \in 1 .. Len(line) /\ x < k
      BY <2>1, <2>6, <2>7
    <3>3. QED
      BY <2>7, <2>8, <2>9, <3>1, <3>2 DEF Stripped
  <2>11. QED
    BY <2>2, <2>5, <2>6, <2>7, <2>10
<1>3. QED
  BY <1>1, <1>2

\* The line a text begins with, when it begins with no white space: n bytes,
\* white space, a line end at e.
LEMMA LineBody ==
    ASSUME NEW text \in Seq(Bytes), NEW e \in 1 .. Len(text), text[e] \in EndOfLine,
           NEW n \in 0 .. e - 1,
           \A k \in 1 .. n : text[k] \notin EndOfLine,
           \A k \in n + 1 .. e - 1 : text[k] = "sp",
           n # 0 => text[1] # "sp" /\ text[n] # "sp"
    PROVE  FindNewlineAndStrip(text).body = SubSeq(text, 1, n)
<1> DEFINE ends == {k \in DOMAIN text : text[k] \in EndOfLine}
           line == SubSeq(text, 1, e - 1)
           kept == {i \in DOMAIN line : line[i] # "sp"}
<1>1. Min(ends) = e
  <2>1. ends \in SUBSET (1 .. Len(text)) /\ Len(text) \in Nat /\ e \in ends
    OBVIOUS
  <2>2. \A k \in ends : k \in 1 .. Len(text) /\ text[k] \in EndOfLine
    OBVIOUS
  <2>3. Min(ends) \in ends /\ \A y \in ends : Min(ends) <= y
    <3> HIDE DEF ends
    <3>1. QED
      BY <2>1, LeastElement
  <2> HIDE DEF ends
  <2>4. PICK i \in 1 .. Len(text) : i = Min(ends) /\ text[i] \in EndOfLine /\ i <= e
    BY <2>1, <2>2, <2>3
  <2>5. ~(i \in n + 1 .. e - 1) /\ ~(i \in 1 .. n)
    BY <2>4 DEF EndOfLine
  <2>6. QED
    BY <2>4, <2>5
<1>2. FindNewlineAndStrip(text).body = Strip(SubSeq(text, 1, Min(ends) - 1))
  BY DEF FindNewlineAndStrip
<1>3. FindNewlineAndStrip(text).body = Strip(line)
  BY <1>1, <1>2
<1>4. line \in Seq(Bytes) /\ Len(line) = e - 1 /\ \A k \in 1 .. e - 1 : line[k] = text[k]
  OBVIOUS
<1> HIDE DEF line, ends
<1>5. PICK a, b \in Nat :
         /\ a + b <= Len(line) /\ b = Len(Strip(line))
         /\ Strip(line) = SubSeq(line, a + 1, a + b) /\ Stripped(line, a, b)
  BY <1>4, StripParts
<1>6. /\ a + b <= e - 1
      /\ \A k \in 1 .. a : text[k] = "sp"
      /\ \A k \in a + b + 1 .. e - 1 : text[k] = "sp"
      /\ b # 0 => text[a + 1] # "sp" /\ text[a + b] # "sp"
  <2>1. a + b <= e - 1
    BY <1>4, <1>5
  <2>2. ASSUME NEW k \in 1 .. a PROVE text[k] = "sp"
    <3>1. k \in 1 .. e - 1
      BY <2>1
    <3>2. QED
      BY <1>4, <1>5, <3>1 DEF Stripped
  <2>3. ASSUME NEW k \in a + b + 1 .. e - 1 PROVE text[k] = "sp"
    <3>1. k \in 1 .. e - 1
      BY <2>1
    <3>2. QED
      BY <1>4, <1>5, <3>1 DEF Stripped
  <2>4. ASSUME b # 0 PROVE text[a + 1] # "sp" /\ text[a + b] # "sp"
    <3>1. a + 1 \in 1 .. e - 1 /\ a + b \in 1 .. e - 1
      BY <2>1, <2>4
    <3>2. QED
      BY <1>4, <1>5, <2>4, <3>1 DEF Stripped
  <2>5. QED
    BY <2>1, <2>2, <2>3, <2>4
<1>7. (n = 0 /\ b = 0) \/ (n # 0 /\ a = 0 /\ b = n)
  <2>1. CASE n = 0
    <3>1. b # 0 => a + 1 \in n + 1 .. e - 1
      BY <1>6, <2>1
    <3>2. QED
      BY <1>6, <2>1, <3>1
  <2>2. CASE n # 0
    <3>1. a = 0
      <4>1. a # 0 => 1 \in 1 .. a
        OBVIOUS
      <4>2. QED
        BY <1>6, <2>2, <4>1
    <3>2. b >= n
      <4>1. b < n => n \in a + b + 1 .. e - 1
        BY <3>1
      <4>2. QED
        BY <1>6, <2>2, <4>1
    <3>3. b <= n
      <4>1. b > n => b \in n + 1 .. e - 1 /\ b # 0 /\ a + b = b
        BY <1>6, <3>1
      <4>2. QED
        BY <1>6, <4>1
    <3>4. QED
      BY <2>2, <3>1, <3>2, <3>3
  <2>3. QED
    BY <2>1, <2>2
<1>8. Strip(line) = SubSeq(text, 1, n)
  <2>1. CASE n = 0
    <3>1. Strip(line) \in Seq(Bytes)
      BY <1>4, StripType
    <3>2. Strip(line) = <<>>
      BY <1>5, <1>7, <2>1, <3>1, EmptySeq
    <3>3. QED
      BY <2>1, <3>2
  <2>2. CASE n # 0
    <3>1. Strip(line) = SubSeq(line, 1, n)
      BY <1>5, <1>7, <2>2
    <3>2. SubSeq(line, 1, n) = SubSeq(text, 1, n)
      BY <1>4
    <3>3. QED
      BY <3>1, <3>2
  <2>3. QED
    BY <2>1, <2>2
<1>9. QED
  BY <1>3, <1>8

\* What _find_newline_and_strip finds in data: a line end at i, before it a
\* bytes of white space, n bytes and more white space; and what it leaves from
\* the line on.
LineFound(data, f, i, a, n) ==
    /\ data[i] \in EndOfLine /\ \A k \in 1 .. i - 1 : data[k] \notin EndOfLine
    /\ f.skip = a /\ f.body = SubSeq(data, a + 1, a + n) /\ Len(f.body) = n
    /\ f.next \in {i + 1, i + 2} /\ f.next <= Len(data) + 1
    /\ f.next = i + 2 => data[i + 1] \in EndOfLine
    /\ \A k \in 1 .. a : data[k] = "sp"
    /\ \A k \in a + n + 1 .. i - 1 : data[k] = "sp"
    /\ n # 0 => data[a + 1] # "sp" /\ data[a + n] # "sp"

LineLeft(data, f, a, n) ==
    /\ a + Len(f.edited) = Len(data)
    /\ \A k \in 1 .. n : f.edited[k] = data[a + k]
    /\ \A k \in n + 1 .. f.next - 1 - a : f.edited[k] = "NUL"
    /\ \A k \in f.next - a .. Len(f.edited) : f.edited[k] = data[a + k]

\* _find_newline_and_strip, part by part.
LEMMA LineParts ==
    ASSUME NEW data \in Seq(Bytes), HasLine(data)
    PROVE  LET f == FindNewlineAndStrip(data) IN
           \E i \in 1 .. Len(data), a, n \in Nat :
              a + n <= i - 1 /\ LineFound(data, f, i, a, n) /\ LineLeft(data, f, a, n)
<1> DEFINE ends == {k \in DOMAIN data : data[k] \in EndOfLine}
<1>1. Min(ends) \in 1 .. Len(data) /\ data[Min(ends)] \in EndOfLine
      /\ \A k \in 1 .. Min(ends) - 1 : data[k] \notin EndOfLine
  <2>1. ends \in SUBSET (1 .. Len(data)) /\ Len(data) \in Nat
    OBVIOUS
  <2>2. ends # {}
    BY DEF HasLine
  <2>3. \A k \in 1 .. Len(data) : data[k] \in EndOfLine <=> k \in ends
    OBVIOUS
  <2> HIDE DEF ends
  <2>4. Min(ends) \in ends /\ \A y \in ends : Min(ends) <= y
    BY <2>1, <2>2, LeastElement
  <2>5. PICK i \in 1 .. Len(data) : i = Min(ends)
    BY <2>1, <2>4
  <2>6. \A k \in 1 .. i - 1 : k \in 1 .. Len(data) /\ ~(i <= k)
    BY <2>1
  <2>7. QED
    BY <2>3, <2>4, <2>5, <2>6
<1>2. PICK i \in 1 .. Len(data) :
        /\ i = Min(ends) /\ data[i] \in EndOfLine
        /\ \A k \in 1 .. i - 1 : data[k] \notin EndOfLine
  BY <1>1
<1> DEFINE next == IF data[i] = "CR" /\ i < Len(data) /\ data[i + 1] \in {"LF", "NUL"}
                   THEN i + 2 ELSE i + 1
<1>3. /\ next \in i + 1 .. Len(data) + 1 /\ next \in {i + 1, i + 2}
      /\ next = i + 2 => data[i + 1] \in EndOfLine
  BY DEF EndOfLine
<1> DEFINE line == SubSeq(data, 1, i - 1)
<1>4. line \in Seq(Bytes) /\ Len(line) = i - 1 /\ \A k \in 1 .. i - 1 : line[k] = data[k]
  OBVIOUS
<1>5. FindNewlineAndStrip(data) =
         [body |-> Strip(line), skip |-> Leading(line), next |-> next,
          edited |-> Strip(line) \o [k \in 1 .. (next - 1) - Leading(line) - Len(Strip(line)) |-> "NUL"]
                       \o SubSeq(data, next, Len(data))]
  BY <1>2 DEF FindNewlineAndStrip
<1> HIDE DEF line
<1>6. PICK a, n \in Nat :
         /\ a = Leading(line) /\ n = Len(Strip(line)) /\ a + n <= Len(line)
         /\ Strip(line) = SubSeq(line, a + 1, a + n) /\ Stripped(line, a, n)
  BY <1>4, StripParts
<1>7. PICK body \in Seq(Bytes) : body = Strip(line) /\ Len(body) = n
  BY <1>4, <1>6, StripType
<1>8. a + n <= i - 1
  BY <1>4, <1>6
<1>9. /\ \A k \in 1 .. a : data[k] = "sp"
      /\ \A k \in a + n + 1 .. i - 1 : data[k] = "sp"
      /\ n # 0 => data[a + 1] # "sp" /\ data[a + n] # "sp"
  <2>1. \A k \in 1 .. a : k \in 1 .. i - 1
    BY <1>8
  <2>2. \A k \in a + n + 1 .. i - 1 : k \in 1 .. i - 1
    BY <1>8
  <2>3. n # 0 => a + 1 \in 1 .. i - 1 /\ a + n \in 1 .. i - 1
    BY <1>8
  <2>4. QED
    BY <1>4, <1>6, <2>1, <2>2, <2>3 DEF Stripped
<1>10. body = SubSeq(data, a + 1, a + n) /\ \A k \in 1 .. n : body[k] = data[a + k]
  <2>1. SubSeq(line, a + 1, a + n) = SubSeq(data, a + 1, a + n)
    BY <1>4, <1>8 DEF line
  <2>2. body = SubSeq(data, a + 1, a + n)
    BY <1>6, <1>7, <2>1
  <2>3. \A k \in 1 .. n : SubSeq(data, a + 1, a + n)[k] = data[a + k]
    BY <1>8
  <2>4. QED
    BY <2>2, <2>3
<1>11. PICK nx \in i + 1 .. Len(data) + 1 :
         nx = next /\ nx \in {i + 1, i + 2} /\ (nx = i + 2 => data[i + 1] \in EndOfLine)
  BY <1>3
<1> HIDE DEF next
<1>12. PICK cut \in Nat : cut = (nx - 1) - a - n
  BY <1>8, <1>11
<1> DEFINE zeros == [k \in 1 .. cut |-> "NUL"]
           rest == SubSeq(data, nx, Len(data))
<1>13. zeros \in Seq(Bytes) /\ Len(zeros) = cut /\ \A k \in 1 .. cut : zeros[k] = "NUL"
  <2>1. zeros \in [1 .. cut -> Bytes] /\ DOMAIN zeros = 1 .. cut /\ cut \in Nat
    <3>1. "NUL" \in Bytes
      BY DEF Bytes
    <3>2. QED
      BY <3>1
  <2>1a. \A k \in 1 .. cut : zeros[k] = "NUL"
    OBVIOUS
  <2> HIDE DEF zeros
  <2>2. zeros \in Seq(Bytes)
    BY <2>1, SeqDef
  <2>3. DOMAIN zeros = 1 .. Len(zeros) /\ Len(zeros) \in Nat
    BY <2>2, LenProperties
  <2>4. QED
    BY <2>1, <2>1a, <2>2, <2>3
<1>14. rest \in Seq(Bytes) /\ Len(rest) = Len(data) - nx + 1
       /\ \A k \in 1 .. Len(data) - nx + 1 : rest[k] = data[nx - 1 + k]
  BY <1>11
<1>15. FindNewlineAndStrip(data) =
         [body |-> body, skip |-> a, next |-> nx, edited |-> body \o zeros \o rest]
  BY <1>5, <1>6, <1>7, <1>11, <1>12
<1> HIDE DEF zeros, rest
<1>16. PICK d \in Seq(Bytes) :
         /\ d = body \o zeros /\ Len(d) = n + cut
         /\ \A k \in 1 .. n : d[k] = body[k]
         /\ \A k \in n + 1 .. n + cut : d[k] = "NUL"
  <2>1. /\ body \o zeros \in Seq(Bytes) /\ Len(body \o zeros) = Len(body) + Len(zeros)
        /\ \A k \in 1 .. Len(body) + Len(zeros) : (body \o zeros)[k] =
              IF k <= Len(body) THEN body[k] ELSE zeros[k - Len(body)]
    BY <1>13, ConcatProperties
  <2>2. PICK d \in Seq(Bytes) : d = body \o zeros
    BY <2>1
  <2>3. Len(d) = n + cut /\ \A k \in 1 .. n + cut : d[k] = IF k <= n THEN body[k] ELSE zeros[k - n]
    BY <1>7, <1>13, <2>1, <2>2
  <2>4. \A k \in n + 1 .. n + cut : d[k] = "NUL"
    <3>1. \A k \in n + 1 .. n + cut : k \in 1 .. n + cut /\ ~(k <= n) /\ k - n \in 1 .. cut
      OBVIOUS
    <3>2. QED
      BY <1>13, <2>3, <3>1
  <2>5. \A k \in 1 .. n : d[k] = body[k]
    <3>1. \A k \in 1 .. n : k \in 1 .. n + cut /\ k <= n
      OBVIOUS
    <3>2. QED
      BY <2>3, <3>1
  <2>6. QED
    BY <2>2, <2>3, <2>4, <2>5
<1>17. PICK ed \in Seq(Bytes) :
         /\ ed = d \o rest /\ Len(ed) = n + cut + Len(rest)
         /\ \A k \in 1 .. n + cut : ed[k] = d[k]
         /\ \A k \in n + cut + 1 .. Len(ed) : ed[k] = rest[k - (n + cut)]
  <2>1. /\ d \o rest \in Seq(Bytes) /\ Len(d \o rest) = Len(d) + Len(rest)
        /\ \A k \in 1 .. Len(d) + Len(rest) : (d \o rest)[k] =
              IF k <= Len(d) THEN d[k] ELSE rest[k - Len(d)]
    BY <1>14, ConcatProperties
  <2>2. PICK ed \in Seq(Bytes) : ed = d \o rest
    BY <2>1
  <2>a. PICK r \in Nat : r = Len(rest)
    <3>1. rest \in Seq(Bytes)
      BY <1>14
    <3>2. QED
      BY <3>1, LenProperties
  <2>b. PICK m \in Nat : m = n + cut
    OBVIOUS
  <2>3. m = n + cut /\ r = Len(rest)
    BY <2>a, <2>b
  <2>4. Len(ed) = m + r /\ \A k \in 1 .. m + r : ed[k] = IF k <= m THEN d[k] ELSE rest[k - m]
    BY <1>16, <2>1, <2>2, <2>3
  <2>5. \A k \in 1 .. m : k \in 1 .. m + r /\ k <= m
    OBVIOUS
  <2>6. \A k \in m + 1 .. m + r : k \in 1 .. m + r /\ ~(k <= m)
    OBVIOUS
  <2>7. QED
    BY <2>2, <2>3, <2>4, <2>5, <2>6
<1>18. PICK f : f = [body |-> body, skip |-> a, next |-> nx, edited |-> ed]
  OBVIOUS
<1>19. f = FindNewlineAndStrip(data)
  BY <1>15, <1>16, <1>17, <1>18
<1>20. f.body = body /\ f.skip = a /\ f.next = nx /\ f.edited = ed
  BY <1>18
<1>21. LineFound(data, f, i, a, n)
  <2>1. f.skip = a /\ f.body = SubSeq(data, a + 1, a + n) /\ Len(f.body) = n
    BY <1>7, <1>10, <1>20
  <2>2. f.next \in {i + 1, i + 2} /\ (f.next = i + 2 => data[i + 1] \in EndOfLine)
    BY <1>11, <1>20
  <2>3. f.next <= Len(data) + 1
    BY <1>11, <1>20
  <2>4. QED
    BY <1>2, <1>9, <2>1, <2>2, <2>3, Zenon DEF LineFound
<1>22. PICK len \in Nat : len = Len(data)
  OBVIOUS
<1>23. n + cut = nx - 1 - a /\ a + Len(ed) = len /\ Len(rest) = len - nx + 1
  BY <1>12, <1>14, <1>17, <1>22
<1>24. \A k \in nx - a .. Len(ed) : ed[k] = data[a + k]
  <2>1. PICK e \in Nat : e = Len(ed)
    OBVIOUS
  <2>2. ASSUME NEW k \in nx - a .. e PROVE ed[k] = data[a + k]
    <3>1. k \in n + cut + 1 .. e /\ k - (n + cut) \in 1 .. len - nx + 1
          /\ nx - 1 + (k - (n + cut)) = a + k
      BY <1>11, <1>23, <2>1, <2>2, <1>22
    <3>2. PICK j : j = k - (n + cut)
      OBVIOUS
    <3>3. ed[k] = rest[j] /\ rest[j] = data[nx - 1 + j]
      BY <1>14, <1>17, <1>22, <2>1, <3>1, <3>2
    <3>4. QED
      BY <3>1, <3>2, <3>3
  <2>3. QED
    BY <2>1, <2>2
<1>25. \A k \in 1 .. n : ed[k] = data[a + k]
  <2>1. \A k \in 1 .. n : k \in 1 .. n + cut
    OBVIOUS
  <2>2. QED
    BY <1>10, <1>16, <1>17, <2>1
<1>26. \A k \in n + 1 .. nx - 1 - a : ed[k] = "NUL"
  <2>1. \A k \in n + 1 .. n + cut : k \in 1 .. n + cut
    OBVIOUS
  <2>2. QED
    BY <1>16, <1>17, <1>23, <2>1
<1>27. LineLeft(data, f, a, n)
  BY <1>20, <1>22, <1>23, <1>24, <1>25, <1>26 DEF LineLeft
<1>28. QED
  BY <1>8, <1>19, <1>21, <1>27

\* From byte k of the payload on: white space up to a line end, not beyond n.
BlankLine(sent, k, n) ==
    \E j \in k .. n : sent[j] \in EndOfLine /\ \A i \in k .. j - 1 : sent[i] = "sp"

\* The buffer shows the payload from byte t + 1 on, but for zeros that the line
\* search has put in place of white space and a line end.
Shows(data, sent, t) ==
    \A k \in 1 .. Len(data) :
        \/ data[k] = sent[t + k]
        \/ data[k] = "NUL" /\ BlankLine(sent, t + k, t + Len(data))

\* A byte of the buffer that is no line end is payload; a line end stands for
\* one, or for white space before one.
LEMMA ShowsByte ==
    ASSUME NEW data \in Seq(Bytes), NEW sent \in Seq(Bytes), NEW t \in Nat,
           Shows(data, sent, t), NEW k \in 1 .. Len(data)
    PROVE  /\ data[k] \notin EndOfLine \/ data[k] # "NUL" => sent[t + k] = data[k]
           /\ data[k] \in EndOfLine =>
                 sent[t + k] \in Blank /\ BlankLine(sent, t + k, t + Len(data))
<1>1. CASE data[k] = sent[t + k]
  <2>1. CASE data[k] \in EndOfLine
    <3>a. PICK d \in Nat : d = Len(data)
      OBVIOUS
    <3>b. t + k \in Nat /\ t + d \in Nat /\ t + k <= t + d
      BY <3>a
    <3>1. PICK m, n \in Nat : m = t + k /\ n = t + Len(data) /\ m <= n
      BY <3>a, <3>b
    <3>2. sent[m] \in EndOfLine /\ m \in m .. n /\ \A i \in m .. m - 1 : FALSE
      BY <1>1, <2>1, <3>1
    <3>3. BlankLine(sent, m, n)
      BY <3>2 DEF BlankLine
    <3>4. QED
      BY <1>1, <2>1, <3>1, <3>3 DEF Blank
  <2>2. CASE data[k] \notin EndOfLine
    BY <1>1, <2>2
  <2>3. QED
    BY <2>1, <2>2
<1>2. CASE data[k] # sent[t + k]
  <2>1. data[k] = "NUL" /\ BlankLine(sent, t + k, t + Len(data))
    BY <1>2 DEF Shows
  <2>2. PICK m, n \in Nat : m = t + k /\ n = t + Len(data)
    OBVIOUS
  <2>3. PICK j \in m .. n : sent[j] \in EndOfLine /\ \A i \in m .. j - 1 : sent[i] = "sp"
    BY <2>1, <2>2 DEF BlankLine
  <2>4. sent[m] \in Blank
    <3>1. j = m \/ m \in m .. j - 1
      BY <2>2, <2>3
    <3>2. QED
      BY <2>3, <3>1 DEF Blank
  <2>5. data[k] \in EndOfLine
    BY <2>1 DEF EndOfLine
  <2>6. QED
    BY <2>1, <2>2, <2>4, <2>5
<1>3. QED
  BY <1>1, <1>2

\* What is left of a sequence without its first m elements.
LEMMA RestOf ==
    ASSUME NEW u \in Seq(Bytes), NEW m \in 0 .. Len(u)
    PROVE  /\ SubSeq(u, m + 1, Len(u)) \in Seq(Bytes)
           /\ Len(SubSeq(u, m + 1, Len(u))) = Len(u) - m
           /\ \A k \in 1 .. Len(u) - m : SubSeq(u, m + 1, Len(u))[k] = u[m + k]
OBVIOUS

\* What is left of the buffer when its first m bytes are gone.
LEMMA ShowsRest ==
    ASSUME NEW data \in Seq(Bytes), NEW sent \in Seq(Bytes), NEW t \in Nat,
           Shows(data, sent, t), NEW m \in 0 .. Len(data)
    PROVE  Shows(SubSeq(data, m + 1, Len(data)), sent, t + m)
<1>1. PICK d \in Nat : d = Len(data)
  OBVIOUS
<1>2. PICK r \in Seq(Bytes) : r = SubSeq(data, m + 1, Len(data))
  <2>1. SubSeq(data, m + 1, Len(data)) \in Seq(Bytes)
    OBVIOUS
  <2>2. QED
    BY <2>1, Zenon
<1>3. Len(r) = d - m /\ \A k \in 1 .. d - m : r[k] = data[m + k]
  BY <1>1, <1>2
<1>4. ASSUME NEW k \in 1 .. d - m
      PROVE  \/ r[k] = sent[(t + m) + k]
             \/ r[k] = "NUL" /\ BlankLine(sent, (t + m) + k, (t + m) + (d - m))
  <2>1. PICK j \in 1 .. d : j = m + k
    BY <1>1
  <2>2. t + j = (t + m) + k /\ (t + m) + (d - m) = t + d
    BY <1>1, <2>1
  <2>3. \/ data[j] = sent[t + j]
        \/ data[j] = "NUL" /\ BlankLine(sent, t + j, t + d)
    BY <1>1, <2>1 DEF Shows
  <2>4. QED
    BY <1>3, <2>1, <2>2, <2>3
<1>5. QED
  BY <1>2, <1>3, <1>4 DEF Shows

\* More payload behind the buffer.
LEMMA ShowsMore ==
    ASSUME NEW data \in Seq(Bytes), NEW sent \in Seq(Bytes), NEW t \in Nat,
           Shows(data, sent, t), NEW e \in Seq(Bytes),
           \A k \in 1 .. Len(e) : e[k] = sent[t + Len(data) + k]
    PROVE  Shows(data \o e, sent, t)
<1>1. /\ data \o e \in Seq(Bytes) /\ Len(data \o e) = Len(data) + Len(e)
      /\ \A k \in 1 .. Len(data) + Len(e) : (data \o e)[k] =
            IF k <= Len(data) THEN data[k] ELSE e[k - Len(data)]
  BY ConcatProperties
<1>2. PICK d \in Nat : d = Len(data)
  OBVIOUS
<1>3. PICK m \in Nat : m = Len(e)
  OBVIOUS
<1>4. PICK r \in Seq(Bytes) : r = data \o e
  BY <1>1
<1>5. Len(r) = d + m /\ \A k \in 1 .. d + m : r[k] = IF k <= d THEN data[k] ELSE e[k - d]
  BY <1>1, <1>2, <1>3, <1>4
<1>6. ASSUME NEW k \in 1 .. d + m
      PROVE  r[k] = sent[t + k] \/ (r[k] = "NUL" /\ BlankLine(sent, t + k, t + (d + m)))
  <2>1. CASE k <= d
    <3>1. r[k] = data[k] /\ k \in 1 .. d
      BY <1>5, <2>1
    <3>2. data[k] = sent[t + k] \/ (data[k] = "NUL" /\ BlankLine(sent, t + k, t + d))
      BY <1>2, <3>1 DEF Shows
    <3>3. BlankLine(sent, t + k, t + d) => BlankLine(sent, t + k, t + (d + m))
      <4>1. \A j \in t + k .. t + d : j \in t + k .. t + (d + m)
        OBVIOUS
      <4>2. QED
        BY <4>1, Zenon DEF BlankLine
    <3>4. QED
      BY <3>1, <3>2, <3>3
  <2>2. CASE ~(k <= d)
    <3>1. PICK j \in 1 .. m : j = k - d /\ t + d + j = t + k
      BY <2>2
    <3>2. r[k] = e[j]
      BY <1>5, <2>2, <3>1
    <3>3. e[j] = sent[t + d + j]
      BY <1>2, <1>3, <3>1
    <3>4. QED
      BY <3>1, <3>2, <3>3
  <2>3. QED
    BY <2>1, <2>2
<1>7. QED
  BY <1>4, <1>5, <1>6 DEF Shows

\* What _find_newline_and_strip cuts behind a line is white space and a line
\* end of the payload, or white space before one.
LEMMA CutBlank ==
    ASSUME NEW data \in Seq(Bytes), NEW sent \in Seq(Bytes), NEW t \in Nat,
           Shows(data, sent, t), NEW f, NEW i \in 1 .. Len(data), NEW a \in Nat, NEW n \in Nat,
           a + n <= i - 1, LineFound(data, f, i, a, n), NEW x \in a + n + 1 .. f.next - 1
    PROVE  /\ x \in 1 .. Len(data) /\ sent[t + x] \in Blank
           /\ BlankLine(sent, t + x, t + Len(data))
<1>1. PICK d \in Nat : d = Len(data)
  OBVIOUS
<1>2. PICK nx \in {i + 1, i + 2} : /\ nx = f.next /\ nx <= d + 1
                                   /\ nx = i + 2 => data[i + 1] \in EndOfLine
  BY <1>1 DEF LineFound
<1>3. x \in a + n + 1 .. nx - 1 /\ i \in 1 .. d /\ x \in 1 .. d
  BY <1>1, <1>2
<1>4. CASE x >= i
  <2>1. x = i \/ (x = i + 1 /\ nx = i + 2)
    BY <1>2, <1>3, <1>4
  <2>2. data[x] \in EndOfLine
    BY <1>2, <2>1 DEF LineFound
  <2>3. QED
    BY <1>1, <1>3, <2>2, ShowsByte
<1>5. CASE x < i
  <2>1. ASSUME NEW y \in x .. i - 1 PROVE sent[t + y] = "sp"
    <3>1. y \in a + n + 1 .. i - 1 /\ y \in 1 .. d
      BY <1>3
    <3>2. data[y] = "sp"
      BY <3>1 DEF LineFound
    <3>3. "sp" \notin EndOfLine
      BY DEF EndOfLine
    <3>4. QED
      BY <1>1, <3>1, <3>2, <3>3, ShowsByte
  <2>2. data[i] \in EndOfLine
    BY DEF LineFound
  <2>3. BlankLine(sent, t + i, t + d)
    BY <1>1, <2>2, ShowsByte
  <2>4. PICK j \in t + i .. t + d : sent[j] \in EndOfLine /\ \A y \in t + i .. j - 1 : sent[y] = "sp"
    BY <2>3 DEF BlankLine
  <2>5. ASSUME NEW y \in t + x .. j - 1 PROVE sent[y] = "sp"
    <3>1. CASE y >= t + i
      <4>1. y \in t + i .. j - 1
        BY <1>3, <3>1
      <4>2. QED
        BY <2>4, <4>1
    <3>2. CASE y < t + i
      <4>1. PICK z \in x .. i - 1 : t + z = y
        <5>1. y - t \in x .. i - 1 /\ t + (y - t) = y
          BY <1>3, <3>2
        <5>2. QED
          BY <5>1
      <4>2. QED
        BY <2>1, <4>1
    <3>3. QED
      BY <1>3, <3>1, <3>2
  <2>6. j \in t + x .. t + d
    BY <1>3, <1>5, <2>4
  <2>7. BlankLine(sent, t + x, t + d)
    BY <2>4, <2>5, <2>6 DEF BlankLine
  <2>8. sent[t + x] = "sp"
    <3>1. x \in x .. i - 1
      BY <1>3, <1>5
    <3>2. QED
      BY <2>1, <3>1
  <2>9. QED
    BY <1>1, <1>3, <2>7, <2>8 DEF Blank
<1>6. QED
  BY <1>3, <1>4, <1>5

\* The line f is the line of the payload behind t and a bytes of white space,
\* and white space or line ends follow its n bytes.
LineOf(f, sent, t, a, n) ==
    /\ f.body = FindNewlineAndStrip(SubSeq(sent, t + a + 1, Len(sent))).body
    /\ \A x \in 1 .. a : sent[t + x] \in Blank
    /\ \A x \in a + n + 1 .. f.next - 1 : sent[t + x] \in Blank

\* The line found in the buffer is the line of the payload.
LEMMA LineMatches ==
    ASSUME NEW data \in Seq(Bytes), NEW sent \in Seq(Bytes), NEW t \in Nat,
           Shows(data, sent, t), t + Len(data) <= Len(sent),
           NEW f, NEW i \in 1 .. Len(data), NEW a \in Nat, NEW n \in Nat,
           a + n <= i - 1, LineFound(data, f, i, a, n)
    PROVE  LineOf(f, sent, t, a, n)
<1>1. PICK d, l \in Nat : d = Len(data) /\ l = Len(sent)
  OBVIOUS
<1>2. t + d <= l /\ i \in 1 .. d
  BY <1>1
<1>3. ASSUME NEW k \in 1 .. i - 1 PROVE sent[t + k] = data[k] /\ data[k] \notin EndOfLine
  <2>1. k \in 1 .. d /\ data[k] \notin EndOfLine
    BY <1>2 DEF LineFound
  <2>2. QED
    BY <1>1, <2>1, ShowsByte
<1>4. ASSUME NEW x \in 1 .. a PROVE sent[t + x] \in Blank
  <2>1. x \in 1 .. i - 1 /\ data[x] = "sp"
    BY DEF LineFound
  <2>2. QED
    BY <1>3, <2>1 DEF Blank
<1>5. \A x \in a + n + 1 .. f.next - 1 : sent[t + x] \in Blank
  BY CutBlank
<1>6. PICK j \in t + (a + n + 1) .. t + d :
         /\ sent[j] \in EndOfLine
         /\ \A k \in t + (a + n + 1) .. j - 1 : sent[k] = "sp"
  <2>1. f.next \in {i + 1, i + 2}
    BY DEF LineFound
  <2>2. a + n + 1 \in a + n + 1 .. f.next - 1
    BY <2>1
  <2>3. BlankLine(sent, t + (a + n + 1), t + d)
    BY <1>1, <2>2, CutBlank
  <2>4. QED
    BY <2>3 DEF BlankLine
<1>7. PICK s \in Nat : s = t + a
  OBVIOUS
<1>8. PICK text \in Seq(Bytes) : text = SubSeq(sent, s + 1, Len(sent))
  <2>1. SubSeq(sent, s + 1, Len(sent)) \in Seq(Bytes)
    OBVIOUS
  <2>2. QED
    BY <2>1, Zenon
<1>9. s + n + 1 <= j /\ j <= l /\ s + n < l
  BY <1>2, <1>6, <1>7
<1>10. Len(text) = l - s /\ \A k \in 1 .. l - s : text[k] = sent[s + k]
  <2>1. s \in 0 .. Len(sent)
    BY <1>1, <1>9
  <2>2. /\ Len(SubSeq(sent, s + 1, Len(sent))) = Len(sent) - s
        /\ \A k \in 1 .. Len(sent) - s : SubSeq(sent, s + 1, Len(sent))[k] = sent[s + k]
    BY <2>1, RestOf
  <2>3. QED
    BY <1>1, <1>8, <2>2
<1>11. PICK e \in 1 .. l - s : e = j - s /\ s + e = j /\ n \in 0 .. e - 1
  BY <1>7, <1>9, <1>6
<1>12. e \in 1 .. Len(text) /\ text[e] \in EndOfLine
  BY <1>6, <1>10, <1>11
<1>13. ASSUME NEW k \in 1 .. n PROVE text[k] = data[a + k] /\ text[k] \notin EndOfLine
  <2>1. a + k \in 1 .. i - 1 /\ k \in 1 .. l - s /\ t + (a + k) = s + k
    BY <1>2, <1>7, <1>9
  <2>2. QED
    BY <1>3, <1>10, <2>1
<1>14. ASSUME NEW k \in n + 1 .. e - 1 PROVE text[k] = "sp"
  <2>1. k \in 1 .. l - s /\ s + k \in t + (a + n + 1) .. j - 1
    BY <1>7, <1>11
  <2>2. QED
    BY <1>6, <1>10, <2>1
<1>15. ASSUME n # 0 PROVE text[1] # "sp" /\ text[n] # "sp"
  <2>1. 1 \in 1 .. n /\ n \in 1 .. n
    BY <1>15
  <2>2. data[a + 1] # "sp" /\ data[a + n] # "sp"
    BY <1>15 DEF LineFound
  <2>3. QED
    BY <1>13, <2>1, <2>2
<1>16. FindNewlineAndStrip(text).body = SubSeq(text, 1, n)
  BY <1>11, <1>12, <1>13, <1>14, <1>15, LineBody
<1>17. SubSeq(data, a + 1, a + n) = SubSeq(text, 1, n)
  <2>1. PICK u \in Seq(Bytes) : u = SubSeq(data, a + 1, a + n)
    <3>1. SubSeq(data, a + 1, a + n) \in Seq(Bytes)
      BY <1>2
    <3>2. QED
      BY <3>1, Zenon
  <2>2. PICK v \in Seq(Bytes) : v = SubSeq(text, 1, n)
    <3>1. SubSeq(text, 1, n) \in Seq(Bytes)
      BY <1>11, <1>12
    <3>2. QED
      BY <3>1, Zenon
  <2>3. Len(u) = n /\ \A k \in 1 .. n : u[k] = data[a + k]
    BY <1>1, <1>2, <2>1
  <2>4. Len(v) = n /\ \A k \in 1 .. n : v[k] = text[k]
    BY <1>11, <1>12, <2>2
  <2>5. u = v
    BY <1>13, <2>3, <2>4, SeqEqual
  <2>6. QED
    BY <2>1, <2>2, <2>5
<1>18. f.body = SubSeq(data, a + 1, a + n)
  BY DEF LineFound
<1>19. QED
  BY <1>4, <1>5, <1>7, <1>8, <1>16, <1>17, <1>18 DEF LineOf

\* A refused line stays in the buffer, edited, and still shows the payload.
LEMMA ShowsEdited ==
    ASSUME NEW data \in Seq(Bytes), NEW sent \in Seq(Bytes), NEW t \in Nat,
           Shows(data, sent, t), NEW f, f.edited \in Seq(Bytes),
           NEW i \in 1 .. Len(data), NEW a \in Nat, NEW n \in Nat,
           a + n <= i - 1, LineFound(data, f, i, a, n), LineLeft(data, f, a, n)
    PROVE  Shows(f.edited, sent, t + a)
<1>1. PICK d, nx \in Nat : d = Len(data) /\ nx = f.next /\ nx \in {i + 1, i + 2}
  BY DEF LineFound
<1>2. PICK u \in Seq(Bytes), m \in Nat : u = f.edited /\ m = Len(u)
  OBVIOUS
<1>3. /\ a + m = d /\ i \in 1 .. d
      /\ \A k \in 1 .. n : u[k] = data[a + k]
      /\ \A k \in n + 1 .. nx - 1 - a : u[k] = "NUL"
      /\ \A k \in nx - a .. m : u[k] = data[a + k]
  BY <1>1, <1>2 DEF LineLeft
<1>4. ASSUME NEW k \in 1 .. m
      PROVE  \/ u[k] = sent[(t + a) + k]
             \/ u[k] = "NUL" /\ BlankLine(sent, (t + a) + k, (t + a) + m)
  <2>1. PICK x \in 1 .. d : x = a + k
    BY <1>3
  <2>2. t + x = (t + a) + k /\ t + d = (t + a) + m
    BY <1>3, <2>1
  <2>3. CASE k \in n + 1 .. nx - 1 - a
    <3>1. x \in a + n + 1 .. f.next - 1
      BY <1>1, <2>1, <2>3
    <3>2. BlankLine(sent, t + x, t + d)
      BY <1>1, <3>1, CutBlank
    <3>3. QED
      BY <1>3, <2>2, <2>3, <3>2
  <2>4. CASE k \notin n + 1 .. nx - 1 - a
    <3>1. k \in 1 .. n \/ k \in nx - a .. m
      BY <1>1, <2>4
    <3>2. u[k] = data[x]
      BY <1>3, <2>1, <3>1
    <3>3. data[x] = sent[t + x] \/ (data[x] = "NUL" /\ BlankLine(sent, t + x, t + d))
      BY <1>1 DEF Shows
    <3>4. QED
      BY <2>2, <3>2, <3>3
  <2>5. QED
    BY <2>3, <2>4
<1>5. QED
  BY <1>2, <1>4 DEF Shows

-----------------------------------------------------------------------------
(* The character search against the payload.                               *)

\* The digits of an escape sequence end at the first of these.
Stops(data) == {k \in 3 .. Len(data) : data[k] \notin Digits}

Escape(data, ansi) == ansi /\ data[1] = "ESC"
Control(data, ansi) == Escape(data, ansi) /\ Len(data) > 1 /\ data[2] = "["

\* _find_char_input_sequence, case by case.
LEMMA SequenceCases ==
    ASSUME NEW data \in Seq(Bytes), data # <<>>, Len(data) # 0, NEW ansi \in BOOLEAN
    PROVE  LET s == FindCharInputSequence(data, ansi) IN
           /\ Escape(data, ansi) /\ Len(data) = 1 => s.found = FALSE
           /\ Control(data, ansi) /\ Stops(data) = {} => s.found = FALSE
           /\ Control(data, ansi) /\ Stops(data) # {} =>
                 s.len = IF data[Min(Stops(data))] \in Finals THEN Min(Stops(data)) ELSE 1
           /\ ~(Escape(data, ansi) /\ Len(data) = 1) /\ ~Control(data, ansi) =>
                 /\ s.found = ~MbIncomplete(data)
                 /\ ~MbIncomplete(data) => s.len = MbLength(data)
<1> DEFINE stop == {k \in 3 .. Len(data) : data[k] \notin Digits}
           none == [found |-> FALSE, len |-> 0]
           s == FindCharInputSequence(data, ansi)
<1>1. none.found = FALSE
  OBVIOUS
<1>2. \A n : [found |-> TRUE, len |-> n].len = n /\ [found |-> TRUE, len |-> n].found = TRUE
  OBVIOUS
<1>3. CASE Escape(data, ansi) /\ Len(data) = 1
  <2>1. s = none
    BY <1>3 DEF FindCharInputSequence, Escape
  <2> HIDE DEF none, s
  <2>2. QED
    BY <1>1, <1>3, <2>1 DEF Control, s
<1>4. CASE Control(data, ansi) /\ stop = {}
  <2>1. s = none
    BY <1>4 DEF FindCharInputSequence, Escape, Control
  <2> HIDE DEF none, s
  <2>2. QED
    BY <1>1, <1>4, <2>1 DEF Control, Stops, s
<1>5. CASE Control(data, ansi) /\ stop # {}
  <2>1. s = [found |-> TRUE, len |-> IF data[Min(stop)] \in Finals THEN Min(stop) ELSE 1]
    BY <1>5 DEF FindCharInputSequence, Escape, Control
  <2>2. stop = Stops(data)
    BY DEF Stops
  <2> HIDE DEF none, s, stop
  <2>3. Len(data) # 1
    BY <1>5 DEF Control
  <2>4. QED
    BY <1>2, <1>5, <2>1, <2>2, <2>3 DEF s
<1>6. CASE ~(Escape(data, ansi) /\ Len(data) = 1) /\ ~Control(data, ansi)
  <2>1. s = IF MbIncomplete(data) THEN none ELSE [found |-> TRUE, len |-> MbLength(data)]
    BY <1>6 DEF FindCharInputSequence, Escape, Control
  <2>2. MbIncomplete(data) \in BOOLEAN
    BY DEF MbIncomplete
  <2> HIDE DEF none, s
  <2>3. QED
    BY <1>1, <1>2, <1>6, <2>1, <2>2 DEF s
<1>7. QED
  BY <1>3, <1>4, <1>5, <1>6

\* mbrlen, case by case.
LEMMA MbLengthCases ==
    ASSUME NEW data \in Seq(Bytes)
    PROVE  MbLength(data) = IF data[1] = "NUL" THEN 0
                            ELSE IF data[1] = "u1" /\ Len(data) > 1 /\ data[2] = "u2" THEN 2 ELSE 1
BY DEF MbLength

\* A text of one byte.
LEMMA OneByte ==
    ASSUME NEW data \in Seq(Bytes)
    PROVE  MbIncomplete(data) <=> Len(data) = 1 /\ data[1] = "u1"
<1>1. ASSUME Len(data) = 1, data[1] = "u1" PROVE data = <<"u1">>
  <2>1. DOMAIN data = 1 .. 1
    BY <1>1
  <2>2. QED
    BY <1>1, <2>1
<1>2. ASSUME data = <<"u1">> PROVE Len(data) = 1 /\ data[1] = "u1"
  <2>1. Len(<<"u1">>) = 1 /\ <<"u1">>[1] = "u1"
    OBVIOUS
  <2>2. QED
    BY <1>2, <2>1
<1>3. QED
  BY <1>1, <1>2 DEF MbIncomplete

\* text agrees with data but for zeros in data, which stand for white space or
\* line ends.
Agree(data, text) ==
    /\ Len(data) <= Len(text)
    /\ \A k \in 1 .. Len(data) : /\ data[k] # "NUL" => text[k] = data[k]
                                 /\ data[k] = "NUL" => text[k] \in Blank

\* No sequence is found in nothing.
LEMMA NoSequence ==
    ASSUME NEW data \in Seq(Bytes), NEW ansi \in BOOLEAN, FindCharInputSequence(data, ansi).found
    PROVE  Len(data) # 0 /\ data # <<>>
<1>1. Len(data) # 0
  BY SequenceType
<1>2. QED
  BY <1>1

\* A whole sequence of n bytes is there.
SequenceOf(data, ansi, n) ==
    FindCharInputSequence(data, ansi).found /\ n = FindCharInputSequence(data, ansi).len

\* The text begins with the n bytes found in data as its sequence; none were
\* found where it begins with white space or a line end.
StartsSame(data, text, ansi, n) ==
    /\ n = 0 => text[1] \in Blank
    /\ n # 0 => FindCharInputSequence(text, ansi).len = n
    /\ \A k \in 1 .. n : data[k] = text[k]

\* Such a text begins with the same sequence.
LEMMA SameSequence ==
    ASSUME NEW data \in Seq(Bytes), NEW text \in Seq(Bytes), NEW ansi \in BOOLEAN,
           Agree(data, text), NEW n \in Nat, SequenceOf(data, ansi, n)
    PROVE  StartsSame(data, text, ansi, n)
<1> SUFFICES /\ n = 0 => text[1] \in Blank
             /\ n # 0 => FindCharInputSequence(text, ansi).len = n
             /\ \A k \in 1 .. n : data[k] = text[k]
  BY Zenon DEF StartsSame
<1>0. FindCharInputSequence(data, ansi).found /\ n = FindCharInputSequence(data, ansi).len
  BY Zenon DEF SequenceOf
<1> USE <1>0
<1>a. PICK d, l \in Nat : d = Len(data) /\ l = Len(text)
  OBVIOUS
<1>b. d # 0 /\ data # <<>> /\ d <= l /\ text # <<>>
  <2>1. d # 0 /\ data # <<>> /\ d <= l
    BY <1>a, NoSequence DEF Agree
  <2>2. QED
    BY <1>a, <2>1
<1>c. \A k \in 1 .. d : /\ data[k] # "NUL" => text[k] = data[k]
                        /\ data[k] = "NUL" => text[k] \in Blank
  BY <1>a DEF Agree
<1> USE <1>a, <1>b, <1>c
<1> DEFINE s == FindCharInputSequence(data, ansi)
           r == FindCharInputSequence(text, ansi)
<1>1. /\ Escape(data, ansi) /\ d = 1 => s.found = FALSE
      /\ Control(data, ansi) /\ Stops(data) = {} => s.found = FALSE
      /\ Control(data, ansi) /\ Stops(data) # {} =>
            s.len = IF data[Min(Stops(data))] \in Finals THEN Min(Stops(data)) ELSE 1
      /\ ~(Escape(data, ansi) /\ d = 1) /\ ~Control(data, ansi) =>
            /\ s.found = ~MbIncomplete(data)
            /\ ~MbIncomplete(data) => s.len = MbLength(data)
  BY SequenceCases
<1>2. /\ Control(text, ansi) /\ Stops(text) # {} =>
            r.len = IF text[Min(Stops(text))] \in Finals THEN Min(Stops(text)) ELSE 1
      /\ ~(Escape(text, ansi) /\ l = 1) /\ ~Control(text, ansi) =>
            (~MbIncomplete(text) => r.len = MbLength(text))
  <2>1. Len(text) # 0
    OBVIOUS
  <2>2. QED
    BY <2>1, SequenceCases
<1>3. s.found /\ n = s.len
  OBVIOUS
<1> HIDE DEF s, r
<1>4. 1 \in 1 .. d /\ (d > 1 => 2 \in 1 .. d)
  OBVIOUS
<1>5. CASE Control(data, ansi)
  <2>1. Stops(data) # {}
    BY <1>1, <1>3, <1>5
  <2>2. PICK m \in 3 .. d :
          /\ m = Min(Stops(data)) /\ data[m] \notin Digits
          /\ \A k \in 3 .. m - 1 : data[k] \in Digits
    <3>1. Stops(data) \in SUBSET (1 .. d)
      BY DEF Stops
    <3>2. \A k \in 3 .. d : k \in Stops(data) <=> data[k] \notin Digits
      BY DEF Stops
    <3>3. \A k \in Stops(data) : k \in 3 .. d
      BY DEF Stops
    <3>4. Min(Stops(data)) \in Stops(data) /\ \A y \in Stops(data) : Min(Stops(data)) <= y
      BY <2>1, <3>1, LeastElement
    <3>5. PICK m \in 3 .. d : m = Min(Stops(data)) /\ data[m] \notin Digits /\ \A y \in Stops(data) : m <= y
      BY <3>2, <3>3, <3>4
    <3>6. ASSUME NEW k \in 3 .. m - 1 PROVE data[k] \in Digits
      <4>1. k \in 3 .. d /\ ~(m <= k)
        BY <3>5
      <4>2. QED
        BY <3>2, <3>5, <4>1
    <3>7. QED
      BY <3>5, <3>6
  <2>4. n = IF data[m] \in Finals THEN m ELSE 1
    BY <1>1, <1>3, <1>5, <2>1, <2>2
  <2>5. data[1] = "ESC" /\ data[2] = "[" /\ ansi /\ d > 1
    BY <1>5 DEF Control, Escape
  <2>6. text[1] = "ESC" /\ text[2] = "[" /\ l > 1
    <3>1. "ESC" # "NUL" /\ "[" # "NUL"
      OBVIOUS
    <3>2. QED
      BY <1>4, <2>5, <3>1
  <2>7. ASSUME NEW k \in 3 .. m - 1 PROVE text[k] = data[k] /\ text[k] \in Digits
    <3>1. data[k] \in Digits /\ k \in 1 .. d
      BY <2>2
    <3>2. data[k] # "NUL"
      BY <3>1 DEF Digits
    <3>3. QED
      BY <3>1, <3>2
  <2>8. m \in 1 .. d /\ m \in 3 .. l
    BY <2>2
  <2>9. text[m] \notin Digits /\ (text[m] \in Finals <=> data[m] \in Finals)
        /\ (data[m] \in Finals => text[m] = data[m])
    <3>1. CASE data[m] = "NUL"
      <4>1. text[m] \in Blank
        BY <2>8, <3>1
      <4>2. QED
        BY <3>1, <4>1 DEF Blank, EndOfLine, Digits, Finals
    <3>2. CASE data[m] # "NUL"
      BY <2>2, <2>8, <3>2
    <3>3. QED
      BY <3>1, <3>2
  <2>10. Min(Stops(text)) = m /\ Stops(text) # {}
    <3>1. Stops(text) \in SUBSET (1 .. l) /\ m \in Stops(text)
      BY <2>8, <2>9 DEF Stops
    <3>2. \A k \in Stops(text) : k \in 3 .. l /\ text[k] \notin Digits
      BY DEF Stops
    <3>3. Min(Stops(text)) \in Stops(text) /\ \A y \in Stops(text) : Min(Stops(text)) <= y
      BY <3>1, LeastElement
    <3>4. PICK z \in 3 .. l : z = Min(Stops(text)) /\ text[z] \notin Digits /\ z <= m
      BY <3>1, <3>2, <3>3
    <3>5. z \notin 3 .. m - 1
      BY <2>7, <3>4
    <3>6. z = m
      BY <2>2, <3>4, <3>5
    <3>7. QED
      BY <3>1, <3>4, <3>6
  <2>12. Control(text, ansi)
    BY <2>5, <2>6 DEF Control, Escape
  <2>13. r.len = n
    BY <1>2, <2>4, <2>9, <2>10, <2>12
  <2>14. ASSUME NEW k \in 1 .. n PROVE data[k] = text[k]
    <3>1. CASE data[m] \in Finals
      <4>1. k \in 1 .. m
        BY <2>4, <3>1
      <4>2. k = 1 \/ k = 2 \/ k \in 3 .. m - 1 \/ k = m
        BY <2>2, <4>1
      <4>3. QED
        BY <2>5, <2>6, <2>7, <2>9, <3>1, <4>2
    <3>2. CASE data[m] \notin Finals
      <4>1. k = 1
        BY <2>4, <3>2
      <4>2. QED
        BY <2>5, <2>6, <4>1
    <3>3. QED
      BY <3>1, <3>2
  <2>15. n # 0
    BY <2>2, <2>4
  <2>16. QED
    BY <2>13, <2>14, <2>15 DEF r
<1>6. CASE ~Control(data, ansi)
  <2>1. ~(Escape(data, ansi) /\ d = 1)
    BY <1>1, <1>3
  <2>2. ~MbIncomplete(data) /\ n = MbLength(data)
    BY <1>1, <1>3, <1>6, <2>1
  <2>3. ~(d = 1 /\ data[1] = "u1")
    BY <2>2, OneByte
  <2>5. CASE data[1] = "NUL"
    <3>1. n = 0
      BY <2>2, <2>5, MbLengthCases
    <3>2. text[1] \in Blank
      BY <1>4, <2>5
    <3>3. \A k \in 1 .. n : FALSE
      BY <3>1
    <3>4. QED
      BY <3>1, <3>2, <3>3
  <2>6. CASE data[1] # "NUL"
    <3>1. text[1] = data[1]
      BY <1>4, <2>6
    <3>2. ASSUME d > 1, NEW b \in {"[", "u2"} PROVE data[2] = b <=> text[2] = b
      <4>1. b \notin Blank /\ b # "NUL"
        BY DEF Blank, EndOfLine
      <4>2. QED
        BY <1>4, <3>2, <4>1
    <3>4. ~Control(text, ansi)
      <4>1. SUFFICES ASSUME Escape(text, ansi), l > 1, text[2] = "[" PROVE FALSE
        BY DEF Control
      <4>2. Escape(data, ansi)
        BY <3>1, <4>1 DEF Escape
      <4>3. d > 1
        BY <2>1, <4>2
      <4>4. data[2] = "["
        BY <3>2, <4>1, <4>3
      <4>5. QED
        BY <1>6, <4>2, <4>3, <4>4 DEF Control
    <3>5. ~(Escape(text, ansi) /\ l = 1)
      <4>1. Escape(text, ansi) => Escape(data, ansi)
        BY <3>1 DEF Escape
      <4>2. l = 1 => d = 1
        OBVIOUS
      <4>3. QED
        BY <2>1, <4>1, <4>2
    <3>6. ~MbIncomplete(text)
      <4>1. l = 1 => d = 1
        OBVIOUS
      <4>2. QED
        BY <2>3, <3>1, <4>1, OneByte
    <3>7. r.len = MbLength(text)
      BY <1>2, <3>4, <3>5, <3>6
    <3>8. MbLength(text) = MbLength(data) /\ MbLength(data) \in {1, 2}
          /\ (MbLength(data) = 2 => d > 1 /\ data[2] = "u2")
      <4>0. /\ MbLength(data) = IF data[1] = "u1" /\ d > 1 /\ data[2] = "u2" THEN 2 ELSE 1
            /\ MbLength(text) = IF text[1] = "u1" /\ l > 1 /\ text[2] = "u2" THEN 2 ELSE 1
        BY <2>6, <3>1, MbLengthCases
      <4>1. CASE data[1] = "u1"
        <5>1. d > 1 /\ l > 1
          BY <2>3, <4>1
        <5>3. data[2] = "u2" <=> text[2] = "u2"
          BY <3>2, <5>1
        <5>4. QED
          BY <3>1, <4>0, <4>1, <5>1, <5>3
      <4>2. CASE data[1] # "u1"
        BY <3>1, <4>0, <4>2
      <4>3. QED
        BY <4>1, <4>2
    <3>9. ASSUME NEW k \in 1 .. n PROVE data[k] = text[k]
      <4>1. k = 1 \/ (k = 2 /\ d > 1 /\ data[2] = "u2")
        BY <2>2, <3>8
      <4>2. QED
        BY <3>1, <3>2, <4>1
    <3>10. n # 0
      BY <2>2, <3>8
    <3>11. QED
      BY <2>2, <3>7, <3>8, <3>9, <3>10 DEF r
  <2>7. QED
    BY <2>5, <2>6
<1>7. QED
  BY <1>5, <1>6

\* The sequence found in the buffer is the one the payload begins with; an
\* empty one stands for white space or a line end.
LEMMA CharMatches ==
    ASSUME NEW data \in Seq(Bytes), NEW sent \in Seq(Bytes), NEW t \in Nat,
           Shows(data, sent, t), t + Len(data) <= Len(sent), NEW ansi \in BOOLEAN,
           NEW text \in Seq(Bytes), text = SubSeq(sent, t + 1, Len(sent)),
           NEW n \in Nat, SequenceOf(data, ansi, n)
    PROVE  StartsSame(data, text, ansi, n)
<1>0. PICK d, m \in Nat : d = Len(data) /\ m = Len(sent)
  OBVIOUS
<1>1. t \in 0 .. m /\ t + d <= m
  BY <1>0
<1>2. /\ Len(text) = m - t
      /\ \A k \in 1 .. m - t : text[k] = sent[t + k]
  BY <1>0, <1>1, RestOf
<1>3. PICK l \in Nat : l = m - t /\ d <= l
  BY <1>1
<1>4. Agree(data, text)
  <2>1. ASSUME NEW k \in 1 .. d
        PROVE  /\ data[k] # "NUL" => text[k] = data[k]
               /\ data[k] = "NUL" => text[k] \in Blank
    <3>1. k \in 1 .. m - t /\ k \in 1 .. Len(data)
      BY <1>0, <1>3
    <3>2. text[k] = sent[t + k]
      BY <1>2, <3>1
    <3>3. /\ data[k] # "NUL" => sent[t + k] = data[k]
          /\ data[k] \in EndOfLine => sent[t + k] \in Blank
      BY <3>1, ShowsByte
    <3>4. QED
      BY <3>2, <3>3 DEF EndOfLine
  <2>2. QED
    BY <1>0, <1>2, <1>3, <2>1 DEF Agree
<1>5. QED
  BY <1>4, SameSequence

-----------------------------------------------------------------------------
(* Messages are the payload, cut in order.                                 *)

\* What has been read of the stream of a session, and the payload of it.
First(x, c) == SubSeq(x.stream, 1, c)
Passed(x, c) == IF x.telnet THEN Payload("DATA", First(x, c)) ELSE First(x, c)

\* s and u are what follows the first c bytes.
Remains(x, c, s, u) ==
    /\ c + Len(s) + Len(u) = Len(x.stream)
    /\ \A k \in 1 .. Len(s) : s[k] = x.stream[c + k]
    /\ \A k \in 1 .. Len(u) : u[k] = x.stream[c + Len(s) + k]

\* c bytes went through the parser, which left it in state ts and passed n on.
ReadTo(x, c, s, u, ts, n) ==
    /\ Remains(x, c, s, u)
    /\ x.telnet => Parsed("DATA", First(x, c)).state = ts
    /\ Len(Passed(x, c)) = n

Aligned(x, s, u, ts, n) ==
    \E c \in 0 .. Len(x.stream) : ReadTo(x, c, s, u, ts, n)

\* The messages of a log end within the first t bytes of the payload, and hold
\* all of them but white space and line ends.
Delivered(l, sent, t) ==
    /\ \A i \in 1 .. Len(l) : IsMessage(l[i]) => EndOf(l[i]) <= t
    /\ \A k \in 1 .. t : sent[k] \in Blank \/ \E i \in 1 .. Len(l) : Holds(l[i], k)

\* MessagesFramed, of a log l.
FramedLog(l, sent, ansi) ==
    \A j \in 1 .. Len(l) : IsMessage(l[j]) =>
        /\ Framed(l[j], SubSeq(sent, l[j].at + 1, Len(sent)), ansi)
        /\ \A i \in 1 .. j - 1 : IsMessage(l[i]) => EndOf(l[i]) <= l[j].at
        /\ \A k \in 1 .. l[j].at :
              sent[k] \in Blank \/ \E i \in 1 .. j - 1 : Holds(l[i], k)

\* Where the loop may have bytes that are not in the buffer.
Reading == {"refill", "lines", "char", "closed"}

\* The bytes read, the state of the parser and the buffer are at one place of
\* the stream, and the messages are the payload up to the buffer.
Framing ==
    refused \/
    /\ ~paused
    /\ loop \in Reading \/ src = <<>>
    /\ Aligned(session, src, unread, tstate, taken + Len(buf.data))
    /\ Shows(buf.data, SentPayload, taken)
    /\ Delivered(log, SentPayload, taken)
    /\ FramedLog(log, SentPayload, session.ansi)

\* The payload of a session and of what has been read of it.
LEMMA PassedType ==
    ASSUME NEW x, x.stream \in Seq(Bytes), x.telnet \in BOOLEAN, NEW N \in Nat, N = Len(x.stream),
           NEW c \in 0 .. N
    PROVE  /\ Passed(x, c) \in Seq(Bytes) /\ Passed(x, N) \in Seq(Bytes)
           /\ Begins(Passed(x, c), Passed(x, N))
<1>1. PICK b \in Seq(Bytes) : b = x.stream
  OBVIOUS
<1>2. c \in Nat /\ N \in 0 .. N /\ N = Len(b)
  BY <1>1
<1>3. CASE x.telnet
  <2>1. "DATA" \in TelnetStates
    BY DEF TelnetStates
  <2>2. PICK P \in [0 .. N -> Unending] : PayloadRun(P, "DATA", b, N)
    BY <1>2, <2>1, ParsedRun
  <2>3. Parsed("DATA", SubSeq(b, 1, c)) = P[c] /\ Parsed("DATA", SubSeq(b, 1, N)) = P[N]
    BY <1>2, <2>1, <2>2, ParsedPrefix
  <2>4. Passed(x, c) = P[c].dest /\ Passed(x, N) = P[N].dest
    BY <1>1, <1>3, <2>3 DEF Passed, First, Payload
  <2>5. P[c].dest \in Seq(Bytes) /\ P[N].dest \in Seq(Bytes)
    BY <1>2, <2>2 DEF Unending, Parsers
  <2>6. Begins(P[c].dest, P[N].dest)
    BY <1>2, <2>1, <2>2, PayloadGrows
  <2>7. QED
    BY <2>4, <2>5, <2>6
<1>4. CASE ~x.telnet
  <2>1. Passed(x, c) = SubSeq(b, 1, c) /\ Passed(x, N) = SubSeq(b, 1, N)
    BY <1>1, <1>4 DEF Passed, First
  <2>2. SubSeq(b, 1, c) \in Seq(Bytes) /\ SubSeq(b, 1, N) \in Seq(Bytes)
    BY <1>2
  <2>3. /\ Len(SubSeq(b, 1, c)) = c /\ Len(SubSeq(b, 1, N)) = N
        /\ \A k \in 1 .. c : SubSeq(b, 1, c)[k] = b[k] /\ SubSeq(b, 1, N)[k] = b[k]
    BY <1>2
  <2>4. Begins(SubSeq(b, 1, c), SubSeq(b, 1, N))
    BY <1>2, <2>3 DEF Begins
  <2>5. QED
    BY <2>1, <2>2, <2>4
<1>5. QED
  BY <1>3, <1>4

\* The payload of the whole stream.
LEMMA SentType ==
    ASSUME session \in Sessions
    PROVE  /\ SentPayload \in Seq(Bytes)
           /\ \A c \in 0 .. Len(session.stream) :
                 Passed(session, c) \in Seq(Bytes) /\ Begins(Passed(session, c), SentPayload)
<1>1. session.stream \in Seq(Bytes) /\ session.telnet \in BOOLEAN
  BY SessionType
<1>2. PICK N \in Nat : N = Len(session.stream)
  BY <1>1
<1>3. SubSeq(session.stream, 1, N) = session.stream
  BY <1>1, <1>2
<1>4. Passed(session, N) = SentPayload
  BY <1>3 DEF Passed, First, SentPayload
<1>5. N \in 0 .. N
  BY <1>2
<1>6. \A c \in 0 .. N : /\ Passed(session, c) \in Seq(Bytes) /\ Passed(session, N) \in Seq(Bytes)
                        /\ Begins(Passed(session, c), Passed(session, N))
  BY <1>1, <1>2, PassedType
<1>7. QED
  BY <1>2, <1>4, <1>5, <1>6

\* The call p on the chunk takes the reading of the stream on from c.
PassesOn(x, c, chunk, p) ==
    /\ p.used \in 0 .. Len(chunk) /\ p.dest \in Seq(Bytes)
    /\ x.telnet => Parsed("DATA", First(x, c + p.used)).state = p.state
    /\ Passed(x, c + p.used) = Passed(x, c) \o p.dest

\* A chunk of what remains goes through the telnet parser.
LEMMA TelnetChunk ==
    ASSUME NEW x, x.stream \in Seq(Bytes), x.telnet, NEW N \in Nat, N = Len(x.stream),
           NEW c \in 0 .. N, NEW ts, ts = Parsed("DATA", First(x, c)).state,
           NEW chunk \in Seq(Bytes), Follows(chunk, x.stream, c)
    PROVE  PassesOn(x, c, chunk, ProcessInbound(ts, chunk))
<1>1. PICK b \in Seq(Bytes) : b = x.stream /\ N = Len(b)
  OBVIOUS
<1>2. PICK m \in Nat : m = Len(chunk)
  OBVIOUS
<1>3. "DATA" \in TelnetStates
  BY DEF TelnetStates
<1>4. PICK P \in [0 .. N -> Unending] : PayloadRun(P, "DATA", b, N)
  BY <1>1, <1>3, ParsedRun
<1>5. \A d \in 0 .. N : Parsed("DATA", SubSeq(b, 1, d)) = P[d]
  BY <1>1, <1>3, <1>4, ParsedPrefix
<1>6. \A d \in 0 .. N : Parsed("DATA", First(x, d)) = P[d] /\ Passed(x, d) = P[d].dest
  BY <1>1, <1>5 DEF Passed, First, Payload
<1>7. PICK p : p = ProcessInbound(P[c].state, chunk)
  OBVIOUS
<1>8. /\ p.used \in 0 .. m
      /\ P[c + p.used].state = p.state
      /\ P[c + p.used].dest = P[c].dest \o p.dest
  <2>1. Follows(chunk, b, c)
    BY <1>1
  <2>2. N = Len(b)
    BY <1>1
  <2>3. TakesTo(P, c, chunk, ProcessInbound(P[c].state, chunk))
    BY <1>3, <1>4, <2>1, <2>2, ChunkParsed
  <2>4. QED
    BY <1>2, <1>7, <2>3, Zenon DEF TakesTo
<1>9. c + p.used \in 0 .. N
  <2>1. c + m <= N
    BY <1>1, <1>2 DEF Follows
  <2>2. QED
    BY <1>8, <2>1
<1>10. P[c].state = ts
  BY <1>6
<1>11. p.dest \in Seq(Bytes)
  <2>1. P[c].state \in TelnetStates
    BY <1>4 DEF Unending, Parsers
  <2>2. p \in Parsers
    BY <1>7, <2>1, ParserBounded
  <2>3. QED
    BY <2>2 DEF Parsers
<1>12. PassesOn(x, c, chunk, p)
  BY <1>2, <1>6, <1>8, <1>9, <1>11 DEF PassesOn
<1>13. QED
  BY <1>7, <1>10, <1>12

\* A chunk that is copied.
LEMMA CopiedChunk ==
    ASSUME NEW x, x.stream \in Seq(Bytes), ~x.telnet, NEW N \in Nat, N = Len(x.stream),
           NEW c \in 0 .. N, NEW chunk \in Seq(Bytes), Follows(chunk, x.stream, c)
    PROVE  Passed(x, c + Len(chunk)) = Passed(x, c) \o chunk
<1>m. PICK m \in Nat : m = Len(chunk)
  OBVIOUS
<1>f. c + m <= N /\ \A k \in 1 .. m : chunk[k] = x.stream[c + k]
  BY <1>m DEF Follows
<1> USE <1>m, <1>f
<1>1. PICK b \in Seq(Bytes) : b = x.stream /\ N = Len(b)
  OBVIOUS
<1>2. PICK e \in 0 .. N : e = c + m
  OBVIOUS
<1>3. Passed(x, c) = SubSeq(b, 1, c) /\ Passed(x, e) = SubSeq(b, 1, e)
  BY <1>1 DEF Passed, First
<1>4. PICK s \in Seq(Bytes) : s = SubSeq(b, 1, c)
  <2>1. SubSeq(b, 1, c) \in Seq(Bytes)
    BY <1>1
  <2>2. QED
    BY <2>1, Zenon
<1>5. PICK r \in Seq(Bytes) : r = SubSeq(b, 1, e)
  <2>1. SubSeq(b, 1, e) \in Seq(Bytes)
    BY <1>1
  <2>2. QED
    BY <2>1, Zenon
<1>6. /\ Len(s) = c /\ Len(r) = e /\ (\A k \in 1 .. c : s[k] = b[k])
      /\ \A k \in 1 .. e : r[k] = b[k]
  BY <1>1, <1>4, <1>5
<1>7. /\ s \o chunk \in Seq(Bytes) /\ Len(s \o chunk) = Len(s) + Len(chunk)
      /\ \A k \in 1 .. Len(s) + Len(chunk) :
            (s \o chunk)[k] = IF k <= Len(s) THEN s[k] ELSE chunk[k - Len(s)]
  BY ConcatProperties
<1>8. PICK u \in Seq(Bytes) : u = s \o chunk
  BY <1>7
<1>9. Len(u) = e /\ \A k \in 1 .. e : u[k] = IF k <= c THEN s[k] ELSE chunk[k - c]
  BY <1>2, <1>6, <1>7, <1>8
<1>10. ASSUME NEW k \in 1 .. e PROVE u[k] = r[k]
  <2>1. CASE k <= c
    BY <1>6, <1>9, <2>1
  <2>2. CASE ~(k <= c)
    <3>1. PICK j \in 1 .. m : j = k - c /\ c + j = k
      BY <1>2, <2>2
    <3>2. u[k] = chunk[j] /\ chunk[j] = b[c + j]
      BY <1>1, <1>9, <2>2, <3>1
    <3>3. QED
      BY <1>6, <3>1, <3>2
  <2>3. QED
    BY <2>1, <2>2
<1>11. u = r
  BY <1>6, <1>9, <1>10, SeqEqual
<1>12. QED
  BY <1>2, <1>3, <1>4, <1>5, <1>8, <1>11

\* A log with one entry more.
LEMMA EntryAdded ==
    ASSUME NEW l \in Seq(Entries), NEW m \in Entries
    PROVE  /\ Append(l, m) \in Seq(Entries) /\ Len(Append(l, m)) = Len(l) + 1
           /\ Append(l, m)[Len(l) + 1] = m
           /\ \A i \in 1 .. Len(l) : Append(l, m)[i] = l[i]
BY AppendProperties

\* The messages before the new entry are what they were.
LEMMA FramedBefore ==
    ASSUME NEW l \in Seq(Entries), NEW m \in Entries, NEW sent, NEW ansi, NEW n \in Nat, n = Len(l),
           FramedLog(l, sent, ansi), NEW q, q = Append(l, m), NEW j \in 1 .. n, IsMessage(q[j])
    PROVE  /\ Framed(q[j], SubSeq(sent, q[j].at + 1, Len(sent)), ansi)
           /\ \A i \in 1 .. j - 1 : IsMessage(q[i]) => EndOf(q[i]) <= q[j].at
           /\ \A k \in 1 .. q[j].at : sent[k] \in Blank \/ \E i \in 1 .. j - 1 : Holds(q[i], k)
<1>1. \A i \in 1 .. n : q[i] = l[i]
  BY EntryAdded
<1>2. \A i \in 1 .. j - 1 : i \in 1 .. n
  OBVIOUS
<1>3. q[j] = l[j] /\ \A i \in 1 .. j - 1 : q[i] = l[i]
  BY <1>1, <1>2
<1>4. /\ Framed(l[j], SubSeq(sent, l[j].at + 1, Len(sent)), ansi)
      /\ \A i \in 1 .. j - 1 : IsMessage(l[i]) => EndOf(l[i]) <= l[j].at
      /\ \A k \in 1 .. l[j].at : sent[k] \in Blank \/ \E i \in 1 .. j - 1 : Holds(l[i], k)
  BY <1>3, Zenon DEF FramedLog
<1>5. QED
  BY <1>3, <1>4, Zenon

\* An entry that is no message.
LEMMA OtherEntry ==
    ASSUME NEW l \in Seq(Entries), NEW m \in Entries, ~IsMessage(m), NEW sent, NEW ansi,
           NEW t \in Nat, Delivered(l, sent, t), FramedLog(l, sent, ansi)
    PROVE  Delivered(Append(l, m), sent, t) /\ FramedLog(Append(l, m), sent, ansi)
<1>1. PICK n \in Nat : n = Len(l)
  OBVIOUS
<1>2. PICK q : q = Append(l, m)
  OBVIOUS
<1>3. Len(q) = n + 1 /\ q[n + 1] = m /\ \A i \in 1 .. n : q[i] = l[i]
  BY <1>1, <1>2, EntryAdded
<1>4. \A j \in 1 .. n + 1 : j \in 1 .. n \/ j = n + 1
  BY <1>1
<1>5. \A j \in 1 .. n : j \in 1 .. n + 1
  BY <1>1
<1>6. Delivered(q, sent, t)
  <2>1. ASSUME NEW i \in 1 .. n + 1, IsMessage(q[i]) PROVE EndOf(q[i]) <= t
    <3>1. i \in 1 .. n
      BY <1>3, <1>4, <2>1
    <3>2. q[i] = l[i]
      BY <1>3, <3>1
    <3>3. QED
      BY <1>1, <2>1, <3>1, <3>2, Zenon DEF Delivered
  <2>2. ASSUME NEW k \in 1 .. t
        PROVE  sent[k] \in Blank \/ \E i \in 1 .. n + 1 : Holds(q[i], k)
    <3>1. sent[k] \in Blank \/ \E i \in 1 .. n : Holds(l[i], k)
      BY <1>1, Zenon DEF Delivered
    <3>2. QED
      BY <1>3, <1>5, <3>1, Zenon
  <2>3. QED
    BY <1>3, <2>1, <2>2, Zenon DEF Delivered
<1>7. FramedLog(q, sent, ansi)
  <2>1. ASSUME NEW j \in 1 .. n + 1, IsMessage(q[j])
        PROVE  /\ Framed(q[j], SubSeq(sent, q[j].at + 1, Len(sent)), ansi)
               /\ \A i \in 1 .. j - 1 : IsMessage(q[i]) => EndOf(q[i]) <= q[j].at
               /\ \A k \in 1 .. q[j].at : sent[k] \in Blank \/ \E i \in 1 .. j - 1 : Holds(q[i], k)
    <3>1. j \in 1 .. n
      BY <1>3, <1>4, <2>1
    <3>2. QED
      BY <1>1, <1>2, <2>1, <3>1, FramedBefore
  <2>2. QED
    BY <1>3, <2>1, Zenon DEF FramedLog
<1>8. QED
  BY <1>2, <1>6, <1>7

\* Bytes left out of the messages.
LEMMA BytesSkipped ==
    ASSUME NEW l, NEW sent, NEW t \in Nat, NEW u \in Nat, t <= u, Len(l) \in Nat,
           \A i \in 1 .. Len(l) : EndOf(l[i]) \in Nat,
           Delivered(l, sent, t), \A k \in t + 1 .. u : sent[k] \in Blank
    PROVE  Delivered(l, sent, u)
<1>1. PICK n \in Nat : n = Len(l)
  OBVIOUS
<1>2. ASSUME NEW i \in 1 .. n, IsMessage(l[i]) PROVE EndOf(l[i]) <= u
  <2>1. EndOf(l[i]) <= t /\ EndOf(l[i]) \in Nat
    BY <1>1, <1>2 DEF Delivered
  <2>2. QED
    BY <2>1
<1>3. ASSUME NEW k \in 1 .. u PROVE sent[k] \in Blank \/ \E i \in 1 .. n : Holds(l[i], k)
  <2>1. k \in 1 .. t \/ k \in t + 1 .. u
    OBVIOUS
  <2>2. QED
    BY <1>1, <2>1, Zenon DEF Delivered
<1>4. QED
  BY <1>1, <1>2, <1>3, Zenon DEF Delivered

\* A message that begins where payload is still to be delivered, with only
\* white space and line ends before and behind it.
LEMMA MessageEntry ==
    ASSUME NEW l \in Seq(Entries), NEW m \in Entries, IsMessage(m), NEW sent, NEW ansi,
           NEW t \in Nat, Delivered(l, sent, t), FramedLog(l, sent, ansi),
           t <= m.at, \A k \in t + 1 .. m.at : sent[k] \in Blank,
           Framed(m, SubSeq(sent, m.at + 1, Len(sent)), ansi),
           NEW u \in Nat, EndOf(m) <= u, \A k \in EndOf(m) + 1 .. u : sent[k] \in Blank
    PROVE  Delivered(Append(l, m), sent, u) /\ FramedLog(Append(l, m), sent, ansi)
<1>1. PICK n \in Nat : n = Len(l)
  OBVIOUS
<1>2. PICK q : q = Append(l, m)
  OBVIOUS
<1>3. Len(q) = n + 1 /\ q[n + 1] = m /\ \A i \in 1 .. n : q[i] = l[i]
  BY <1>1, <1>2, EntryAdded
<1>4. /\ \A j \in 1 .. n + 1 : j \in 1 .. n \/ j = n + 1
      /\ \A j \in 1 .. n : j \in 1 .. n + 1
      /\ n + 1 \in 1 .. n + 1
  BY <1>1
<1>5. PICK a, e \in Nat : a = m.at /\ e = EndOf(m) /\ a <= e
  <2>1. m.at \in Nat /\ Len(m.body) \in Nat
    BY DEF Entries
  <2>2. m.at + Len(m.body) \in Nat /\ m.at <= m.at + Len(m.body)
    BY <2>1
  <2>3. QED
    BY <2>1, <2>2 DEF EndOf
<1>6. \A i \in 1 .. n : EndOf(l[i]) \in Nat
  <2>1. ASSUME NEW i \in 1 .. n PROVE EndOf(l[i]) \in Nat
    <3>1. l[i] \in Entries
      BY <1>1
    <3>2. l[i].at \in Nat /\ Len(l[i].body) \in Nat
      BY <3>1 DEF Entries
    <3>3. QED
      BY <3>2 DEF EndOf
  <2>2. QED
    BY <2>1
<1>7. Delivered(l, sent, a)
  <2>1. t <= a /\ \A k \in t + 1 .. a : sent[k] \in Blank
    BY <1>5
  <2>2. QED
    BY <1>1, <1>6, <2>1, BytesSkipped
<1>8. /\ \A i \in 1 .. n : IsMessage(l[i]) => EndOf(l[i]) <= a
      /\ \A k \in 1 .. a : sent[k] \in Blank \/ \E i \in 1 .. n : Holds(l[i], k)
  BY <1>1, <1>7, Zenon DEF Delivered
<1>9. Delivered(q, sent, u)
  <2>1. ASSUME NEW i \in 1 .. n + 1, IsMessage(q[i]) PROVE EndOf(q[i]) <= u
    <3>1. CASE i = n + 1
      BY <1>3, <3>1
    <3>2. CASE i # n + 1
      <4>1. i \in 1 .. n /\ q[i] = l[i]
        BY <1>3, <1>4, <3>2
      <4>2. EndOf(l[i]) <= a /\ EndOf(l[i]) \in Nat /\ a <= u
        BY <1>5, <1>6, <1>8, <2>1, <4>1
      <4>3. QED
        BY <4>1, <4>2
    <3>3. QED
      BY <3>1, <3>2
  <2>2. ASSUME NEW k \in 1 .. u
        PROVE  sent[k] \in Blank \/ \E i \in 1 .. n + 1 : Holds(q[i], k)
    <3>1. k \in 1 .. a \/ k \in a + 1 .. e \/ k \in e + 1 .. u
      BY <1>5
    <3>2. CASE k \in 1 .. a
      BY <1>3, <1>4, <1>8, <3>2, Zenon
    <3>3. CASE k \in a + 1 .. e
      <4>1. Holds(m, k)
        BY <1>5, <3>3 DEF Holds
      <4>2. QED
        BY <1>3, <1>4, <4>1, Zenon
    <3>4. CASE k \in e + 1 .. u
      BY <1>5, <3>4
    <3>5. QED
      BY <3>1, <3>2, <3>3, <3>4
  <2>3. QED
    BY <1>3, <2>1, <2>2, Zenon DEF Delivered
<1>10. FramedLog(q, sent, ansi)
  <2>1. ASSUME NEW j \in 1 .. n + 1, IsMessage(q[j])
        PROVE  /\ Framed(q[j], SubSeq(sent, q[j].at + 1, Len(sent)), ansi)
               /\ \A i \in 1 .. j - 1 : IsMessage(q[i]) => EndOf(q[i]) <= q[j].at
               /\ \A k \in 1 .. q[j].at : sent[k] \in Blank \/ \E i \in 1 .. j - 1 : Holds(q[i], k)
    <3>1. CASE j \in 1 .. n
      BY <1>1, <1>2, <2>1, <3>1, FramedBefore
    <3>2. CASE j = n + 1
      <4>1. q[j] = m /\ j - 1 = n
        BY <1>3, <3>2
      <4>2. Framed(q[j], SubSeq(sent, q[j].at + 1, Len(sent)), ansi)
        BY <4>1, Zenon
      <4>3. \A i \in 1 .. j - 1 : IsMessage(q[i]) => EndOf(q[i]) <= q[j].at
        BY <1>3, <1>5, <1>8, <4>1
      <4>4. \A k \in 1 .. q[j].at : sent[k] \in Blank \/ \E i \in 1 .. j - 1 : Holds(q[i], k)
        <5>1. \A k \in 1 .. a : sent[k] \in Blank \/ \E i \in 1 .. n : Holds(q[i], k)
          BY <1>3, <1>8, Zenon
        <5>2. QED
          BY <1>5, <4>1, <5>1
      <4>5. QED
        BY <4>2, <4>3, <4>4
    <3>3. QED
      BY <1>4, <3>1, <3>2
  <2>2. QED
    BY <1>3, <2>1, Zenon DEF FramedLog
<1>11. QED
  BY <1>2, <1>9, <1>10

\* Framing in the next state.
LEMMA FramingNext ==
    ASSUME session' = session,
           \/ refused'
           \/ /\ ~paused' /\ (loop' \in Reading \/ src' = <<>>)
              /\ Aligned(session, src', unread', tstate', taken' + Len(buf'.data))
              /\ Shows(buf'.data, SentPayload, taken')
              /\ Delivered(log', SentPayload, taken')
              /\ FramedLog(log', SentPayload, session.ansi)
    PROVE  Framing'
<1>1. SentPayload' = SentPayload
  BY DEF SentPayload
<1>2. QED
  BY <1>1 DEF Framing

\* Nothing is read and nothing delivered.
LEMMA FramingInit == Init => Framing
<1> SUFFICES ASSUME Init PROVE Framing
  OBVIOUS
<1>1. /\ session \in Sessions /\ unread = session.stream /\ src = <<>> /\ paused = FALSE
      /\ buf = [start |-> 0, data |-> <<>>] /\ tstate = "DATA" /\ taken = 0 /\ log = <<>>
  BY DEF Init
<1>2. session.stream \in Seq(Bytes) /\ session.telnet \in BOOLEAN
  BY <1>1, SessionType
<1>3. PICK N \in Nat : N = Len(session.stream)
  BY <1>2
<1>4. PICK b \in Seq(Bytes) : b = session.stream
  BY <1>2
<1>5. SubSeq(b, 1, 0) = <<>>
  BY <1>4
<1>6. First(session, 0) = <<>>
  BY <1>4, <1>5 DEF First
<1>7. "DATA" \in TelnetStates
  BY DEF TelnetStates
<1>8. PICK P \in [0 .. N -> Unending] : PayloadRun(P, "DATA", b, N)
  BY <1>3, <1>4, <1>7, ParsedRun
<1>9. 0 \in 0 .. N
  BY <1>3
<1>10. Parsed("DATA", SubSeq(b, 1, 0)) = P[0]
  BY <1>3, <1>4, <1>7, <1>8, <1>9, ParsedPrefix
<1>11. Parsed("DATA", First(session, 0)) = TelnetStart("DATA")
  BY <1>5, <1>6, <1>8, <1>10 DEF PayloadRun
<1>12. TelnetStart("DATA").state = "DATA" /\ TelnetStart("DATA").dest = <<>>
  BY <1>7, StartType
<1>13. Passed(session, 0) = <<>>
  BY <1>2, <1>6, <1>11, <1>12 DEF Passed, Payload
<1>14. Remains(session, 0, src, unread)
  <2>1. Len(src) = 0 /\ Len(unread) = N /\ unread = b
    BY <1>1, <1>3, <1>4
  <2>2. 0 + 0 + N = N /\ \A k \in 1 .. N : 0 + 0 + k = k
    BY <1>3
  <2>3. QED
    BY <1>3, <1>4, <2>1, <2>2 DEF Remains
<1>15. ReadTo(session, 0, src, unread, tstate, 0)
  <2>1. Len(<<>>) = 0
    OBVIOUS
  <2>2. QED
    BY <1>1, <1>11, <1>12, <1>13, <1>14, <2>1 DEF ReadTo
<1>16. taken + Len(buf.data) = 0 /\ Len(buf.data) = 0 /\ Len(log) = 0
  BY <1>1
<1>17. Aligned(session, src, unread, tstate, taken + Len(buf.data))
  BY <1>3, <1>9, <1>15, <1>16 DEF Aligned
<1>18. Shows(buf.data, SentPayload, taken)
  BY <1>16 DEF Shows
<1>19. Delivered(log, SentPayload, taken) /\ FramedLog(log, SentPayload, session.ansi)
  BY <1>1, <1>16 DEF Delivered, FramedLog
<1>20. QED
  BY <1>1, <1>17, <1>18, <1>19 DEF Framing

\* A step that neither reads nor delivers.
LEMMA FramingKept ==
    ASSUME InboundInvariant, Framing,
           UNCHANGED <<session, src, unread, buf, tstate, taken, refused, paused>>,
           loop' \in Reading \/ src = <<>> \/ loop \notin Reading,
           log' = log \/ \E m \in Entries : ~IsMessage(m) /\ log' = Append(log, m)
    PROVE  Framing'
<1>1. CASE refused
  BY <1>1, FramingNext
<1>2. CASE ~refused
  <2>1. /\ ~paused /\ (loop \in Reading \/ src = <<>>)
        /\ Aligned(session, src, unread, tstate, taken + Len(buf.data))
        /\ Shows(buf.data, SentPayload, taken)
        /\ Delivered(log, SentPayload, taken)
        /\ FramedLog(log, SentPayload, session.ansi)
    BY <1>2 DEF Framing
  <2>2. PICK sent : sent = SentPayload
    OBVIOUS
  <2>3. Delivered(log', sent, taken) /\ FramedLog(log', sent, session.ansi)
    <3>1. CASE log' = log
      BY <2>1, <2>2, <3>1
    <3>2. CASE \E m \in Entries : ~IsMessage(m) /\ log' = Append(log, m)
      <4>1. PICK m \in Entries : ~IsMessage(m) /\ log' = Append(log, m)
        BY <3>2
      <4>2. log \in Seq(Entries) /\ taken \in Nat /\ session \in Sessions
        BY DEF InboundInvariant, InboundType
      <4>3. PICK l \in Seq(Entries), t \in Nat, ansi \in BOOLEAN :
               l = log /\ t = taken /\ ansi = session.ansi
        BY <4>2, SessionType
      <4>4. Delivered(Append(l, m), sent, t) /\ FramedLog(Append(l, m), sent, ansi)
        BY <2>1, <2>2, <4>1, <4>3, OtherEntry
      <4>5. QED
        BY <4>1, <4>3, <4>4
    <3>3. QED
      BY <3>1, <3>2
  <2>4. loop' \in Reading \/ src' = <<>>
    BY <2>1
  <2>5. QED
    BY <2>1, <2>2, <2>3, <2>4, FramingNext
<1>3. QED
  BY <1>1, <1>2

\* Prompts and output are no messages.
LEMMA NoMessage ==
    ASSUME NEW kind \in {"prompt", "output"}
    PROVE  Message(kind, 0, <<>>) \in Entries /\ ~IsMessage(Message(kind, 0, <<>>))
BY DEF Message, Entries, IsMessage

\* comm_process_input begins or returns, the loop goes on, hooks come and go.
LEMMA FramingQuiet ==
    ASSUME InboundInvariant, Framing,
           \/ NoRead \/ ProcessKeptBack \/ ProcessBegins \/ FrameNothing \/ ResumeScan
           \/ ResumeStore \/ NothingDeferred \/ NoPrompt \/ PromptChecked \/ Prompt
           \/ HookChoosesMode \/ OutboundWrites \/ HookCompletes \/ HookLeaves \/ Send
           \/ OtherDefers
    PROVE  Framing'
<1>1. ASSUME UNCHANGED <<session, readVars, buf, tstate, taken, refused, log>>,
             loop' = loop \/ loop' \in Reading \/ src = <<>> \/ loop \notin Reading
      PROVE  Framing'
  BY <1>1, FramingKept DEF readVars
<1>2. loop \in Reading => src = <<>> \/ Returned \in Reading
  BY DEF Reading, Returned, InScan
<1>3. CASE NoRead \/ ResumeScan \/ ResumeStore \/ NothingDeferred \/ NoPrompt \/ PromptChecked
  <2>1. /\ UNCHANGED <<session, readVars, buf, tstate, taken, refused, log>>
        /\ loop \in {"wait", "resume", "store", "prompt"}
    BY <1>3 DEF NoRead, ResumeScan, ResumeStore, NothingDeferred, NoPrompt, PromptChecked, histVars
  <2>2. QED
    BY <1>1, <2>1 DEF Reading
<1>4. CASE ProcessKeptBack \/ FrameNothing
  <2>1. UNCHANGED <<session, readVars, buf, tstate, taken, refused, log>> /\ loop' = Returned
    BY <1>4 DEF ProcessKeptBack, FrameNothing, histVars
  <2>2. QED
    BY <1>1, <1>2, <2>1
<1>5. CASE ProcessBegins
  <2>1. /\ UNCHANGED <<session, readVars, buf, tstate, taken, refused, log>>
        /\ loop = "reprocess" \/ (loop = "refill" /\ loop' \in {"lines", "char"})
    BY <1>5 DEF ProcessBegins, histVars, RefillDone, InScan
  <2>2. QED
    BY <1>1, <2>1 DEF Reading
<1>6. CASE HookChoosesMode \/ HookCompletes \/ HookLeaves \/ OtherDefers
  <2>1. UNCHANGED <<session, readVars, buf, tstate, taken, refused, log, loop>>
    BY <1>6 DEF HookChoosesMode, HookCompletes, HookLeaves, OtherDefers, histVars
  <2>2. QED
    BY <1>1, <2>1
<1>7. CASE Prompt \/ OutboundWrites \/ Send
  <2>1. UNCHANGED <<session, src, unread, buf, tstate, taken, refused, paused>>
    BY <1>7 DEF Prompt, OutboundWrites, Send, readVars
  <2>2. loop' = loop \/ loop = "prompting"
    BY <1>7 DEF Prompt, OutboundWrites, Send
  <2>3. \/ log' = log
        \/ \E kind \in {"prompt", "output"} : log' = Append(log, Message(kind, 0, <<>>))
    BY <1>7 DEF Prompt, OutboundWrites, Send, OutputLogged
  <2>4. log' = log \/ \E m \in Entries : ~IsMessage(m) /\ log' = Append(log, m)
    BY <2>3, NoMessage
  <2>5. loop' \in Reading \/ src = <<>> \/ loop \notin Reading
    BY <2>2 DEF Reading
  <2>6. QED
    BY <2>1, <2>4, <2>5, FramingKept
<1>8. QED
  BY <1>3, <1>4, <1>5, <1>6, <1>7

\* A read takes the next bytes of the stream.
LEMMA FramingRead ==
    ASSUME InboundInvariant, Framing, ReadEvent
    PROVE  Framing'
<1>1. /\ unread \in Seq(Bytes) /\ BufCap \in Nat /\ session \in Sessions
  BY InboundAssumption DEF InboundInvariant, InboundType
<1>2. PICK u \in Seq(Bytes) : u = unread
  BY <1>1
<1>3. PICK n \in 1 .. Min({BufCap, Len(u)}) :
         src' = SubSeq(u, 1, n) /\ unread' = SubSeq(u, n + 1, Len(u))
  BY <1>2 DEF ReadEvent
<1>4. Min({BufCap, Len(u)}) \in Nat /\ Min({BufCap, Len(u)}) <= Len(u)
  BY <1>1, MinPair
<1>5. n \in 1 .. Len(u)
  BY <1>3, <1>4
<1>6. /\ UNCHANGED <<session, buf, tstate, taken, log, refused>>
      /\ loop' = "refill" /\ paused' = FALSE /\ loop = "wait"
  BY DEF ReadEvent, histVars
<1>7. CASE refused
  BY <1>6, <1>7, FramingNext
<1>8. CASE ~refused
  <2>1. /\ src = <<>>
        /\ Aligned(session, src, unread, tstate, taken + Len(buf.data))
        /\ Shows(buf.data, SentPayload, taken)
        /\ Delivered(log, SentPayload, taken)
        /\ FramedLog(log, SentPayload, session.ansi)
    BY <1>6, <1>8 DEF Framing, Reading
  <2>2. PICK c \in 0 .. Len(session.stream) :
           ReadTo(session, c, src, unread, tstate, taken + Len(buf.data))
    BY <2>1 DEF Aligned
  <2>3. PICK N \in Nat : N = Len(session.stream)
    BY <1>1, SessionType
  <2>4. PICK v \in Nat : v = Len(u)
    OBVIOUS
  <2>5. c \in Nat /\ c + v = N /\ \A k \in 1 .. v : u[k] = session.stream[c + k]
    <3>1. Len(src) = 0
      BY <2>1
    <3>2. c + 0 + v = N /\ \A k \in 1 .. v : u[k] = session.stream[c + 0 + k]
      BY <1>2, <2>2, <2>3, <2>4, <3>1 DEF ReadTo, Remains
    <3>3. QED
      BY <2>2, <2>3, <3>2
  <2>6. PICK r \in Seq(Bytes) : /\ r = src' /\ Len(r) = n
                                /\ \A k \in 1 .. n : r[k] = u[k]
    <3>1. /\ SubSeq(u, 1, n) \in Seq(Bytes) /\ Len(SubSeq(u, 1, n)) = n
          /\ \A k \in 1 .. n : SubSeq(u, 1, n)[k] = u[k]
      BY <1>5
    <3>2. QED
      BY <1>3, <3>1, Zenon
  <2>7. PICK w \in Seq(Bytes) : /\ w = unread' /\ Len(w) = v - n
                                /\ \A k \in 1 .. v - n : w[k] = u[n + k]
    <3>1. n \in 0 .. Len(u)
      BY <1>5
    <3>2. /\ SubSeq(u, n + 1, Len(u)) \in Seq(Bytes) /\ Len(SubSeq(u, n + 1, Len(u))) = Len(u) - n
          /\ \A k \in 1 .. Len(u) - n : SubSeq(u, n + 1, Len(u))[k] = u[n + k]
      BY <3>1, RestOf
    <3>3. QED
      BY <1>3, <2>4, <3>2, Zenon
  <2>8. Remains(session, c, r, w)
    <3>1. n \in 1 .. v
      BY <1>5, <2>4
    <3>2. c + n + (v - n) = N
      BY <2>5, <3>1
    <3>3. \A k \in 1 .. n : r[k] = session.stream[c + k]
      BY <2>5, <2>6, <3>1
    <3>4. ASSUME NEW k \in 1 .. v - n PROVE w[k] = session.stream[c + n + k]
      <4>1. PICK j \in 1 .. v : j = n + k /\ c + j = c + n + k
        BY <2>5, <3>1
      <4>2. QED
        BY <2>5, <2>7, <4>1
    <3>5. QED
      BY <2>3, <2>6, <2>7, <3>2, <3>3, <3>4 DEF Remains
  <2>9. ReadTo(session, c, r, w, tstate, taken + Len(buf.data))
    BY <2>2, <2>8 DEF ReadTo
  <2>10. Aligned(session, src', unread', tstate', taken' + Len(buf'.data))
    BY <1>6, <2>6, <2>7, <2>9 DEF Aligned
  <2>11. loop' \in Reading
    BY <1>6 DEF Reading
  <2>12. QED
    BY <1>6, <2>1, <2>10, <2>11, FramingNext
<1>9. QED
  BY <1>7, <1>8

\* Bytes that are copied are passed on as they are.
LEMMA CopiedAll ==
    ASSUME NEW state, NEW bytes
    PROVE  /\ Copied(state, bytes).used = Len(bytes) /\ Copied(state, bytes).dest = bytes
           /\ Copied(state, bytes).state = state
BY DEF Copied, TelnetStart

\* What is passed on of the chunk is the payload behind the buffer.
LEMMA ChunkPassed ==
    ASSUME session \in Sessions, NEW N \in Nat, N = Len(session.stream), NEW c \in 0 .. N, NEW ts,
           session.telnet => Parsed("DATA", First(session, c)).state = ts,
           NEW chunk \in Seq(Bytes), Follows(chunk, session.stream, c),
           NEW p, p = IF session.telnet THEN ProcessInbound(ts, chunk) ELSE Copied(ts, chunk)
    PROVE  PassesOn(session, c, chunk, p)
<1>1. session.stream \in Seq(Bytes) /\ session.telnet \in BOOLEAN
  BY SessionType
<1>4. PICK x : x = session
  OBVIOUS
<1>5. x.stream \in Seq(Bytes) /\ N = Len(x.stream) /\ Follows(chunk, x.stream, c)
  BY <1>1, <1>4
<1>6. CASE session.telnet
  <2>1. x.telnet /\ ts = Parsed("DATA", First(x, c)).state /\ p = ProcessInbound(ts, chunk)
    BY <1>4, <1>6
  <2>2. PassesOn(x, c, chunk, ProcessInbound(ts, chunk))
    BY <1>5, <2>1, TelnetChunk
  <2>3. QED
    BY <1>4, <2>1, <2>2
<1>7. CASE ~session.telnet
  <2>1. ~x.telnet /\ p = Copied(ts, chunk)
    BY <1>4, <1>7
  <2>2. p.used = Len(chunk) /\ p.dest = chunk
    BY <2>1, CopiedAll
  <2>3. Passed(x, c + Len(chunk)) = Passed(x, c) \o chunk
    BY <1>5, <2>1, CopiedChunk
  <2>4. Len(chunk) \in 0 .. Len(chunk)
    OBVIOUS
  <2>5. QED
    BY <1>4, <1>7, <2>2, <2>3, <2>4 DEF PassesOn
<1>8. QED
  BY <1>1, <1>6, <1>7

\* The state after a chunk, for any values of the variables.
LEMMA AlignedChunk ==
    ASSUME session \in Sessions, NEW N \in Nat, N = Len(session.stream), NEW c \in 0 .. N,
           NEW s \in Seq(Bytes), NEW u \in Seq(Bytes), NEW ts, NEW data \in Seq(Bytes), NEW t \in Nat,
           ReadTo(session, c, s, u, ts, t + Len(data)), Shows(data, SentPayload, t),
           NEW n \in 0 .. Len(s), NEW chunk, chunk = SubSeq(s, 1, n),
           NEW p, p = IF session.telnet THEN ProcessInbound(ts, chunk) ELSE Copied(ts, chunk)
    PROVE  /\ Aligned(session, SubSeq(s, p.used + 1, Len(s)), u, p.state, t + Len(data \o p.dest))
           /\ Shows(data \o p.dest, SentPayload, t)
<1>1. session.stream \in Seq(Bytes) /\ session.telnet \in BOOLEAN
  BY SessionType
<1>3. PICK st \in Seq(Bytes) : st = session.stream /\ N = Len(st)
  BY <1>1
<1>4. PICK m \in Nat, v \in Nat, d \in Nat : m = Len(s) /\ v = Len(u) /\ d = Len(data)
  OBVIOUS
<1>5. /\ c + m + v = N
      /\ \A k \in 1 .. m : s[k] = st[c + k]
      /\ \A k \in 1 .. v : u[k] = st[c + m + k]
      /\ session.telnet => Parsed("DATA", First(session, c)).state = ts
      /\ Len(Passed(session, c)) = t + d
  BY <1>3, <1>4 DEF ReadTo, Remains
<1>6. c \in Nat /\ c <= N /\ n \in Nat /\ n <= m
  BY <1>4
<1>7. /\ chunk \in Seq(Bytes) /\ Len(chunk) = n /\ \A k \in 1 .. n : chunk[k] = s[k]
  OBVIOUS
<1>8. Follows(chunk, session.stream, c)
  <2>1. c + n <= N
    BY <1>5, <1>6
  <2>2. \A k \in 1 .. n : chunk[k] = st[c + k]
    BY <1>5, <1>6, <1>7
  <2>3. QED
    BY <1>3, <1>7, <2>1, <2>2 DEF Follows
<1>9. /\ p.used \in 0 .. Len(chunk) /\ p.dest \in Seq(Bytes)
      /\ session.telnet => Parsed("DATA", First(session, c + p.used)).state = p.state
      /\ Passed(session, c + p.used) = Passed(session, c) \o p.dest
  <2>1. PassesOn(session, c, chunk, p)
    BY <1>5, <1>7, <1>8, ChunkPassed
  <2>2. QED
    BY <2>1 DEF PassesOn
<1>10. PICK used \in 0 .. n, e \in Seq(Bytes) : used = p.used /\ e = p.dest
  BY <1>7, <1>9
<1>a. used \in Nat /\ used <= n
  BY <1>6, <1>10
<1>b. c + m + v = N
  BY <1>5
<1>11. PICK g \in 0 .. N : g = c + used
  BY <1>4, <1>6, <1>a, <1>b
<1>12. PICK x \in Nat : x = Len(e)
  OBVIOUS
<1>13. PICK r \in Seq(Bytes) : /\ r = SubSeq(s, p.used + 1, Len(s)) /\ Len(r) = m - used
                               /\ \A k \in 1 .. m - used : r[k] = s[used + k]
  <2>1. used \in 0 .. Len(s)
    BY <1>4, <1>6, <1>10
  <2>2. /\ SubSeq(s, used + 1, Len(s)) \in Seq(Bytes) /\ Len(SubSeq(s, used + 1, Len(s))) = Len(s) - used
        /\ \A k \in 1 .. Len(s) - used : SubSeq(s, used + 1, Len(s))[k] = s[used + k]
    BY <2>1, RestOf
  <2>3. QED
    BY <1>4, <1>10, <2>2, Zenon
<1>14. Remains(session, g, r, u)
  <2>1. g + (m - used) + v = N /\ g + (m - used) = c + m
    <3>1. PICK z \in Nat : z = m - used /\ z + used = m
      BY <1>6, <1>a
    <3>2. g + z = c + m
      BY <1>6, <1>11, <1>a, <3>1
    <3>3. QED
      BY <1>b, <3>1, <3>2
  <2>2. ASSUME NEW k \in 1 .. m - used PROVE r[k] = st[g + k]
    <3>1. PICK j \in 1 .. m : j = used + k /\ c + j = g + k
      BY <1>6, <1>11, <1>a
    <3>2. QED
      BY <1>5, <1>13, <3>1
  <2>3. \A k \in 1 .. v : u[k] = st[g + (m - used) + k]
    BY <1>5, <2>1
  <2>4. QED
    BY <1>3, <1>4, <1>13, <2>1, <2>2, <2>3 DEF Remains
<1>15. PICK q \in Seq(Bytes) : q = Passed(session, c) /\ Len(q) = t + d
  <2>1. Passed(session, c) \in Seq(Bytes)
    BY SentType
  <2>2. QED
    BY <1>5, <2>1
<1>16. Passed(session, g) = q \o e
  BY <1>9, <1>10, <1>11, <1>15
<1>17. /\ q \o e \in Seq(Bytes) /\ Len(q \o e) = Len(q) + Len(e)
       /\ \A k \in 1 .. Len(q) + Len(e) :
             (q \o e)[k] = IF k <= Len(q) THEN q[k] ELSE e[k - Len(q)]
  BY ConcatProperties
<1>18. Len(data \o e) = d + x
  BY <1>4, <1>12, ConcatProperties
<1>19. PICK y : y = q \o e
  OBVIOUS
<1>20. Len(y) = t + d + x /\ \A k \in 1 .. x : y[t + d + k] = e[k]
  <2>1. Len(y) = (t + d) + x
    BY <1>12, <1>15, <1>17, <1>19
  <2>2. \A k \in 1 .. (t + d) + x : y[k] = IF k <= t + d THEN q[k] ELSE e[k - (t + d)]
    BY <1>12, <1>15, <1>17, <1>19
  <2>3. ASSUME NEW k \in 1 .. x PROVE y[t + d + k] = e[k]
    <3>1. PICK a \in Nat : a = t + d
      BY <1>4
    <3>2. a + k \in 1 .. a + x /\ ~(a + k <= a) /\ (a + k) - a = k
      BY <1>12
    <3>3. QED
      BY <2>2, <3>1, <3>2
  <2>4. QED
    BY <2>1, <2>3
<1>21. ReadTo(session, g, r, u, p.state, t + Len(data \o e))
  <2>1. t + (d + x) = t + d + x
    BY <1>4, <1>12
  <2>2. Len(Passed(session, g)) = t + Len(data \o e)
    BY <1>16, <1>18, <1>19, <1>20, <2>1
  <2>3. session.telnet => Parsed("DATA", First(session, g)).state = p.state
    BY <1>9, <1>10, <1>11
  <2>4. QED
    BY <1>14, <2>2, <2>3 DEF ReadTo
<1>22. Aligned(session, r, u, p.state, t + Len(data \o e))
  BY <1>11, <1>21 DEF Aligned
<1>23. Shows(data \o e, SentPayload, t)
  <2>1. SentPayload \in Seq(Bytes) /\ Begins(Passed(session, g), SentPayload)
    BY <1>11, SentType
  <2>2. PICK sent \in Seq(Bytes) : sent = SentPayload
    BY <2>1
  <2>3. \A k \in 1 .. t + d + x : sent[k] = y[k]
    BY <1>16, <1>19, <1>20, <2>1, <2>2 DEF Begins
  <2>4. ASSUME NEW k \in 1 .. x PROVE e[k] = sent[t + d + k]
    <3>1. t + d + k \in 1 .. t + d + x
      BY <1>4, <1>12
    <3>2. QED
      BY <1>20, <2>3, <3>1
  <2>5. \A k \in 1 .. Len(e) : e[k] = sent[t + Len(data) + k]
    BY <1>4, <1>12, <2>4
  <2>6. Shows(data, sent, t)
    BY <2>2
  <2>7. Shows(data \o e, sent, t)
    BY <2>5, <2>6, ShowsMore
  <2>8. QED
    BY <2>2, <2>7
<1>24. QED
  BY <1>10, <1>13, <1>22, <1>23

\* A chunk goes into the buffer.
LEMMA FramingRefill ==
    ASSUME InboundInvariant, Framing, RefillChunk
    PROVE  Framing'
<1>1. /\ session \in Sessions /\ tstate \in TelnetStates /\ src \in Seq(Bytes) /\ unread \in Seq(Bytes)
      /\ buf \in Buffers /\ taken \in Nat /\ buf.start + Len(buf.data) <= BufCap /\ BufCap \in Nat
  BY InboundAssumption DEF InboundInvariant, InboundType
<1>2. PICK b \in Buffers : b = MadeRoom(buf) /\ b.data = buf.data
  <2>1. [buf EXCEPT !.start = 0] \in Buffers /\ [buf EXCEPT !.start = 0].data = buf.data
    BY <1>1 DEF Buffers
  <2>2. QED
    BY <1>1, <2>1 DEF MadeRoom
<1>3. PICK data \in Seq(Bytes) : data = b.data
  BY DEF Buffers
<1>4. PICK s \in Seq(Bytes), u \in Seq(Bytes), t \in Nat : s = src /\ u = unread /\ t = taken
  BY <1>1
<1>5. PICK n \in 0 .. Len(s) : n = Min({Len(s), Room(b)})
  <2>1. PICK k \in Nat, start \in Nat : k = Len(data) /\ start = b.start
    BY DEF Buffers
  <2>2. Room(b) = BufCap - (start + k) /\ Room(b) > 0
    BY <1>2, <1>3, <2>1 DEF Room, RefillChunk
  <2>3. PICK room \in Nat : room = Room(b)
    BY <1>1, <2>1, <2>2
  <2>4. Len(s) \in Nat
    OBVIOUS
  <2>5. Min({Len(s), room}) \in {Len(s), room} /\ Min({Len(s), room}) <= Len(s)
    BY <2>3, <2>4, MinPair
  <2>6. QED
    BY <2>3, <2>4, <2>5
<1>6. PICK chunk : chunk = SubSeq(s, 1, n)
  OBVIOUS
<1>7. PICK p : p = IF session.telnet /\ ~paused THEN ProcessInbound(tstate, chunk)
                                                ELSE Copied(tstate, chunk)
  OBVIOUS
<1> DEFINE full == p.sb # <<>> /\ ~strict /\ Busy
<1>8. /\ buf' = [b EXCEPT !.data = @ \o p.dest]
      /\ src' = SubSeq(s, p.used + 1, Len(s))
      /\ tstate' = p.state
      /\ paused' = (paused \/ full) /\ refused' = (refused \/ full)
  BY <1>2, <1>4, <1>5, <1>6, <1>7 DEF RefillChunk
<1>9. UNCHANGED <<session, unread, loop, taken, log>> /\ loop = "refill"
  BY DEF RefillChunk
<1> HIDE DEF full
<1>10. CASE refused \/ full
  <2>1. refused'
    BY <1>8, <1>10
  <2>2. QED
    BY <1>9, <2>1, FramingNext
<1>11. CASE ~refused /\ ~full
  <2>1. /\ ~paused
        /\ Aligned(session, src, unread, tstate, taken + Len(buf.data))
        /\ Shows(buf.data, SentPayload, taken)
        /\ Delivered(log, SentPayload, taken)
        /\ FramedLog(log, SentPayload, session.ansi)
    BY <1>11 DEF Framing
  <2>n. PICK N \in Nat : N = Len(session.stream)
    BY <1>1, SessionType
  <2>2. PICK c \in 0 .. N : ReadTo(session, c, s, u, tstate, t + Len(data))
    BY <1>2, <1>3, <1>4, <2>1, <2>n DEF Aligned
  <2>3. Shows(data, SentPayload, t)
    BY <1>2, <1>3, <1>4, <2>1
  <2>4. p = IF session.telnet THEN ProcessInbound(tstate, chunk) ELSE Copied(tstate, chunk)
    BY <1>7, <2>1
  <2>5. PICK ts : ts = tstate
    OBVIOUS
  <2>6. /\ Aligned(session, SubSeq(s, p.used + 1, Len(s)), u, p.state, t + Len(data \o p.dest))
        /\ Shows(data \o p.dest, SentPayload, t)
    BY <1>1, <1>6, <2>n, <2>2, <2>3, <2>4, <2>5, AlignedChunk
  <2>7. buf'.data = data \o p.dest
    BY <1>3, <1>8 DEF Buffers
  <2>8. /\ Aligned(session, src', unread', tstate', taken' + Len(buf'.data))
        /\ Shows(buf'.data, SentPayload, taken')
    BY <1>4, <1>8, <1>9, <2>6, <2>7
  <2>9. ~paused' /\ loop' \in Reading
    BY <1>8, <1>9, <1>11, <2>1 DEF Reading
  <2>10. QED
    BY <1>9, <2>1, <2>8, <2>9, FramingNext
<1>12. QED
  BY <1>10, <1>11

\* The buffer lies within the payload.
LEMMA BufferWithin ==
    ASSUME InboundInvariant, Framing, ~refused
    PROVE  taken + Len(buf.data) <= Len(SentPayload)
<1>1. session \in Sessions
  BY DEF InboundInvariant, InboundType
<1>2. PICK c \in 0 .. Len(session.stream) :
         ReadTo(session, c, src, unread, tstate, taken + Len(buf.data))
  BY DEF Framing, Aligned
<1>3. Begins(Passed(session, c), SentPayload)
  BY <1>1, SentType
<1>4. QED
  BY <1>2, <1>3 DEF ReadTo, Begins

\* Bytes that leave the buffer are counted.
LEMMA StillAt ==
    ASSUME NEW t \in Nat, NEW k \in Nat, NEW e \in Nat, NEW d \in Nat, e + k = d
    PROVE  (t + k) + e = t + d
OBVIOUS

\* The end of a line is within what leaves the buffer with it.
LEMMA LinePlaces ==
    ASSUME NEW t \in Nat, NEW a \in Nat, NEW n \in Nat, NEW nx \in Nat, a + n + 1 <= nx
    PROVE  \E at, u, e \in Nat :
              at = t + a /\ u = t + nx - 1 /\ e = t + a + n /\ e <= u /\ t <= at
OBVIOUS

\* Where the loop is after a message or a refusal.
LEMMA LoopGoesOn ==
    ASSUME loop \in Reading \/ src = <<>>, loop' = loop \/ loop' = Returned
    PROVE  loop' \in Reading \/ src = <<>>
BY DEF Reading, Returned, InScan

\* The places of a line: from x on, in terms of the payload.
LEMMA LineEntry ==
    ASSUME NEW l \in Seq(Entries), NEW sent \in Seq(Bytes), NEW ansi, NEW t \in Nat,
           Delivered(l, sent, t), FramedLog(l, sent, ansi),
           NEW data \in Seq(Bytes), Shows(data, sent, t), t + Len(data) <= Len(sent), HasLine(data),
           NEW f, f = FindNewlineAndStrip(data), NEW m, m = Message("line", t + f.skip, f.body)
    PROVE  /\ Delivered(Append(l, m), sent, t + f.next - 1) /\ FramedLog(Append(l, m), sent, ansi)
           /\ Delivered(l, sent, t + f.skip) /\ Shows(f.edited, sent, t + f.skip)
<1>1. /\ f.body \in Seq(Bytes) /\ f.edited \in Seq(Bytes) /\ f.skip \in Nat
      /\ f.next \in 2 .. Len(data) + 1
  BY NewlineType
<1>2. PICK i \in 1 .. Len(data), a \in Nat, n \in Nat :
         a + n <= i - 1 /\ LineFound(data, f, i, a, n) /\ LineLeft(data, f, a, n)
  BY LineParts
<1>3. f.skip = a /\ Len(f.body) = n /\ f.next \in {i + 1, i + 2}
  BY <1>2 DEF LineFound
<1>4. PICK nx \in Nat : nx = f.next /\ a + n + 1 <= nx
  <2>1. i \in Nat
    OBVIOUS
  <2>2. QED
    BY <1>2, <1>3, <2>1
<1>5. /\ f.body = FindNewlineAndStrip(SubSeq(sent, t + a + 1, Len(sent))).body
      /\ \A x \in 1 .. a : sent[t + x] \in Blank
      /\ \A x \in a + n + 1 .. f.next - 1 : sent[t + x] \in Blank
  <2>1. LineOf(f, sent, t, a, n)
    BY <1>2, LineMatches
  <2>2. QED
    BY <2>1 DEF LineOf
<1>6. Shows(f.edited, sent, t + a)
  BY <1>1, <1>2, ShowsEdited
<1>7. PICK at, u, e \in Nat :
         at = t + a /\ u = t + nx - 1 /\ e = t + a + n /\ e <= u /\ t <= at
  <2>1. a + n + 1 <= nx
    BY <1>4
  <2>2. QED
    BY <2>1, LinePlaces
<1>8. ASSUME NEW k \in t + 1 .. at PROVE sent[k] \in Blank
  <2>1. PICK x \in 1 .. a : k = t + x
    <3>1. k - t \in 1 .. a /\ k = t + (k - t)
      BY <1>7
    <3>2. QED
      BY <3>1
  <2>2. QED
    BY <1>5, <2>1
<1>9. ASSUME NEW k \in e + 1 .. u PROVE sent[k] \in Blank
  <2>1. PICK x \in a + n + 1 .. nx - 1 : k = t + x
    <3>1. k - t \in a + n + 1 .. nx - 1 /\ k = t + (k - t)
      BY <1>7
    <3>2. QED
      BY <3>1
  <2>2. QED
    BY <1>4, <1>5, <2>1
<1>10. m = [kind |-> "line", at |-> at, body |-> f.body]
  BY <1>3, <1>7 DEF Message
<1>11. /\ m \in Entries /\ IsMessage(m) /\ m.kind = "line" /\ m.at = at /\ m.body = f.body
  BY <1>1, <1>10 DEF Entries, IsMessage
<1>12. EndOf(m) = e
  BY <1>3, <1>7, <1>11 DEF EndOf
<1>13. Framed(m, SubSeq(sent, m.at + 1, Len(sent)), ansi)
  BY <1>5, <1>7, <1>11 DEF Framed
<1>14. t <= at
  BY <1>7
<1>15. Delivered(Append(l, m), sent, u) /\ FramedLog(Append(l, m), sent, ansi)
  <2>1. /\ t <= m.at /\ (\A k \in t + 1 .. m.at : sent[k] \in Blank)
        /\ EndOf(m) <= u /\ \A k \in EndOf(m) + 1 .. u : sent[k] \in Blank
    BY <1>7, <1>8, <1>9, <1>11, <1>12, <1>14
  <2>2. QED
    BY <1>11, <1>13, <2>1, MessageEntry
<1>16. Delivered(l, sent, at)
  <2>1. ASSUME NEW j \in 1 .. Len(l) PROVE EndOf(l[j]) \in Nat
    <3>1. l[j] \in Entries
      OBVIOUS
    <3>2. l[j].at \in Nat /\ Len(l[j].body) \in Nat
      BY <3>1 DEF Entries
    <3>3. QED
      BY <3>2 DEF EndOf
  <2>2. Len(l) \in Nat
    OBVIOUS
  <2>3. QED
    BY <1>8, <1>14, <2>1, <2>2, BytesSkipped
<1>17. QED
  BY <1>3, <1>4, <1>6, <1>7, <1>15, <1>16

\* A line leaves the buffer, or stays in it stripped.
LEMMA FramingLine ==
    ASSUME InboundInvariant, Framing, FrameLine
    PROVE  Framing'
<1>1. /\ session \in Sessions /\ buf \in Buffers /\ taken \in Nat /\ log \in Seq(Entries)
  BY DEF InboundInvariant, InboundType
<1>2. /\ UNCHANGED <<session, unread, src, paused, tstate, refused>>
      /\ loop' = loop \/ loop' = Returned
      /\ HasLine(buf.data) /\ TakeLine
  BY DEF FrameLine, readVars
<1>3. CASE refused
  BY <1>2, <1>3, FramingNext
<1>4. CASE ~refused
  <2>1. /\ ~paused /\ (loop \in Reading \/ src = <<>>)
        /\ Aligned(session, src, unread, tstate, taken + Len(buf.data))
        /\ Shows(buf.data, SentPayload, taken)
        /\ Delivered(log, SentPayload, taken)
        /\ FramedLog(log, SentPayload, session.ansi)
    BY <1>4 DEF Framing
  <2>2. PICK data \in Seq(Bytes) : data = buf.data
    BY <1>1 DEF Buffers
  <2>3. PICK sent \in Seq(Bytes) : sent = SentPayload
    BY <1>1, SentType
  <2>4. PICK l \in Seq(Entries), t \in Nat, ansi \in BOOLEAN :
           l = log /\ t = taken /\ ansi = session.ansi
    BY <1>1, SessionType
  <2>5. PICK f : f = FindNewlineAndStrip(data)
    OBVIOUS
  <2>6. PICK m : m = Message("line", t + f.skip, f.body)
    OBVIOUS
  <2>7. t + Len(data) <= Len(sent)
    BY <1>4, <2>2, <2>3, <2>4, BufferWithin
  <2>8. /\ Delivered(Append(l, m), sent, t + f.next - 1) /\ FramedLog(Append(l, m), sent, ansi)
        /\ Delivered(l, sent, t + f.skip) /\ Shows(f.edited, sent, t + f.skip)
    BY <1>2, <2>1, <2>2, <2>3, <2>4, <2>5, <2>6, <2>7, LineEntry
  <2>9. /\ f.body \in Seq(Bytes) /\ f.edited \in Seq(Bytes) /\ f.skip \in Nat
        /\ f.next \in 2 .. Len(data) + 1
        /\ Len(f.edited) + f.skip = Len(data)
    BY <1>2, <2>2, <2>5, NewlineType
  <2>10. loop' \in Reading \/ src' = <<>>
    BY <1>2, <2>1, LoopGoesOn
  <2>11. CASE ~strict /\ Busy
    <3>1. buf'.data = f.edited /\ taken' = t + f.skip /\ log' = l
      BY <1>2, <2>2, <2>4, <2>5, <2>11 DEF TakeLine, QueueFull
    <3>2. taken' + Len(buf'.data) = taken + Len(buf.data)
      <4>1. PICK k, e, d \in Nat :
               k = f.skip /\ e = Len(f.edited) /\ d = Len(data) /\ e + k = d
        BY <2>9
      <4>2. (t + k) + e = t + d
        <5>1. e + k = d
          BY <4>1
        <5>2. QED
          BY <5>1, StillAt
      <4>3. QED
        BY <2>2, <2>4, <3>1, <4>1, <4>2
    <3>3. QED
      BY <1>2, <2>1, <2>3, <2>4, <2>8, <2>10, <3>1, <3>2, FramingNext
  <2>12. CASE ~(~strict /\ Busy)
    <3>1. PICK nx \in Nat, d \in Nat : nx = f.next - 1 /\ d = Len(data) /\ nx <= d /\ nx + 1 = f.next
      BY <2>9
    <3>2. /\ buf'.data = SubSeq(data, f.next, Len(data)) /\ taken' = t + (f.next - 1)
          /\ log' = Append(l, m)
      BY <1>2, <2>2, <2>4, <2>5, <2>6, <2>12 DEF TakeLine, Accepted
    <3>3. buf'.data = SubSeq(data, nx + 1, Len(data)) /\ taken' = t + nx
      BY <3>1, <3>2
    <3>4. nx \in 0 .. Len(data)
      BY <3>1
    <3>5. Len(SubSeq(data, nx + 1, Len(data))) = Len(data) - nx
      BY <3>4, RestOf
    <3>6. taken' + Len(buf'.data) = taken + Len(buf.data)
      <4>1. PICK e \in Nat : e = d - nx /\ e + nx = d
        <5>1. nx <= d
          BY <3>1
        <5>2. QED
          BY <5>1
      <4>2. (t + nx) + e = t + d
        BY <4>1, StillAt
      <4>3. QED
        BY <2>2, <2>4, <3>1, <3>3, <3>5, <4>1, <4>2
    <3>7. Shows(SubSeq(data, nx + 1, Len(data)), sent, t + nx)
      BY <2>1, <2>2, <2>3, <2>4, <3>4, ShowsRest
    <3>8. Delivered(Append(l, m), sent, t + nx)
      <4>1. t + f.next - 1 = t + nx
        BY <2>9, <3>1
      <4>2. QED
        BY <2>8, <4>1
    <3>9. QED
      BY <1>2, <2>1, <2>3, <2>4, <2>8, <2>10, <3>2, <3>3, <3>6, <3>7, <3>8, FramingNext
  <2>13. QED
    BY <2>11, <2>12
<1>5. QED
  BY <1>3, <1>4

\* A character message is the sequence the payload begins with.
LEMMA CharEntry ==
    ASSUME NEW l \in Seq(Entries), NEW sent \in Seq(Bytes), NEW ansi \in BOOLEAN, NEW t \in Nat,
           Delivered(l, sent, t), FramedLog(l, sent, ansi),
           NEW data \in Seq(Bytes), Shows(data, sent, t), t + Len(data) <= Len(sent),
           NEW n \in 0 .. Len(data), SequenceOf(data, ansi, n),
           NEW m, m = Message("char", t, SubSeq(data, 1, n))
    PROVE  Delivered(Append(l, m), sent, t + n) /\ FramedLog(Append(l, m), sent, ansi)
<1>1. PICK text \in Seq(Bytes) : text = SubSeq(sent, t + 1, Len(sent))
  <2>1. SubSeq(sent, t + 1, Len(sent)) \in Seq(Bytes)
    OBVIOUS
  <2>2. QED
    BY <2>1, Zenon
<1>2. n \in Nat
  OBVIOUS
<1>3. StartsSame(data, text, ansi, n)
  BY <1>1, <1>2, CharMatches
<1>4. /\ n = 0 => text[1] \in Blank
      /\ n # 0 => FindCharInputSequence(text, ansi).len = n
      /\ \A k \in 1 .. n : data[k] = text[k]
  BY <1>3 DEF StartsSame
<1>5. PICK body \in Seq(Bytes) : /\ body = SubSeq(data, 1, n) /\ Len(body) = n
                                 /\ \A k \in 1 .. n : body[k] = data[k]
  <2>1. /\ SubSeq(data, 1, n) \in Seq(Bytes) /\ Len(SubSeq(data, 1, n)) = n
        /\ \A k \in 1 .. n : SubSeq(data, 1, n)[k] = data[k]
    OBVIOUS
  <2>2. QED
    BY <2>1, Zenon
<1>6. PICK w \in Nat, d \in Nat, s \in Nat : w = Len(text) /\ d = Len(data) /\ s = Len(sent)
  OBVIOUS
<1>7. n <= w
  <2>1. t + d <= s /\ n <= d
    BY <1>6
  <2>2. t \in 0 .. s
    BY <2>1
  <2>3. Len(SubSeq(sent, t + 1, Len(sent))) = Len(sent) - t
    BY <1>6, <2>2, RestOf
  <2>4. w = s - t
    BY <1>1, <1>6, <2>3
  <2>5. QED
    BY <1>2, <2>1, <2>4
<1>8. n # 0 => body = SubSeq(text, 1, n)
  <2>1. PICK v \in Seq(Bytes) : /\ v = SubSeq(text, 1, n) /\ Len(v) = n
                                /\ \A k \in 1 .. n : v[k] = text[k]
    <3>1. n \in 0 .. Len(text)
      BY <1>2, <1>6, <1>7
    <3>2. /\ SubSeq(text, 1, n) \in Seq(Bytes) /\ Len(SubSeq(text, 1, n)) = n
          /\ \A k \in 1 .. n : SubSeq(text, 1, n)[k] = text[k]
      BY <3>1
    <3>3. QED
      BY <3>2, Zenon
  <2>2. body = v
    BY <1>2, <1>4, <1>5, <2>1, SeqEqual
  <2>3. QED
    BY <2>1, <2>2
<1>9. body = <<>> <=> n = 0
  BY <1>5, EmptySeq
<1>10. m = [kind |-> "char", at |-> t, body |-> body]
  BY <1>5 DEF Message
<1>11. m \in Entries /\ IsMessage(m) /\ m.kind = "char" /\ m.at = t /\ m.body = body
  BY <1>10 DEF Entries, IsMessage
<1>12. Framed(m, text, ansi)
  <2>1. n # 0 => Len(body) = FindCharInputSequence(text, ansi).len
    BY <1>4, <1>5
  <2>2. n # 0 => body = SubSeq(text, 1, Len(body))
    BY <1>5, <1>8
  <2>3. QED
    BY <1>4, <1>9, <1>11, <2>1, <2>2 DEF Framed
<1>13. PICK u \in Nat : u = t + n
  BY <1>2
<1>14. EndOf(m) = u
  BY <1>5, <1>11, <1>13 DEF EndOf
<1>15. /\ t <= m.at /\ (\A k \in t + 1 .. m.at : sent[k] \in Blank)
       /\ EndOf(m) <= u /\ \A k \in EndOf(m) + 1 .. u : sent[k] \in Blank
  BY <1>11, <1>14
<1>16. Framed(m, SubSeq(sent, m.at + 1, Len(sent)), ansi)
  BY <1>1, <1>11, <1>12
<1>17. Delivered(Append(l, m), sent, u) /\ FramedLog(Append(l, m), sent, ansi)
  BY <1>11, <1>15, <1>16, MessageEntry
<1>18. QED
  BY <1>13, <1>17

\* A character sequence leaves the buffer, or is refused.
LEMMA FramingChar ==
    ASSUME InboundInvariant, Framing, FrameChar
    PROVE  Framing'
<1>1. /\ session \in Sessions /\ buf \in Buffers /\ taken \in Nat /\ log \in Seq(Entries)
  BY DEF InboundInvariant, InboundType
<1>2. /\ UNCHANGED <<session, unread, src, paused, tstate, refused>>
      /\ loop' = loop \/ loop' = Returned
      /\ FindCharInputSequence(buf.data, session.ansi).found /\ TakeChar
  BY DEF FrameChar, readVars
<1>3. CASE refused
  BY <1>2, <1>3, FramingNext
<1>4. CASE ~refused
  <2>1. /\ ~paused /\ (loop \in Reading \/ src = <<>>)
        /\ Aligned(session, src, unread, tstate, taken + Len(buf.data))
        /\ Shows(buf.data, SentPayload, taken)
        /\ Delivered(log, SentPayload, taken)
        /\ FramedLog(log, SentPayload, session.ansi)
    BY <1>4 DEF Framing
  <2>2. PICK data \in Seq(Bytes) : data = buf.data
    BY <1>1 DEF Buffers
  <2>3. PICK sent \in Seq(Bytes) : sent = SentPayload
    BY <1>1, SentType
  <2>4. PICK l \in Seq(Entries), t \in Nat : l = log /\ t = taken
    BY <1>1
  <2>5. PICK ansi \in BOOLEAN : ansi = session.ansi
    BY <1>1, SessionType
  <2>6. FindCharInputSequence(data, ansi).found
    BY <1>2, <2>2, <2>5
  <2>7. PICK n \in 0 .. Len(data) : n = FindCharInputSequence(data, ansi).len
    BY <2>6, SequenceType
  <2>8. SequenceOf(data, ansi, n)
    BY <2>6, <2>7 DEF SequenceOf
  <2>9. PICK m : m = Message("char", t, SubSeq(data, 1, n))
    OBVIOUS
  <2>10. t + Len(data) <= Len(sent)
    BY <1>4, <2>2, <2>3, <2>4, BufferWithin
  <2>11. Delivered(Append(l, m), sent, t + n) /\ FramedLog(Append(l, m), sent, ansi)
    BY <2>1, <2>2, <2>3, <2>4, <2>5, <2>8, <2>9, <2>10, CharEntry
  <2>12. loop' \in Reading \/ src' = <<>>
    BY <1>2, <2>1, LoopGoesOn
  <2>13. ASSUME NEW left \in 0 .. Len(data),
                buf'.data = SubSeq(data, left + 1, Len(data)), taken' = t + left,
                Delivered(log', sent, t + left), FramedLog(log', sent, ansi)
         PROVE  Framing'
    <3>1. Len(SubSeq(data, left + 1, Len(data))) = Len(data) - left
      BY RestOf
    <3>2. taken' + Len(buf'.data) = taken + Len(buf.data)
      <4>1. PICK d \in Nat : d = Len(data)
        OBVIOUS
      <4>2. left \in Nat /\ left <= d
        BY <4>1
      <4>3. PICK e \in Nat : e = d - left /\ e + left = d
        BY <4>2
      <4>4. e + left = d /\ left \in Nat
        BY <4>2, <4>3
      <4>5. (t + left) + e = t + d
        BY <4>4, StillAt
      <4>6. QED
        BY <2>2, <2>4, <2>13, <3>1, <4>1, <4>3, <4>5
    <3>3. Shows(SubSeq(data, left + 1, Len(data)), sent, t + left)
      BY <2>1, <2>2, <2>3, <2>4, ShowsRest
    <3>4. QED
      BY <1>2, <2>1, <2>3, <2>5, <2>12, <2>13, <3>2, <3>3, FramingNext
  <2>14. CASE ~strict /\ Busy
    <3>1. buf'.data = SubSeq(data, 0 + 1, Len(data)) /\ taken' = t + 0 /\ log' = l
      BY <1>2, <2>2, <2>4, <2>14 DEF TakeChar, QueueFull
    <3>2. Delivered(log', sent, t + 0) /\ FramedLog(log', sent, ansi)
      <4>1. t + 0 = t
        OBVIOUS
      <4>2. QED
        BY <2>1, <2>3, <2>4, <2>5, <3>1, <4>1
    <3>3. 0 \in 0 .. Len(data)
      OBVIOUS
    <3>4. QED
      BY <2>13, <3>1, <3>2, <3>3
  <2>15. CASE ~(~strict /\ Busy)
    <3>1. /\ buf'.data = SubSeq(data, n + 1, Len(data)) /\ taken' = t + n
          /\ log' = Append(l, m)
      BY <1>2, <2>2, <2>4, <2>5, <2>7, <2>9, <2>15 DEF TakeChar, Accepted
    <3>2. QED
      BY <2>11, <2>13, <3>1
  <2>16. QED
    BY <2>14, <2>15
<1>5. QED
  BY <1>3, <1>4

-----------------------------------------------------------------------------
(* Theorems.                                                               *)

\* Every step of the loop, of the slot's hooks and of the hooks of other slots
\* keeps the inductive invariant.
THEOREM InboundInductive == Spec => []InboundInvariant
<1>1. Init => InboundInvariant
  BY InboundInit
<1>2. InboundInvariant /\ [Next]_vars => InboundInvariant'
  <2> SUFFICES ASSUME InboundInvariant, [Next]_vars PROVE InboundInvariant'
    OBVIOUS
  <2>1. CASE UNCHANGED vars
    <3>1. UNCHANGED <<session, strict, unread, src, buf, tstate, comm, gate, loop, calls, sends,
                      taken, log, has_deferred, overwritten>>
      BY <2>1 DEF vars, readVars, histVars
    <3>2. ModeTold(comm)' /\ PromptInvariant' /\ OneShotInvariant' /\ DeferredKnown'
      BY <3>1, SlotKept
    <3>3. InboundType'
      BY <3>1 DEF InboundInvariant, InboundType
    <3>4. QED
      BY <3>2, <3>3 DEF InboundInvariant
  <2>2. CASE ReadEvent
    BY <2>2, ReadStep
  <2>3. CASE RefillChunk
    BY <2>3, RefillStep
  <2>4. CASE NoRead \/ ProcessKeptBack \/ FrameNothing \/ NothingDeferred \/ NoPrompt \/ OtherDefers
    BY <2>4, QuietStep
  <2>5. CASE ProcessBegins \/ ResumeScan
    BY <2>5, ResumedStep
  <2>6. CASE FrameLine
    BY <2>6, LineStep
  <2>7. CASE FrameChar
    BY <2>7, CharStep
  <2>8. CASE ResumeStore
    BY <2>8, StoreStep
  <2>9. CASE PromptChecked
    BY <2>9, PromptCheckedStep
  <2>10. CASE Prompt
    BY <2>10, PromptStep
  <2>11. CASE HookChoosesMode
    BY <2>11, ChoosesStep
  <2>12. CASE OutboundWrites \/ Send
    BY <2>12, OutputStep
  <2>13. CASE HookCompletes
    BY <2>13, CompletesStep
  <2>14. CASE HookLeaves
    BY <2>14, LeaveStep
  <2>15. QED
    BY <2>1, <2>2, <2>3, <2>4, <2>5, <2>6, <2>7, <2>8, <2>9, <2>10, <2>11, <2>12, <2>13, <2>14
       DEF Next, LoopStep, HookStep
<1>3. QED
  BY <1>1, <1>2, PTL DEF Spec

\* Whatever the peer sends, in reads of any size, the bytes that
\* _refill_inbound_buffers_from_src stores stay within the inbound buffer, and
\* the gate within its queue.
THEOREM InboundTypeCorrect == Spec => []TypeOK
<1>1. InboundInvariant => TypeOK
  <2> SUFFICES ASSUME InboundInvariant PROVE TypeOK
    OBVIOUS
  <2>1. InboundType
    BY DEF InboundInvariant
  <2>2. PICK start \in Nat, len \in Nat :
           start = buf.start /\ len = Len(buf.data) /\ start + len <= BufCap
    BY <2>1 DEF InboundType, Buffers
  <2>3. buf.start \in 0..BufCap /\ buf.start + Len(buf.data) <= BufCap
    BY <2>2, InboundAssumption
  <2>4. comm.flags \subseteq Flags /\ comm.caps \subseteq Caps /\ comm.told \in Told
    BY <2>1 DEF InboundType, Comms
  <2>5. QED
    BY <2>1, <2>3, <2>4 DEF InboundType, TypeOK, Busy
<1>2. QED
  BY <1>1, InboundInductive, PTL

\* Character input is one-shot: comm_set_char_input buys one sequence, however
\* reads, refusals and resumptions interleave with the hooks that arm it.
THEOREM OneShotAlways == Spec => []OneShotChar
<1>1. InboundInvariant => OneShotChar
  <2> SUFFICES ASSUME InboundInvariant PROVE OneShotChar
    OBVIOUS
  <2>1. Cardinality(Chars) \in Nat /\ Cardinality(Chars) + Arms(comm) <= session.calls - calls
    BY CharsFinite DEF InboundInvariant, InboundType, OneShotInvariant
  <2>2. session.calls - calls \in Int
    BY SessionType DEF InboundInvariant, InboundType
  <2>3. Arms(comm) \in {0, 1}
    BY DEF Arms
  <2>4. Cardinality(Chars) <= session.calls - calls
    BY <2>1, <2>2, <2>3
  <2>5. QED
    BY <2>4 DEF OneShotChar, Chars
<1>2. QED
  BY <1>1, InboundInductive, PTL

\* C_INVOKED_PROMPT: comm_invoke_prompt does not prompt twice without input,
\* or output that displaced the prompt, in between.
THEOREM PromptOnceAlways == Spec => []PromptOnce
<1>1. InboundInvariant => PromptOnce
  <2> SUFFICES ASSUME InboundInvariant, NEW i \in DOMAIN log, NEW j \in DOMAIN log,
                      i < j, log[i].kind = "prompt", log[j].kind = "prompt"
               PROVE  \E k \in i + 1..j - 1 : log[k].kind # "prompt"
    BY DEF PromptOnce
  <2>1. PICK n \in Nat : n = Len(log) /\ DOMAIN log = 1 .. n
    BY DEF InboundInvariant, InboundType
  <2>2. i \in 1 .. n - 1 /\ j \in 1 .. n
    BY <2>1
  <2>3. log[i + 1].kind # "prompt"
    BY <2>1, <2>2 DEF InboundInvariant, PromptInvariant
  <2>4. i + 1 # j
    BY <2>3
  <2>5. i + 1 \in i + 1..j - 1
    BY <2>2, <2>4
  <2>6. QED
    BY <2>3, <2>5
<1>2. QED
  BY <1>1, InboundInductive, PTL

\* A client in LINEMODE was last told the mode the slot is in, through any
\* order of its answers, one-shot switches and calls of hooks.
THEOREM EditModeToldAlways == Spec => []EditModeTold
<1>1. InboundInvariant => EditModeTold
  BY DEF InboundInvariant, ModeTold, EditModeTold
<1>2. QED
  BY <1>1, InboundInductive, PTL

\* comm_defer_input: the loop does not go to sleep with deferred input it has
\* not been told of, but for the scan that stores over a newer value.
THEOREM DeferredPublishedAlways == Spec => []DeferredPublished
<1>1. InboundInvariant => DeferredPublished
  BY DEF InboundInvariant, DeferredKnown, DeferredPublished
<1>2. QED
  BY <1>1, InboundInductive, PTL

\* Whatever the peer sends, in reads and chunks of any size, and whatever is
\* refused or deferred in between, the messages of comm_process_input are the
\* telnet payload cut in order: a line is the stripped text up to the next line
\* end, a character message one whole sequence, no two overlap, and only white
\* space and line ends are left out; unless a subnegotiation met a busy slot.
THEOREM MessagesFramedAlways == Spec => []MessagesFramed
<1>1. Init => InboundInvariant /\ Framing
  BY InboundInit, FramingInit
<1>2. InboundInvariant /\ Framing /\ [Next]_vars => Framing'
  <2> SUFFICES ASSUME InboundInvariant, Framing, [Next]_vars PROVE Framing'
    OBVIOUS
  <2>1. CASE UNCHANGED vars
    BY <2>1, FramingKept DEF vars, readVars, histVars
  <2>2. CASE ReadEvent
    BY <2>2, FramingRead
  <2>3. CASE RefillChunk
    BY <2>3, FramingRefill
  <2>4. CASE FrameLine
    BY <2>4, FramingLine
  <2>5. CASE FrameChar
    BY <2>5, FramingChar
  <2>6. CASE \/ NoRead \/ ProcessKeptBack \/ ProcessBegins \/ FrameNothing \/ ResumeScan
             \/ ResumeStore \/ NothingDeferred \/ NoPrompt \/ PromptChecked \/ Prompt
             \/ HookChoosesMode \/ OutboundWrites \/ HookCompletes \/ HookLeaves \/ Send
             \/ OtherDefers
    BY <2>6, FramingQuiet
  <2>7. QED
    BY <2>1, <2>2, <2>3, <2>4, <2>5, <2>6 DEF Next, LoopStep, HookStep
<1>3. InboundInvariant /\ Framing => MessagesFramed
  <2> SUFFICES ASSUME InboundInvariant, Framing, ~refused PROVE MessagesFramed
    BY DEF MessagesFramed
  <2>1. DOMAIN log = 1 .. Len(log)
    BY DEF InboundInvariant, InboundType
  <2>2. FramedLog(log, SentPayload, session.ansi)
    BY DEF Framing
  <2>3. QED
    BY <2>1, <2>2, Zenon DEF FramedLog, MessagesFramed
<1>4. QED
  BY <1>1, <1>2, <1>3, InboundInductive, PTL DEF Spec
=============================================================================
