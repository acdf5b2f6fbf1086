---------------------------- MODULE InputFraming ----------------------------
(***************************************************************************)
(* The two searches of src/lib/comm/inbound.cpp that frame buffered input: *)
(* _find_newline_and_strip and _find_char_input_sequence.  They work on    *)
(* the bytes from start to end of the one inbound buffer of a slot.        *)
(***************************************************************************)
EXTENDS Naturals, Sequences, SequencesExt, FiniteSetsExt

EndOfLine == {"CR", "LF", "NUL"}
Digits    == {"1", ";"}
Finals    == {"A", "a", "~"}    \* letters and the tilde that end ESC [ ...

\* The line between the white space around it.
Strip(line) ==
    LET kept == {i \in DOMAIN line : line[i] # "sp"} IN
    IF kept = {} THEN <<>> ELSE SubSeq(line, Min(kept), Max(kept))

\* The white space before it.
Leading(line) ==
    LET kept == {i \in DOMAIN line : line[i] # "sp"} IN
    IF kept = {} THEN Len(line) ELSE Min(kept) - 1

HasLine(data) == \E i \in DOMAIN data : data[i] \in EndOfLine

\* _find_newline_and_strip, for data with a line end: the stripped line, the
\* white space skipped before it, where the next line starts, and the bytes
\* from the line on as the call leaves them, zeros in place of what it cut.
FindNewlineAndStrip(data) ==
    LET i == Min({k \in DOMAIN data : data[k] \in EndOfLine})
        pair == data[i] = "CR" /\ i < Len(data) /\ data[i + 1] \in {"LF", "NUL"}
        next == IF pair THEN i + 2 ELSE i + 1
        line == SubSeq(data, 1, i - 1)
        body == Strip(line)
        skip == Leading(line)
        cut == (next - 1) - skip - Len(body) IN
    [body |-> body, skip |-> skip, next |-> next,
     edited |-> body \o [k \in 1..cut |-> "NUL"] \o SubSeq(data, next, Len(data))]

\* mbrlen: bytes of the first character, 0 for NUL and for an incomplete one.
MbLength(data) ==
    CASE data[1] = "NUL" -> 0
      [] data[1] = "u1" /\ Len(data) > 1 /\ data[2] = "u2" -> 2
      [] OTHER -> 1

MbIncomplete(data) == data = <<"u1">>

\* _find_char_input_sequence: whether a whole sequence is there, its length.
FindCharInputSequence(data, ansi) ==
    LET stop == {k \in 3..Len(data) : data[k] \notin Digits}
        escape == ansi /\ data # <<>> /\ data[1] = "ESC"
        control == escape /\ Len(data) > 1 /\ data[2] = "["
        Sequence(n) == [found |-> TRUE, len |-> n]
        none == [found |-> FALSE, len |-> 0] IN
    CASE data = <<>> -> none
      [] escape /\ Len(data) = 1 -> none
      [] control /\ stop = {} -> none
      [] control /\ stop # {} ->
            Sequence(IF data[Min(stop)] \in Finals THEN Min(stop) ELSE 1)
      [] OTHER -> IF MbIncomplete(data) THEN none ELSE Sequence(MbLength(data))
=============================================================================
