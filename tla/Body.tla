-------------------------------- MODULE Body --------------------------------
(***************************************************************************)
(* Copying of message bodies in http.c: get_line, the conversion of        *)
(* lengths, copy_bin and copy_chunks.  The input is a sequence of          *)
(* characters that ends in an end of file or in a read error; what has     *)
(* been written is a sequence of characters too, with line ends as CR LF.  *)
(*                                                                         *)
(* Integers have the width of CONTENT_LENGTH, whose largest value is LenMax.  *)
(***************************************************************************)
EXTENDS Integers, Sequences, SequencesExt

CONSTANTS LenMax,           \* CONTENT_LENGTH_MAX, one less than a power of 2
          MAXBUF,        \* size of the line buffer
          Digits         \* value of each character that is a digit

VARIABLES in,      \* what has not been read yet
          cut,     \* what a read after the end of the input gives
          out,     \* what has been written
          phase,   \* what copy_chunks does next
          cont,    \* length of the current chunk
          tot,     \* tot_size
          limit,   \* max_size, the value of MaxRequest; 0 is none
          given,   \* all of the input
          status   \* the result

bvars == << in, cut, out, phase, cont, tot, limit, given, status >>

EOL == << "CR", "LF" >>

Smallest(S) == CHOOSE i \in S : \A k \in S : i <= k

\* drain_eol: skip to the end of the line.
drain_eol(s) ==
    LET ends == {i \in DOMAIN s : s[i] = "LF"}
    IN  IF ends = {} THEN << >> ELSE SubSeq(s, Smallest(ends) + 1, Len(s))

\* get_line stops at a line feed, at the character after a carriage return,
\* and at any other control character but a tab.
StopsAt(s, i) == \/ s[i] \in {"LF", "CTL"}
                 \/ i > 1 /\ s[i - 1] = "CR"

WithoutCR(s) == SelectSeq(s, LAMBDA c : c # "CR")

\* get_line: [rc, line, rest].
get_line(s, end) ==
    LET stops == {i \in 1 .. Len(s) : i < MAXBUF /\ StopsAt(s, i)}
        i == Smallest(stops)
        after == SubSeq(s, i + 1, Len(s))
        Result(rc, line, rest) == [rc |-> rc, line |-> line, rest |-> rest]
    IN  CASE stops # {} /\ s[i] = "LF" ->
                Result("ok", WithoutCR(SubSeq(s, 1, i - 1)), after)
          [] stops # {} /\ s[i] # "LF" -> Result("bad_data", << >>, drain_eol(after))
          [] stops = {} /\ Len(s) >= MAXBUF - 1 ->
                Result("too_long", << >>, drain_eol(SubSeq(s, MAXBUF, Len(s))))
          [] stops = {} /\ Len(s) < MAXBUF - 1 /\ end = "err" ->
                Result("read_err", << >>, << >>)
          [] OTHER -> Result(IF s = << >> THEN "eof" ELSE "ok", WithoutCR(s), << >>)

\* strtoclen: the value of the leading digits, -1 if there are none or if it
\* would pass LenMax; and what follows them.
strtoclen(s, base) ==
    LET IsDigit(c) == c \in DOMAIN Digits /\ Digits[c] < base
        other == {i \in DOMAIN s : ~IsDigit(s[i])}
        n == IF other = {} THEN Len(s) ELSE Smallest(other) - 1
        Value[k \in 0 .. n] ==
            IF k = 0 THEN 0
            ELSE LET v == Value[k - 1]
                     c == Digits[s[k]]
                 IN  IF \/ v = -1
                        \/ v > LenMax \div base
                        \/ v = LenMax \div base /\ c > LenMax % base
                     THEN -1 ELSE v * base + c
    IN  [val |-> IF n = 0 THEN -1 ELSE Value[n], rest |-> SubSeq(s, n + 1, Len(s))]

trimwsl(s) ==
    LET other == {i \in DOMAIN s : s[i] # "SP"}
    IN  IF other = {} THEN << >> ELSE SubSeq(s, Smallest(other), Len(s))

\* get_content_length: the value of a Content-Length header or of a line
\* before a chunk, which may have extensions; -1 is NO_CONTENT_LENGTH.
get_content_length(s, mode) ==
    LET c == strtoclen(IF mode = "header" THEN trimwsl(s) ELSE s,
                       IF mode = "header" THEN 10 ELSE 16)
        rest == trimwsl(c.rest)
    IN  IF rest = << >> \/ (mode = "chunk" /\ Head(rest) = ";") THEN c.val ELSE -1

\* copy_bin: [rc, data, rest]; what could be read is written in any case.
copy_bin(s, end, n) ==
    IF Len(s) >= n
    THEN [rc |-> "ok", data |-> SubSeq(s, 1, n), rest |-> SubSeq(s, n + 1, Len(s))]
    ELSE [rc |-> IF end = "eof" THEN "eof" ELSE "read_err", data |-> s, rest |-> << >>]

\* The addition of CONTENT_LENGTH wraps around.
Wrap(v) == IF v > LenMax THEN v - 2 * (LenMax + 1) ELSE v

\* The status for a line that could not be read.
ReadStatus(rc) == IF rc = "read_err" THEN "internal_error" ELSE "bad_request"

-----------------------------------------------------------------------------
Finish(st) == phase' = "end" /\ status' = st

\* Reading of the line before a chunk.  It is passed on before the total is
\* compared with the limit.
ChunkSize ==
    /\ phase = "size"
    /\ LET l == get_line(in, cut)
           c == get_content_length(l.line, "chunk")
       IN  /\ in' = l.rest
           /\ \/ l.rc # "ok" /\ Finish(ReadStatus(l.rc)) /\ UNCHANGED << out, cont, tot >>
              \/ /\ l.rc = "ok" /\ c = -1
                 /\ Finish("bad_request") /\ UNCHANGED << out, cont, tot >>
              \/ /\ l.rc = "ok" /\ c # -1
                 /\ out' = out \o l.line \o EOL
                 /\ cont' = c
                 /\ tot' = Wrap(tot + c)
                 /\ IF limit > 0 /\ tot' > limit THEN Finish("too_large")
                    ELSE /\ phase' = IF c > 0 THEN "data" ELSE "trailer"
                         /\ UNCHANGED status
    /\ UNCHANGED << cut, limit, given >>

ChunkData ==
    /\ phase = "data"
    /\ LET b == copy_bin(in, cut, cont)
       IN  /\ in' = b.rest
           /\ out' = out \o b.data
           /\ \/ b.rc = "ok" /\ phase' = "crlf" /\ UNCHANGED status
              \/ b.rc # "ok" /\ Finish(ReadStatus(b.rc))
    /\ UNCHANGED << cut, cont, tot, limit, given >>

\* A mutant: whatever is on the line after a chunk is passed on.
ChunkEndUnchecked ==
    /\ phase = "crlf"
    /\ LET l == get_line(in, cut)
       IN  /\ in' = l.rest
           /\ \/ l.rc # "ok" /\ Finish(ReadStatus(l.rc)) /\ UNCHANGED out
              \/ /\ l.rc = "ok"
                 /\ out' = out \o l.line \o EOL
                 /\ phase' = "size"
                 /\ UNCHANGED status
    /\ UNCHANGED << cut, cont, tot, limit, given >>

\* The line after a chunk has to be empty.
ChunkEnd ==
    /\ phase = "crlf"
    /\ LET l == get_line(in, cut)
       IN  /\ in' = l.rest
           /\ \/ l.rc # "ok" /\ Finish(ReadStatus(l.rc)) /\ UNCHANGED out
              \/ l.rc = "ok" /\ l.line # << >> /\ Finish("bad_request") /\ UNCHANGED out
              \/ /\ l.rc = "ok" /\ l.line = << >>
                 /\ out' = out \o EOL
                 /\ phase' = "size"
                 /\ UNCHANGED status
    /\ UNCHANGED << cut, cont, tot, limit, given >>

\* Lines after the last chunk, to the first that is empty.
Trailer ==
    /\ phase = "trailer"
    /\ LET l == get_line(in, cut)
       IN  /\ in' = l.rest
           /\ \/ l.rc # "ok" /\ Finish(ReadStatus(l.rc)) /\ UNCHANGED out
              \/ /\ l.rc = "ok"
                 /\ out' = out \o l.line \o EOL
                 /\ IF l.line = << >> THEN Finish("ok") ELSE UNCHANGED << phase, status >>
    /\ UNCHANGED << cut, cont, tot, limit, given >>

\* Any of the writes, or the flush at the end, fails.
WriteFails ==
    /\ phase # "end"
    /\ Finish("internal_error")
    /\ UNCHANGED << in, cut, out, cont, tot, limit, given >>

copy_chunks == ChunkSize \/ ChunkData \/ ChunkEnd \/ Trailer \/ WriteFails

-----------------------------------------------------------------------------
(***************************************************************************)
(* What a chunked body is, line by line: [ok, data, rest].                 *)
(***************************************************************************)
Line(s) ==
    LET ends == {i \in DOMAIN s : s[i] = "LF"}
        e == IF ends = {} THEN 1 ELSE Smallest(ends)
        raw == SubSeq(s, 1, e - 1)
        line == IF raw # << >> /\ Last(raw) = "CR" THEN Front(raw) ELSE raw
    IN  [ok |-> ends # {} /\ \A i \in DOMAIN line : line[i] \notin {"CR", "CTL"},
         line |-> line, rest |-> SubSeq(s, e + 1, Len(s))]

NotBody == [ok |-> FALSE, data |-> << >>, rest |-> << >>]

\* The value of a numeral: digits weighted by powers of 16.
Numeral(s) == LET Sum[k \in 0 .. Len(s)] ==
                     IF k = 0 THEN 0 ELSE Sum[k - 1] * 16 + Digits[s[k]]
              IN  Sum[Len(s)]

SizeLine(s) ==
    LET hex == {n \in 1 .. Len(s) : \A i \in 1 .. n : s[i] \in DOMAIN Digits}
        n == CHOOSE n \in hex : \A m \in hex : m <= n
        rest == SelectSeq(SubSeq(s, n + 1, Len(s)), LAMBDA c : c # "SP")
    IN  IF hex # {} /\ (rest = << >> \/ Head(rest) = ";")
        THEN Numeral(SubSeq(s, 1, n)) ELSE -1

RECURSIVE Chunked(_), Trailers(_)
Trailers(s) ==
    LET l == Line(s)
    IN  CASE s = << >> \/ ~l.ok -> NotBody
          [] s # << >> /\ l.ok /\ l.line = << >> ->
                [ok |-> TRUE, data |-> << >>, rest |-> l.rest]
          [] OTHER -> Trailers(l.rest)

Chunked(s) ==
    LET l == Line(s)
        n == SizeLine(l.line)
        after == SubSeq(l.rest, n + 1, Len(l.rest))
        e == Line(after)
        more == Chunked(e.rest)
    IN  CASE s = << >> \/ ~l.ok \/ n = -1 -> NotBody
          [] n = 0 -> Trailers(l.rest)
          [] n > Len(l.rest) -> NotBody
          [] ~e.ok \/ e.line # << >> \/ ~more.ok -> NotBody
          [] OTHER -> [more EXCEPT !.data = SubSeq(l.rest, 1, n) \o @]

\* The lines of the input fit the buffer, and no number passes LenMax.
Fits == /\ \A i \in 1 .. Len(given) : i + MAXBUF - 2 <= Len(given) =>
              \E k \in i .. i + MAXBUF - 2 : given[k] = "LF"
        /\ tot >= 0

\* BodyExact.  If copy_chunks succeeds, what it wrote is a chunked body of
\* its own, nothing after it, with the data of the body it was given, and it
\* has read that body and not a character more: the next request begins
\* where it stopped.  It does succeed on every chunked body within the limit
\* that it can write.
BodyExact ==
    LET ref == Chunked(given)
        sent == Chunked(out)
    IN  /\ status = "ok" =>
              /\ sent.ok /\ sent.rest = << >>
              /\ ref.ok => sent.data = ref.data /\ in = ref.rest
              /\ ~ref.ok => in = << >>
        /\ status = "bad_request" /\ Fits => ~ref.ok
=============================================================================
